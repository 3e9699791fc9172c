----------------------------- MODULE WebhookQueue -----------------------------
(***************************************************************************)
(* The bounded queue between the webhook endpoint and its workers, and the *)
(* order in which the daemon stops them.  What a worker does with an event *)
(* is left to the module that extends this one.                            *)
(***************************************************************************)
EXTENDS Naturals, Sequences

CONSTANTS Events,    \* webhook events
          Workers,   \* config.webhook.processing_workers
          Capacity,  \* config.webhook.event_queue_size
          None       \* no event

ASSUME QueueConstantsOK ==
    /\ Capacity \in Nat
    /\ None \notin Events

VARIABLES
    queue,     \* the buffered channel
    handling,  \* handling[w]: the event that worker w dispatches
    gone,      \* workers that have returned
    refused,   \* events answered with 429, or sent to a server that is down
    stage      \* how far main has come in its shutdown

queueVars == <<queue, handling, gone, refused, stage>>

-------------------------------------------------------------------------------
Stages == {"running", "cancelled", "closed"}

Running == stage = "running"
Cancelled == ~Running  \* the context of the workers and of cron jobs is done
Idle(w) == handling[w] = None /\ w \notin gone

QueueInit ==
    /\ queue = <<>>
    /\ handling = [w \in Workers |-> None]
    /\ gone = {}
    /\ refused = {}
    /\ stage = "running"

\* Mutant of Enqueue: a full queue takes the event.
EnqueueAnyway(e) ==
    /\ IF stage # "closed"
       THEN queue' = Append(queue, e) /\ UNCHANGED refused
       ELSE refused' = refused \cup {e} /\ UNCHANGED queue
    /\ UNCHANGED <<handling, gone, stage>>

\* A delivery: the endpoint never blocks, it accepts an event or refuses it.
Enqueue(e) ==
    /\ IF stage # "closed" /\ Len(queue) < Capacity
       THEN queue' = Append(queue, e) /\ UNCHANGED refused
       ELSE refused' = refused \cup {e} /\ UNCHANGED queue
    /\ UNCHANGED <<handling, gone, stage>>

\* A worker receives an event.  With the context done as well, select picks
\* either case.
Receive(w) ==
    /\ Idle(w)
    /\ queue # <<>>
    /\ handling' = [handling EXCEPT ![w] = Head(queue)]
    /\ queue' = Tail(queue)
    /\ UNCHANGED <<gone, refused, stage>>

\* dispatch returns.
Finish(w) ==
    /\ handling[w] # None
    /\ handling' = [handling EXCEPT ![w] = None]
    /\ UNCHANGED <<queue, gone, refused, stage>>

Leave(w) ==
    /\ Idle(w)
    /\ Cancelled \/ (stage = "closed" /\ queue = <<>>)
    /\ gone' = gone \cup {w}
    /\ UNCHANGED <<queue, handling, refused, stage>>

\* main after the signal: cancel the context, wait for cron jobs at most five
\* minutes, then stop the server and close the queue.  It sleeps two seconds
\* before the process exits: no step waits for the workers.
Shutdown ==
    /\ \/ stage = "running" /\ stage' = "cancelled"
       \/ stage = "cancelled" /\ stage' = "closed"
    /\ UNCHANGED <<queue, handling, gone, refused>>

QueueTypeOK ==
    /\ queue \in Seq(Events) /\ Len(queue) <= Capacity
    /\ handling \in [Workers -> Events \cup {None}]
    /\ gone \subseteq Workers
    /\ refused \subseteq Events
    /\ stage \in Stages

\* Once all workers have returned, no accepted event is left in the queue.
\* (docs/architecture.md:413: "Close the webhook queue (workers drain
\* remaining events)".)
Drained == gone = Workers => queue = <<>>
===============================================================================
