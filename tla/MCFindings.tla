----------------------------- MODULE MCFindings ------------------------------
(* Findings for TLC: a file of two lines, with a value that occurs on both *)
(* and is a secret, and a template expression beside an approved value.    *)
EXTENDS Findings

MCText == <<"a", "{{", "}}", "nl", "a">>
MCSecrets == {<<0, 1>>, <<4, 5>>}
MCBrackets == {<<"{{", "}}">>}
MCApproved == {<<"{{">>, <<"{{", "}}", "nl">>}
MCValues == {<<"a">>, <<"a", "{{">>, <<"z">>}
MCOffsets == {-1, 2, 6}
=============================================================================
