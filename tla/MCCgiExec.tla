------------------------------- MODULE MCCgiExec -------------------------------
(* Small instances of CgiExec: scripts that read first, write first, do neither *)
(* or never end, with output that fits a pipe or does not.                      *)
EXTENDS CgiExec

Says(type, location, body) == [type |-> type, location |-> location, body |-> body]
NewScript(plan, gives, says) ==
    [runs |-> TRUE, plan |-> plan, gives |-> gives, says |-> says, code |-> 0, deaf |-> FALSE]

Page    == Says("set", "empty", "set")
Created == Says("set", "set", "set")
Nothing == Says("empty", "empty", "empty")
Silent  == Says("none", "none", "empty")

\* Scripts for GET do not read their input, which is the server's own.
Writers ==
    {NewScript(<<"write">>, n, s) : n \in 1 .. 3, s \in {Page, Nothing, Says("set", "none", "set")}}
        \cup {NewScript(<<>>, 0, Silent), NewScript(<<"write", "loop">>, 1, Page),
              NewScript(<<"write">>, 1, Says("empty", "empty", "set"))}
Readers ==
    {NewScript(<<"read", "write">>, n, s) : n \in 1 .. 3, s \in {Page, Created}}
        \cup {NewScript(<<"write", "read">>, n, Created) : n \in 2 .. 3}
        \cup {NewScript(<<"read", "loop">>, 0, Silent)}

Variants(s) == {s, [s EXCEPT !.code = 1], [s EXCEPT !.deaf = TRUE], [s EXCEPT !.runs = FALSE]}

AllCalls ==
    [method : {"GET"}, body : {0}, script : UNION {Variants(s) : s \in Writers}]
        \cup [method : {"POST"}, body : {0, 1, 3}, script : UNION {Variants(s) : s \in Writers \cup Readers}]
=============================================================================
