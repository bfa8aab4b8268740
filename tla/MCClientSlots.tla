----------------------------- MODULE MCClientSlots -----------------------------
(* Requests with every combination of fields the answers depend on.            *)
EXTENDS ClientSlots, TLC

CONSTANTS p1, p2, p3

Field(n, v) == [name |-> n, is |-> v]
Host     == Field("Host", "h")
Closes   == Field("Connection", "close")
OneByte  == Field("Content-Length", 1)
Type     == Field("Content-Type", "text/plain")
Head_(post, sends, fields) == [fields |-> fields, post |-> post, sends |-> sends]

SomeHeads ==
    {Head_(FALSE, 0, <<Host>>),
     Head_(FALSE, 0, <<Host, Closes>>),
     Head_(FALSE, 0, <<Closes>>),
     Head_(FALSE, 0, <<Host, Host>>),
     Head_(TRUE, 1, <<OneByte, Host, Type>>),
     Head_(TRUE, 1, <<Host, OneByte>>),
     Head_(TRUE, 0, <<Host, Type>>)}
Symmetry == Permutations(Peers)
=============================================================================
