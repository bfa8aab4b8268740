---------------------------- MODULE MCRequestProcess ----------------------------
(***************************************************************************)
(* A small site: two files, a directory with an index and a script, one    *)
(* that uploads make, a page for errors, and requests of every kind.       *)
(***************************************************************************)
EXTENDS RequestProcess, TLC

CONSTANTS a, b

f == <<"f.txt">>  h == <<"h">>  d == <<"d">>  dev == <<"dev">>  e == <<"e">>
In(dir, names) == {Append(dir, x) : x \in names}

Plainly    == {"f", "h", "d", "dev", "e", "i", "j", "t1", "t2"}
WithTxt    == [x \in Plainly |-> x \o ".txt"]
StampNames == <<"t1", "t2">>

Hidden == [Node("file", "part") EXCEPT !.read = FALSE, !.write = FALSE]
Plain == [methods |-> Methods, autoindex |-> FALSE, indexes |-> <<"j", "i">>, redirect |-> 0,
          target |-> <<>>, pages |-> [s \in {404} |-> e]]
Lists == [Plain EXCEPT !.autoindex = TRUE, !.pages = [s \in {405, 500} |-> e]]
Moved == [Plain EXCEPT !.redirect = 301]
Posts == [Lists EXCEPT !.methods = {"POST"}]

Get(p, s) ==
    [method |-> "GET", path |-> p, slash |-> FALSE, body |-> Nothing, site |-> s,
     typed |-> FALSE, supported |-> TRUE, sized |-> TRUE]
PostTo(p, s)  == [Get(p, s) EXCEPT !.method = "POST", !.body = "b"]
Typed(q)      == [q EXCEPT !.typed = TRUE]
DeleteAt(p)   == [Get(p, Plain) EXCEPT !.method = "DELETE"]
UploadTo(dir) == [Typed(PostTo(dir, Plain)) EXCEPT !.slash = TRUE]

SomeChanges == {<<e, Absent>>, <<e, Node("file", "part")>>, <<f, Absent>>}

\* One client asks for anything, the other for what changes files.
Writes == {UploadTo(f), DeleteAt(f)}
AllRequests ==
    Writes \cup
    {Get(f, Plain), Get(h, Plain), PostTo(f, Plain), PostTo(h, Plain), DeleteAt(h),
     Get(d, Plain), Get(d, Lists), Get(dev, Plain), Get(<<"f">>, Plain),
     Get(Append(d, "x.py"), Lists), Get(f, Moved), Get(f, Posts),
     PostTo(Append(d, "y.py"), Plain), PostTo(dev, Plain), Typed(PostTo(<<"f">>, Plain)),
     PostTo(Append(d, "x.py"), Plain),
     [PostTo(f, Lists) EXCEPT !.supported = FALSE], [PostTo(f, Plain) EXCEPT !.sized = FALSE],
     DeleteAt(Append(d, "x.py")), DeleteAt(d)}
WhatTheyWant == a :> AllRequests @@ b :> Writes

\* What there is, what is asked for and what an upload may make.
AllPaths ==
    {<<>>, e} \cup In(d, {"i", "j"}) \cup {q.path : q \in AllRequests}
        \cup UNION {Targets(q) : q \in {r \in AllRequests : r.method = "POST"}}
AllFiles ==
    [p \in AllPaths |->
        CASE p \in {<<>>, d} -> Node("dir", Nothing)
          [] p \in {f, e, Append(d, "i"), Append(d, "x.py")} -> Node("file", "part")
          [] p = h -> Hidden
          [] p = dev -> Node("other", Nothing)
          [] OTHER -> Absent]
=============================================================================
