------------------------------- MODULE CgiProofs -------------------------------
(***************************************************************************)
(* Proofs about CgiExec: the server keeps neither a pipe nor a child, and  *)
(* what it answers with is all that a script that succeeded has written,   *)
(* for pipes of any size, any body and any script.                         *)
(***************************************************************************)
EXTENDS CgiExec, TLAPS

-------------------------------------------------------------------------------
(* The inductive invariant                                                     *)

\* Where the server is says what it holds and how far the child is.
ServerPart ==
    /\ pc \in {"pipes", "reap", "done"} => held = {}
    /\ pc = "input" => held = {"outR", "outW"}
    /\ pc = "fork" => held = Ends
    /\ pc = "write" => held = {"inW", "outR", "outW"}
    /\ pc \in {"wait", "look", "read"} => held = {"outR"}
    /\ pc \in {"input", "write"} => call.method = "POST"
    /\ pc \in {"pipes", "input", "fork"} => child = NoChild /\ child.at = "none"
    /\ pc \in {"write", "wait", "look", "reap"} => child.at \in {"forked", "script", "dead"}
    /\ pc = "read" => child.at = "reaped" /\ child.code = 0
    /\ pc \in {"wait", "look", "reap", "read"} => left = 0
    /\ pc # "done" => status = 0
    /\ pc = "done" => status # 0 /\ (left = 0 \/ status = 500)

\* Nobody will write the rest of the body.
GivenUp == pc = "killed" \/ status = 500

\* What the child has behind it: its output, or all of the input there will be.
ChildPart ==
    /\ child.given <= script.gives
    /\ child.at = "script" => script.runs
    /\ \A k \in 1 .. Len(script.plan) : k < child.next =>
          /\ script.plan[k] = "write" => child.given = script.gives
          /\ script.plan[k] = "read" => left + in = 0 \/ GivenUp
    /\ child.at \in {"dead", "reaped"} /\ child.code = 0 =>
          script.runs /\ script.code = 0 /\ child.next > Len(script.plan)

Inv == TypeOK /\ ServerPart /\ ChildPart /\ NothingLeft /\ WholeAnswer

\* A call and its script.
LEMMA CallFacts ==
    ASSUME TypeOK
    PROVE  /\ call.body \in Nat /\ script \in Script
           /\ script.gives \in Nat /\ script.code \in Nat /\ script.plan \in Seq(Steps)
           /\ call.method \in {"GET", "POST"}
           /\ call.method = "GET" => call.body = 0
           /\ ~Does(script, "write") => script.gives = 0
<1>1. call \in Calls
  BY DEF TypeOK
<1>2. call \in [method : {"GET", "POST"}, body : Nat, script : Script]
  BY <1>1, CgiAssumption
<1>. QED  BY <1>1, <1>2, CgiAssumption DEF script, Script

-------------------------------------------------------------------------------
(* The first state                                                             *)

\* Before the pipes are made (Cgi.cpp:122-125) the invariant holds.
THEOREM InitInv == Init => Inv
<1>. SUFFICES ASSUME Init  PROVE Inv
  OBVIOUS
<1>1. call.body \in Nat
  BY CgiAssumption DEF Init
<1>2. TypeOK
  BY <1>1, CgiAssumption DEF Init, TypeOK, NoChild, Ends
<1>3. ServerPart /\ NothingLeft /\ WholeAnswer
  BY DEF Init, ServerPart, NothingLeft, WholeAnswer, NoChild
<1>4. ChildPart
  BY <1>2, CallFacts DEF Init, ChildPart, NoChild
<1>. QED  BY <1>2, <1>3, <1>4 DEF Inv

-------------------------------------------------------------------------------
(* Every step                                                                  *)

\* What stays the same about a call.
LEMMA CallStays ==
    ASSUME Next  PROVE call' = call /\ script' = script /\ Ends' = Ends
  BY DEF Next, Server, Failure, Child, Tick, OutputPipe, InputPipe, ForkFails, Fork, WriteSome, WriteKills,
         WriteFails, WriteEnd, Exited, StillRuns, NotYetLate, TooLate, Reaped, ReadSome,
         ReadFails, ReadEnd, ChildStarts, ScriptReads, ScriptReadsEnd, ScriptWrites,
         ScriptBreaks, ScriptWritesEnd, ScriptExits, script, Ends

\* Steps that leave the child and the bytes alone.
Aside == UNCHANGED <<child, pipes, left, got>>

\* Such a step leaves the child where its part of the invariant has it.
LEMMA AsideKeepsChild ==
    ASSUME Inv, Next, Aside, GivenUp => GivenUp'
    PROVE  ChildPart'
  BY CallStays DEF Aside, Inv, ChildPart, pipes

\* The server, as far as nothing moves through a pipe.
LEMMA ServerKeeps ==
    ASSUME Inv, Next,
           OutputPipe \/ InputPipe \/ ForkFails \/ WriteKills \/ WriteFails \/ WriteEnd \/ StillRuns
             \/ NotYetLate \/ ReadFails \/ ReadEnd \/ Tick
    PROVE  Inv'
<1>. USE CallStays, CallFacts
<1>0. Aside /\ call' = call /\ script' = script /\ Ends' = Ends
  BY DEF OutputPipe, InputPipe, ForkFails, WriteKills, WriteFails, WriteEnd, StillRuns, NotYetLate,
         ReadFails, ReadEnd, Tick, Aside, pipes
<1>1. CASE OutputPipe \/ InputPipe
  <2>1. TypeOK'
    <3>1. /\ held' \subseteq Ends /\ pc' \in {"input", "fork", "done"}
          /\ status' \in {status, 500} /\ age' = age
      BY <1>1 DEF OutputPipe, InputPipe, Answer, Inv, ServerPart, Ends
    <3>. QED  BY <1>0, <3>1 DEF Inv, TypeOK, Aside, pipes
  <2>2. \/ pc' = "done" /\ status' = 500 /\ held' = {}
        \/ pc' = "input" /\ call.method = "POST" /\ held' = {"outR", "outW"} /\ status' = status
        \/ pc' = "fork" /\ held' = Ends /\ status' = status
    BY <1>1 DEF OutputPipe, InputPipe, Answer, Inv, ServerPart, Ends
  <2>3. pc \in {"pipes", "input"} /\ child = NoChild /\ child.at = "none" /\ status = 0
    BY <1>1 DEF OutputPipe, InputPipe, Inv, ServerPart
  <2>4. ServerPart' /\ NothingLeft' /\ WholeAnswer' /\ (GivenUp => GivenUp')
    BY <1>0, <2>2, <2>3 DEF ServerPart, NothingLeft, WholeAnswer, GivenUp, Aside, NoChild
  <2>. QED  BY <1>0, <2>1, <2>4, AsideKeepsChild DEF Inv
<1>2. CASE ForkFails
  <2>1. TypeOK'
    BY <1>0, <1>2 DEF ForkFails, Answer, Inv, TypeOK, Aside, pipes
  <2>2. ServerPart' /\ NothingLeft' /\ WholeAnswer' /\ (GivenUp => GivenUp')
    BY <1>0, <1>2
       DEF ForkFails, Answer, Inv, ServerPart, NothingLeft, WholeAnswer, GivenUp, Aside
  <2>. QED  BY <1>0, <2>1, <2>2, AsideKeepsChild DEF Inv
<1>3. CASE WriteKills
  <2>1. TypeOK'
    BY <1>0, <1>3 DEF WriteKills, Inv, TypeOK, Aside, pipes
  <2>2. ServerPart' /\ NothingLeft' /\ WholeAnswer' /\ (GivenUp => GivenUp')
    BY <1>0, <1>3
       DEF WriteKills, Inv, ServerPart, NothingLeft, WholeAnswer, GivenUp, Aside
  <2>. QED  BY <1>0, <2>1, <2>2, AsideKeepsChild DEF Inv
<1>4. CASE WriteFails
  <2>1. TypeOK'
    BY <1>0, <1>4 DEF WriteFails, Answer, Inv, TypeOK, Aside, pipes
  <2>2. ServerPart' /\ NothingLeft' /\ WholeAnswer' /\ (GivenUp => GivenUp')
    BY <1>0, <1>4
       DEF WriteFails, Answer, Inv, ServerPart, NothingLeft, WholeAnswer, GivenUp, Aside
  <2>. QED  BY <1>0, <2>1, <2>2, AsideKeepsChild DEF Inv
<1>5. CASE WriteEnd \/ StillRuns \/ NotYetLate
  <2>1. TypeOK'
    <3>1. /\ held' \subseteq held /\ pc' \in {"wait", "look"}
          /\ age' = age /\ status' = status
      BY <1>5 DEF WriteEnd, StillRuns, NotYetLate
    <3>. QED  BY <1>0, <3>1 DEF Inv, TypeOK, Aside, pipes
  <2>2. ServerPart' /\ NothingLeft' /\ WholeAnswer' /\ (GivenUp => GivenUp')
    BY <1>0, <1>5
       DEF WriteEnd, StillRuns, NotYetLate, Running, Inv, ServerPart, NothingLeft,
           WholeAnswer, GivenUp, Aside
  <2>. QED  BY <1>0, <2>1, <2>2, AsideKeepsChild DEF Inv
<1>6. CASE ReadFails
  <2>1. TypeOK'
    BY <1>0, <1>6 DEF ReadFails, Answer, Inv, TypeOK, Aside, pipes
  <2>2. ServerPart' /\ NothingLeft' /\ WholeAnswer' /\ (GivenUp => GivenUp')
    BY <1>0, <1>6
       DEF ReadFails, Answer, Inv, ServerPart, NothingLeft, WholeAnswer, GivenUp, Aside
  <2>. QED  BY <1>0, <2>1, <2>2, AsideKeepsChild DEF Inv
<1>7. CASE ReadEnd
  <2>1. Outcome(script.says) \in {200, 201, 204, 500}
    BY DEF Inv, Outcome, Script, Output
  <2>2. /\ pc = "read" /\ out = 0 /\ pc' = "done" /\ held' = {}
        /\ status' = Outcome(script.says)
    BY <1>7 DEF ReadEnd, Answer, Inv, ServerPart
  <2>3. TypeOK'
    BY <1>0, <1>7, <2>1, <2>2 DEF ReadEnd, Inv, TypeOK, Aside, pipes
  <2>4. ServerPart' /\ NothingLeft' /\ (GivenUp => GivenUp')
    BY <1>0, <2>1, <2>2 DEF Inv, ServerPart, NothingLeft, GivenUp, Aside
  <2>5. /\ script.runs /\ script.code = 0 /\ child.next > Len(script.plan)
        /\ left = 0 /\ ~GivenUp
    BY <2>2 DEF Inv, ServerPart, ChildPart, GivenUp
  <2>6. got = child.given /\ left + in + child.taken = call.body
    BY <2>2 DEF Inv, TypeOK
  <2>7. ASSUME NEW step \in Steps, Does(script, step)
        PROVE  \E k \in 1 .. Len(script.plan) : k < child.next /\ script.plan[k] = step
    <3>1. script.plan \in Seq(Steps) /\ child.next \in Nat
      BY CallFacts DEF Inv, TypeOK
    <3>2. PICK k \in 1 .. Len(script.plan) : script.plan[k] = step
      BY <2>7, <3>1 DEF Does
    <3>. QED  BY <2>5, <3>1, <3>2
  <2>8. /\ child.given = script.gives
        /\ Does(script, "read") => child.taken = call.body
    <3>1. Does(script, "write") => child.given = script.gives
      BY <2>7 DEF Inv, ChildPart, Steps
    <3>2. ~Does(script, "write") => child.given = script.gives
      BY CallFacts DEF Inv, TypeOK, ChildPart
    <3>3. Does(script, "read") => left + in = 0
      BY <2>5, <2>7 DEF Inv, ChildPart, Steps
    <3>4. left + in = 0 => child.taken = call.body
      BY <2>6, CallFacts DEF Inv, TypeOK
    <3>. QED  BY <3>1, <3>2, <3>3, <3>4
  <2>9. WholeAnswer'
    BY <1>0, <2>5, <2>6, <2>8 DEF WholeAnswer, Aside
  <2>. QED  BY <1>0, <2>3, <2>4, <2>9, AsideKeepsChild DEF Inv
<1>8. CASE Tick
  <2>1. TypeOK'
    BY <1>0, <1>8, CgiAssumption DEF Tick, Inv, TypeOK, Aside, pipes
  <2>2. ServerPart' /\ NothingLeft' /\ WholeAnswer' /\ (GivenUp => GivenUp')
    BY <1>0, <1>8 DEF Tick, Inv, ServerPart, NothingLeft, WholeAnswer, GivenUp, Aside
  <2>. QED  BY <1>0, <2>1, <2>2, AsideKeepsChild DEF Inv
<1>. QED  BY <1>1, <1>2, <1>3, <1>4, <1>5, <1>6, <1>7, <1>8

\* The child is a record of its fields.
ChildRecord ==
    [at : {"none", "forked", "script", "dead", "reaped"}, next : Nat \ {0},
     taken : Nat, given : Nat, ends : SUBSET Ends, code : Nat]

\* What is left of a child that ended.
LEMMA DeadFacts ==
    ASSUME child \in ChildRecord, NEW c \in Nat
    PROVE  /\ Dead(c) \in ChildRecord
           /\ Dead(c).at = "dead" /\ Dead(c).code = c /\ Dead(c).next = child.next
           /\ Dead(c).taken = child.taken /\ Dead(c).given = child.given
  BY DEF Dead, ChildRecord

\* The child ends or is waited for: the bytes stay where they are.
LEMMA EndKeeps ==
    ASSUME Inv, Next, child' \in ChildRecord, UNCHANGED <<pipes, left, got>>,
           child'.next = child.next, child'.taken = child.taken, child'.given = child.given,
           child'.at = "script" => script.runs,
           child'.at \in {"dead", "reaped"} /\ child'.code = 0 =>
              script.runs /\ script.code = 0 /\ child.next > Len(script.plan),
           GivenUp => GivenUp'
    PROVE  ChildPart'
  BY CallStays DEF Inv, ChildPart, pipes

\* fork(), waitpid() and SIGTERM.
LEMMA ServerTouchesChild ==
    ASSUME Inv, Next, Fork \/ Exited \/ TooLate \/ Reaped
    PROVE  Inv'
<1>0. /\ call' = call /\ script' = script /\ Ends' = Ends
      /\ child \in ChildRecord /\ script.gives \in Nat
      /\ in' = in /\ out' = out /\ left' = left /\ got' = got /\ age' = age
  BY CallStays, CallFacts
     DEF Inv, TypeOK, ChildRecord, Fork, Exited, TooLate, Reaped, pipes
<1>1. CASE Fork
  <2>1. /\ pc = "fork" /\ child = NoChild /\ status = 0 /\ held \subseteq Ends
    BY <1>1 DEF Fork, Inv, ServerPart, TypeOK
  <2>2. /\ child' \in ChildRecord /\ child'.at = "forked" /\ child'.next = 1
        /\ child'.taken = 0 /\ child'.given = 0
    BY <1>0, <1>1, <2>1 DEF Fork, NoChild, ChildRecord
  <2>3. /\ held' \subseteq Ends /\ pc' \in {"write", "wait"} /\ status' = 0
    BY <1>1, <2>1 DEF Fork
  <2>4. child.taken = 0 /\ child.given = 0
    BY <2>1 DEF NoChild
  <2>5. TypeOK'
    BY <1>0, <2>2, <2>3, <2>4 DEF Inv, TypeOK, ChildRecord
  <2>6. /\ pc' = "write" => held' = {"inW", "outR", "outW"} /\ call.method = "POST"
        /\ pc' = "wait" => held' = {"outR"} /\ left = 0
    <3>1. held = Ends
      BY <2>1 DEF Inv, ServerPart
    <3>2. pc' = "write" => held' = {"inW", "outR", "outW"} /\ call.method = "POST"
      BY <1>1, <3>1 DEF Fork, Ends
    <3>3. pc' = "wait" => held' = {"outR"} /\ call.method = "GET"
      BY <1>1, <3>1, CallFacts DEF Fork, Ends, Inv
    <3>4. call.method = "GET" => left = 0
      BY CallFacts DEF Inv, TypeOK
    <3>. QED  BY <3>2, <3>3, <3>4
  <2>7. ServerPart' /\ NothingLeft' /\ WholeAnswer'
    BY <1>0, <2>2, <2>3, <2>6 DEF ServerPart, NothingLeft, WholeAnswer
  <2>8. ChildPart'
    BY <1>0, <2>2, <2>4 DEF ChildPart
  <2>. QED  BY <2>5, <2>7, <2>8 DEF Inv
<1>2. CASE Exited
  <2>1. /\ pc = "wait" /\ child.at = "dead" /\ status = 0 /\ left = 0 /\ ~GivenUp
        /\ child' = [child EXCEPT !.at = "reaped"]
    BY <1>2 DEF Exited, Inv, ServerPart, GivenUp
  <2>0. held = {"outR"} /\ {"outR"} \subseteq Ends
    BY <2>1 DEF Inv, ServerPart, Ends
  <2>2. /\ child' \in ChildRecord /\ child'.at = "reaped" /\ child'.code = child.code
        /\ child'.next = child.next /\ child'.taken = child.taken
        /\ child'.given = child.given
    BY <1>0, <2>1 DEF ChildRecord
  <2>3. \/ child.code = 0 /\ pc' = "read" /\ held' = {"outR"} /\ status' = status
        \/ pc' = "done" /\ held' = {} /\ status' = 500
    BY <1>2, <2>0 DEF Exited, Answer
  <2>4. TypeOK'
    BY <1>0, <2>0, <2>1, <2>2, <2>3 DEF Inv, TypeOK, ChildRecord
  <2>5. ServerPart' /\ NothingLeft' /\ WholeAnswer'
    BY <1>0, <2>1, <2>2, <2>3 DEF ServerPart, NothingLeft, WholeAnswer
  <2>6. ChildPart'
    BY <1>0, <2>1, <2>2, EndKeeps DEF Inv, ChildPart, pipes
  <2>. QED  BY <2>4, <2>5, <2>6 DEF Inv
<1>3. CASE TooLate
  <2>1. /\ pc = "look" /\ pc' = "reap" /\ status' = 0 /\ status = 0 /\ left = 0
        /\ held' = {} /\ child.at \in {"forked", "script", "dead"} /\ ~GivenUp
        /\ child' \in {Dead(1), child}
    BY <1>3 DEF TooLate, Inv, ServerPart, GivenUp
  <2>2. /\ child' \in ChildRecord /\ child'.at \in {"forked", "script", "dead"}
        /\ child'.next = child.next /\ child'.taken = child.taken
        /\ child'.given = child.given
        /\ child' = child \/ (child'.at = "dead" /\ child'.code = 1)
    BY <1>0, <2>1, DeadFacts
  <2>3. TypeOK'
    BY <1>0, <2>1, <2>2 DEF Inv, TypeOK, ChildRecord
  <2>4. ServerPart' /\ NothingLeft' /\ WholeAnswer'
    BY <1>0, <2>1, <2>2 DEF ServerPart, NothingLeft, WholeAnswer
  <2>5. ChildPart'
    BY <1>0, <2>1, <2>2, EndKeeps DEF Inv, ChildPart, pipes
  <2>. QED  BY <2>3, <2>4, <2>5 DEF Inv
<1>4. CASE Reaped
  <2>1. /\ pc = "reap" /\ pc' = "done" /\ status' = 504 /\ status = 0 /\ left = 0
        /\ held' = {} /\ child.at = "dead" /\ ~GivenUp
        /\ child' = [child EXCEPT !.at = "reaped"]
    BY <1>4 DEF Reaped, Answer, Inv, ServerPart, GivenUp
  <2>2. /\ child' \in ChildRecord /\ child'.at = "reaped" /\ child'.code = child.code
        /\ child'.next = child.next /\ child'.taken = child.taken
        /\ child'.given = child.given
    BY <1>0, <2>1 DEF ChildRecord
  <2>3. TypeOK'
    BY <1>0, <2>1, <2>2 DEF Inv, TypeOK, ChildRecord
  <2>4. ServerPart' /\ NothingLeft' /\ WholeAnswer'
    BY <1>0, <2>1, <2>2 DEF ServerPart, NothingLeft, WholeAnswer
  <2>5. ChildPart'
    BY <1>0, <2>1, <2>2, EndKeeps DEF Inv, ChildPart, pipes
  <2>. QED  BY <2>3, <2>4, <2>5 DEF Inv
<1>. QED  BY <1>1, <1>2, <1>3, <1>4

\* A byte goes into the first pipe or comes out of the second.
LEMMA ServerMovesBytes ==
    ASSUME Inv, Next, WriteSome \/ ReadSome
    PROVE  Inv'
<1>0. /\ call' = call /\ script' = script /\ Ends' = Ends
      /\ child' = child /\ pc' = pc /\ held' = held /\ age' = age /\ status' = status
      /\ call.body \in Nat
  BY CallStays, CallFacts DEF Inv, WriteSome, ReadSome
<1>1. CASE WriteSome
  <2>1. /\ pc = "write" /\ left > 0 /\ in < PipeSize /\ out' = out /\ got' = got
        /\ in' = in + 1 /\ left' = left - 1
    BY <1>1 DEF WriteSome
  <2>2. TypeOK'
    BY <1>0, <2>1, CgiAssumption DEF Inv, TypeOK
  <2>3. ServerPart' /\ NothingLeft' /\ WholeAnswer'
    BY <1>0, <2>1 DEF Inv, ServerPart, NothingLeft, WholeAnswer
  <2>4. left' + in' = left + in
    BY <2>1, CgiAssumption DEF Inv, TypeOK
  <2>5. ChildPart'
    BY <1>0, <2>4 DEF Inv, ChildPart, GivenUp
  <2>. QED  BY <2>2, <2>3, <2>5 DEF Inv
<1>2. CASE ReadSome
  <2>1. /\ pc = "read" /\ out > 0 /\ out' = out - 1 /\ got' = got + 1
        /\ in' = in /\ left' = left
    BY <1>2 DEF ReadSome
  <2>2. TypeOK'
    BY <1>0, <2>1, CgiAssumption DEF Inv, TypeOK
  <2>3. ServerPart' /\ NothingLeft' /\ WholeAnswer'
    BY <1>0, <2>1 DEF Inv, ServerPart, NothingLeft, WholeAnswer
  <2>4. ChildPart'
    BY <1>0, <2>1 DEF Inv, ChildPart, GivenUp
  <2>. QED  BY <2>2, <2>3, <2>4 DEF Inv
<1>. QED  BY <1>1, <1>2

\* What a living child does changes nothing of the server: when it lives the server
\* has not answered with what it wrote.
LEMMA ServerUnmoved ==
    ASSUME Inv, Next, UNCHANGED <<call, pc, held, left, got, age, status>>,
           Running, child'.at \in {"forked", "script", "dead"}
    PROVE  ServerPart' /\ NothingLeft' /\ WholeAnswer' /\ (GivenUp <=> GivenUp')
<1>1. child.at \in {"forked", "script"}
  BY DEF Running
<1>2. pc \in {"write", "wait", "look", "reap", "done", "killed"}
  BY <1>1 DEF Inv, TypeOK, ServerPart
<1>3. pc = "done" => left # 0 /\ status = 500
  BY <1>1 DEF Inv, NothingLeft, ServerPart, TypeOK
<1>4. status \notin {200, 201, 204}
  BY <1>2, <1>3 DEF Inv, ServerPart
<1>5. ServerPart'
  BY <1>1, <1>2 DEF Inv, ServerPart
<1>6. NothingLeft'
  BY <1>3 DEF Inv, NothingLeft, ServerPart, TypeOK
<1>7. WholeAnswer' /\ (GivenUp <=> GivenUp')
  BY <1>4 DEF WholeAnswer, GivenUp
<1>. QED  BY <1>5, <1>6, <1>7

\* The types, when only the child and the bytes in the pipes have moved.
LEMMA PrimedTypes ==
    ASSUME Inv, call' = call, Ends' = Ends, UNCHANGED <<pc, held, left, got, age, status>>,
           child' \in ChildRecord, in' \in 0 .. PipeSize, out' \in 0 .. PipeSize,
           left' + in' + child'.taken = call'.body, got' + out' = child'.given
    PROVE  TypeOK'
  BY DEF Inv, TypeOK, ChildRecord

\* What the child does, from its start to its end.
LEMMA ChildKeeps ==
    ASSUME Inv, Next, Child
    PROVE  Inv'
<1>0. /\ call' = call /\ script' = script /\ Ends' = Ends
      /\ child \in ChildRecord /\ script \in Script
      /\ script.gives \in Nat /\ script.code \in Nat /\ script.plan \in Seq(Steps)
      /\ UNCHANGED <<call, pc, held, left, got, age, status>> /\ Running
  BY CallStays, CallFacts
     DEF Inv, TypeOK, ChildRecord, Child, ChildStarts, ScriptReads, ScriptReadsEnd,
         ScriptWrites, ScriptBreaks, ScriptWritesEnd, ScriptExits, Doing, Running, pipes
<1>1. CASE ChildStarts
  <2>. DEFINE started == [child EXCEPT !.at = "script", !.ends = child.ends \ {"outR", "inW"}]
  <2>1. /\ child.at = "forked" /\ in' = in /\ out' = out
        /\ child' = IF script.runs THEN started ELSE Dead(1)
    BY <1>1 DEF ChildStarts, pipes
  <2>2. /\ started \in ChildRecord /\ started.at = "script" /\ started.next = child.next
        /\ started.taken = child.taken /\ started.given = child.given
    BY <1>0 DEF ChildRecord
  <2>. HIDE DEF started
  <2>3. /\ child' \in ChildRecord /\ child'.at \in {"script", "dead"}
        /\ child'.next = child.next /\ child'.taken = child.taken
        /\ child'.given = child.given
        /\ child'.at = "script" => script.runs
        /\ child'.at = "dead" => child'.code = 1
    BY <1>0, <2>1, <2>2, DeadFacts
  <2>4. TypeOK'
    BY <1>0, <2>1, <2>3 DEF Inv, TypeOK, ChildRecord
  <2>5. ServerPart' /\ NothingLeft' /\ WholeAnswer' /\ (GivenUp <=> GivenUp')
    BY <1>0, <2>3, ServerUnmoved
  <2>6. ChildPart'
    BY <1>0, <2>1, <2>3, <2>5, EndKeeps DEF pipes
  <2>. QED  BY <2>4, <2>5, <2>6 DEF Inv
<1>2. CASE ScriptBreaks \/ ScriptExits
  <2>1. PICK c \in Nat : /\ child' = Dead(c)
                         /\ c = 0 => script.code = 0 /\ child.next > Len(script.plan)
    BY <1>0, <1>2 DEF ScriptBreaks, ScriptExits
  <2>2. /\ child.at = "script" /\ in' = in /\ out' = out /\ script.runs
    BY <1>2 DEF ScriptBreaks, ScriptExits, Doing, pipes, Inv, ChildPart
  <2>3. /\ child' \in ChildRecord /\ child'.at = "dead" /\ child'.code = c
        /\ child'.next = child.next /\ child'.taken = child.taken
        /\ child'.given = child.given
    BY <1>0, <2>1, DeadFacts
  <2>4. TypeOK'
    BY <1>0, <2>2, <2>3 DEF Inv, TypeOK, ChildRecord
  <2>5. ServerPart' /\ NothingLeft' /\ WholeAnswer' /\ (GivenUp <=> GivenUp')
    BY <1>0, <2>3, ServerUnmoved
  <2>6. ChildPart'
    BY <1>0, <2>1, <2>2, <2>3, <2>5, EndKeeps DEF pipes
  <2>. QED  BY <2>4, <2>5, <2>6 DEF Inv
<1>3. CASE ScriptReads
  <2>1. /\ child.at = "script" /\ in > 0 /\ in' = 0 /\ out' = out
        /\ child' = [child EXCEPT !.taken = child.taken + in]
        /\ child.next <= Len(script.plan) /\ in \in Nat /\ left \in Nat
    BY <1>3 DEF ScriptReads, Doing, Inv, TypeOK
  <2>2. /\ child' \in ChildRecord /\ child'.at = "script" /\ child'.code = child.code
        /\ child'.next = child.next /\ child'.taken = child.taken + in
        /\ child'.given = child.given
    BY <1>0, <2>1 DEF ChildRecord
  <2>3. TypeOK'
    <3>1. in' \in 0 .. PipeSize /\ out' \in 0 .. PipeSize
      BY <2>1, CgiAssumption DEF Inv, TypeOK
    <3>2. child.taken \in Nat /\ left + in + child.taken = call.body /\ got + out = child.given
      BY <1>0 DEF ChildRecord, Inv, TypeOK
    <3>3. left' + in' + child'.taken = call'.body /\ got' + out' = child'.given
      BY <1>0, <2>1, <2>2, <3>2
    <3>. QED  BY <1>0, <2>2, <3>1, <3>3, PrimedTypes
  <2>4. ServerPart' /\ NothingLeft' /\ WholeAnswer' /\ (GivenUp <=> GivenUp')
    BY <1>0, <2>2, ServerUnmoved
  <2>5. left + in = 0 => left' + in' = 0
    BY <1>0, <2>1
  <2>6. ChildPart'
    BY <1>0, <2>1, <2>2, <2>4, <2>5 DEF Inv, ChildPart
  <2>. QED  BY <2>3, <2>4, <2>6 DEF Inv
<1>4. CASE ScriptWrites
  <2>1. /\ child.at = "script" /\ in' = in /\ out < PipeSize /\ out' = out + 1
        /\ child.given < script.gives /\ child' = [child EXCEPT !.given = child.given + 1]
    BY <1>4 DEF ScriptWrites, Doing
  <2>2. /\ child' \in ChildRecord /\ child'.at = "script" /\ child'.next = child.next
        /\ child'.taken = child.taken /\ child'.given = child.given + 1
    BY <1>0, <2>1 DEF ChildRecord
  <2>3. TypeOK'
    <3>1. in' \in 0 .. PipeSize /\ out' \in 0 .. PipeSize /\ out \in Nat /\ got \in Nat
      BY <2>1, CgiAssumption DEF Inv, TypeOK
    <3>2. child.given \in Nat /\ left + in + child.taken = call.body /\ got + out = child.given
      BY <1>0 DEF ChildRecord, Inv, TypeOK
    <3>3. left' + in' + child'.taken = call'.body /\ got' + out' = child'.given
      BY <1>0, <2>1, <2>2, <3>1, <3>2
    <3>. QED  BY <1>0, <2>2, <3>1, <3>3, PrimedTypes
  <2>4. ServerPart' /\ NothingLeft' /\ WholeAnswer' /\ (GivenUp <=> GivenUp')
    BY <1>0, <2>2, ServerUnmoved
  <2>5. ChildPart'
    <3>1. child.given \in Nat /\ child.given + 1 <= script.gives
      BY <1>0, <2>1 DEF ChildRecord
    <3>2. \A k \in 1 .. Len(script.plan) : k < child.next => script.plan[k] # "write"
      BY <2>1, <3>1 DEF Inv, ChildPart
    <3>. QED  BY <1>0, <2>1, <2>2, <2>4, <3>1, <3>2 DEF Inv, ChildPart
  <2>. QED  BY <2>3, <2>4, <2>5 DEF Inv
<1>5. CASE ScriptReadsEnd \/ ScriptWritesEnd
  <2>1. /\ child.at = "script" /\ in' = in /\ out' = out
        /\ child.next <= Len(script.plan) /\ child.next \in Nat
        /\ child' = [child EXCEPT !.next = child.next + 1]
    BY <1>5, <1>0 DEF ScriptReadsEnd, ScriptWritesEnd, Doing, pipes, ChildRecord
  <2>2. /\ child' \in ChildRecord /\ child'.at = "script" /\ child'.next = child.next + 1
        /\ child'.taken = child.taken /\ child'.given = child.given
    BY <1>0, <2>1 DEF ChildRecord
  <2>3. TypeOK'
    <3>1. in' \in 0 .. PipeSize /\ out' \in 0 .. PipeSize
      BY <2>1 DEF Inv, TypeOK
    <3>2. left + in + child.taken = call.body /\ got + out = child.given
      BY DEF Inv, TypeOK
    <3>3. left' + in' + child'.taken = call'.body /\ got' + out' = child'.given
      BY <1>0, <2>1, <2>2, <3>2
    <3>. QED  BY <1>0, <2>2, <3>1, <3>3, PrimedTypes
  <2>4. ServerPart' /\ NothingLeft' /\ WholeAnswer' /\ (GivenUp <=> GivenUp')
    BY <1>0, <2>2, ServerUnmoved
  <2>5. /\ script.plan[child.next] = "write" => child.given = script.gives
        /\ script.plan[child.next] = "read" => left + in = 0 \/ GivenUp
    <3>1. CASE ScriptWritesEnd
      BY <3>1 DEF ScriptWritesEnd, Doing
    <3>2. CASE ScriptReadsEnd
      <4>1. script.plan[child.next] = "read" /\ in = 0 /\ "inW" \notin held
        BY <3>2 DEF ScriptReadsEnd, Doing, Shut
      <4>2. pc \in {"wait", "look", "reap", "done", "killed"}
        BY <2>1, <4>1 DEF Inv, TypeOK, ServerPart
      <4>3. left = 0 \/ GivenUp
        BY <4>2 DEF Inv, ServerPart, GivenUp
      <4>. QED  BY <4>1, <4>3
    <3>. QED  BY <1>5, <3>1, <3>2
  <2>6. ChildPart'
    <3>1. \A k \in 1 .. Len(script.plan) :
             k < child.next + 1 => k < child.next \/ k = child.next
      BY <2>1
    <3>. QED  BY <1>0, <2>1, <2>2, <2>4, <2>5, <3>1 DEF Inv, ChildPart
  <2>. QED  BY <2>3, <2>4, <2>6 DEF Inv
<1>. QED  BY <1>1, <1>2, <1>3, <1>4, <1>5 DEF Child

\* Every step of the server, of the child and of the clock keeps the invariant
\* (Cgi.cpp:122-253).
THEOREM NextInv == Inv /\ [Next]_vars => Inv'
<1>1. ASSUME Inv, Next  PROVE Inv'
  BY <1>1, ServerKeeps, ServerTouchesChild, ServerMovesBytes, ChildKeeps
     DEF Next, Server, Failure
<1>2. ASSUME Inv, UNCHANGED vars  PROVE Inv'
  BY <1>2 DEF vars, pipes, Inv, TypeOK, ServerPart, ChildPart, NothingLeft, WholeAnswer,
              GivenUp, script, Ends
<1>. QED  BY <1>1, <1>2

-------------------------------------------------------------------------------
(* What follows                                                                *)

\* Whatever the two processes do in between (Cgi.cpp:122-253).
THEOREM InvAlways == Spec => []Inv
  BY InitInv, NextInv, PTL DEF Spec

\* Types, and bytes neither lost nor sent twice between the two processes
\* (Cgi.cpp:356-402).
THEOREM BytesKept == Spec => []TypeOK
<1>1. Inv => TypeOK
  BY DEF Inv
<1>. QED  BY <1>1, InvAlways, PTL

\* Whatever script runs and whatever fails, the server comes back to its loop
\* without an open pipe and, when the body was written, without a child
\* (Cgi.cpp:11-253).
THEOREM NothingStays == Spec => []NothingLeft
<1>1. Inv => NothingLeft
  BY DEF Inv
<1>. QED  BY <1>1, InvAlways, PTL

\* An answer with success is the whole output of a script that exited with 0 and
\* read all that the client sent (Cgi.cpp:74-111, 206-243).
THEOREM AnswersWhole == Spec => []WholeAnswer
<1>1. Inv => WholeAnswer
  BY DEF Inv
<1>. QED  BY <1>1, InvAlways, PTL
=============================================================================
