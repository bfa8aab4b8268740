-------------------------------- MODULE CgiExec --------------------------------
(***************************************************************************)
(* A request that runs a script: cgi::ProcessGetRequestCgi() and           *)
(* cgi::ProcessPostRequestCgi() (src/src/Cgi.cpp), called from             *)
(* ProcessRequest() while the whole server waits.                          *)
(*                                                                         *)
(* Two processes and two pipes.  The server forks, writes the body to one  *)
(* pipe, waits for the child to exit, and only then reads the other.  The  *)
(* child becomes the script, which reads and writes by a plan of its own.  *)
(* Bytes are counted, in units of which a pipe holds PipeSize.             *)
(*                                                                         *)
(* "inR" and "inW" are the ends of cgi_input, "outR" and "outW" those of   *)
(* cgi_output.                                                             *)
(***************************************************************************)
EXTENDS Naturals, Sequences

CONSTANTS
    Calls,      \* [method, body, script] a request may lead to
    PipeSize,   \* what a pipe holds
    Timeout     \* CGI_TIMEOUT, in ticks of the clock

\* A script reads its input to the end, writes its output, or never ends.
Steps == {"read", "write", "loop"}

\* What it prints: header fields that are not there, empty or not.
Output == [type : {"none", "empty", "set"}, location : {"none", "empty", "set"},
           body : {"empty", "set"}]

\* `runs`: it can be executed; `gives`: how much it writes; `deaf`: to SIGTERM.
Script ==
    [runs : BOOLEAN, plan : Seq(Steps), gives : Nat, says : Output, code : Nat, deaf : BOOLEAN]

Does(s, step) == \E k \in DOMAIN s.plan : s.plan[k] = step

ASSUME CgiAssumption ==
    /\ PipeSize \in Nat \ {0} /\ Timeout \in Nat
    /\ Calls \subseteq [method : {"GET", "POST"}, body : Nat, script : Script]
    /\ \A c \in Calls : c.method = "GET" => c.body = 0
    /\ \A c \in Calls : ~Does(c.script, "write") => c.script.gives = 0

VARIABLES
    call,       \* the request and its script
    pc,         \* where the server is; "done": back in its loop; "killed"
    held,       \* the ends of pipes the server has open
    child,      \* the child process
    in, out,    \* what is in the pipes
    left,       \* bytes WriteAll() has still to write
    got,        \* bytes ReadAll() has read
    age,        \* time since `start`
    status      \* the answer, 0 if there is none yet

script == call.script
pipes  == <<in, out>>
vars   == <<call, pc, held, child, pipes, left, got, age, status>>

\* `next`: the step of its plan; `taken`, `given`: bytes read and written.
NoChild == [at |-> "none", next |-> 1, taken |-> 0, given |-> 0, ends |-> {}, code |-> 0]
Running == child.at \in {"forked", "script"}

Ends == IF call.method = "POST" THEN {"inR", "inW", "outR", "outW"} ELSE {"outR", "outW"}

Init ==
    /\ call \in Calls
    /\ pc = "pipes" /\ held = {} /\ child = NoChild
    /\ in = 0 /\ out = 0 /\ left = call.body /\ got = 0
    /\ age = 0 /\ status = 0

\* Nobody holds this end, so that the other one sees an end of file or SIGPIPE.
Shut(end) == end \notin held \cup child.ends

-------------------------------------------------------------------------------
(* The server                                                                  *)

\* A way out: these ends are closed, then GenerateErrorResponse() or
\* GenerateSuccessResponse().
Answer(s, ends) ==
    /\ pc' = "done" /\ status' = s /\ held' = held \ ends

\* The first half of SetPipes(): the pipe of the output, or no pipe at all.
OutputPipe ==
    /\ pc = "pipes"
    /\ \/ Answer(500, {})
       \/ /\ pc' = IF call.method = "POST" THEN "input" ELSE "fork"
          /\ held' = {"outR", "outW"}
          /\ UNCHANGED status
    /\ UNCHANGED <<call, child, pipes, left, got, age>>

\* The second half: the pipe of the input, or both ends of the first are closed.
InputPipe ==
    /\ pc = "input"
    /\ \/ Answer(500, {"outR", "outW"})
       \/ pc' = "fork" /\ held' = held \cup {"inR", "inW"} /\ UNCHANGED status
    /\ UNCHANGED <<call, child, pipes, left, got, age>>

ForkFails ==
    /\ pc = "fork"
    /\ Answer(500, Ends)
    /\ UNCHANGED <<call, child, pipes, left, got, age>>

\* The child has the same ends; the server then closes the one it has no use for,
\* and without a body starts to wait at once.
Fork ==
    /\ pc = "fork"
    /\ child' = [NoChild EXCEPT !.at = "forked", !.ends = held]
    /\ IF call.method = "POST" THEN pc' = "write" /\ held' = held \ {"inR"}
                               ELSE pc' = "wait" /\ held' = held \ {"outW"}
    /\ UNCHANGED <<call, pipes, left, got, age, status>>

\* Mutant of WriteSome: after a short write the rest is not moved on.
WriteAgain ==
    /\ pc = "write" /\ left > 0
    /\ ~Shut("inR") /\ in < PipeSize
    /\ in' = in + 1
    /\ \E n \in {0, 1} : left' = left - n
    /\ UNCHANGED <<call, pc, held, child, out, got, age, status>>

\* WriteAll(): write() blocks while the pipe is full.
WriteSome ==
    /\ pc = "write" /\ left > 0
    /\ ~Shut("inR") /\ in < PipeSize
    /\ in' = in + 1 /\ left' = left - 1
    /\ UNCHANGED <<call, pc, held, child, out, got, age, status>>

\* Nobody reads any more: SIGPIPE, for which there is no handler.
WriteKills ==
    /\ pc = "write" /\ left > 0
    /\ Shut("inR")
    /\ pc' = "killed" /\ held' = {}
    /\ UNCHANGED <<call, child, pipes, left, got, age, status>>

\* Mutant of WriteFails: the end the script would have written to stays open.
WriteFailsHolds ==
    /\ pc = "write" /\ left > 0
    /\ Answer(500, {"inW", "outR"})
    /\ UNCHANGED <<call, child, pipes, left, got, age>>

\* write() fails otherwise: nobody waits for the child.
WriteFails ==
    /\ pc = "write" /\ left > 0
    /\ Answer(500, {"inW", "outR", "outW"})
    /\ UNCHANGED <<call, child, pipes, left, got, age>>

\* Mutant of WriteEnd: the server keeps its end of the script's output.
WriteEndKeeps ==
    /\ pc = "write" /\ left = 0
    /\ pc' = "wait" /\ held' = held \ {"inW"}
    /\ UNCHANGED <<call, child, pipes, left, got, age, status>>

\* `start` is set when the body is written.
WriteEnd ==
    /\ pc = "write" /\ left = 0
    /\ pc' = "wait" /\ held' = held \ {"inW", "outW"}
    /\ UNCHANGED <<call, child, pipes, left, got, age, status>>

\* waitpid(WNOHANG) finds the child ended: only the exit status 0 will do.
Exited ==
    /\ pc = "wait" /\ child.at = "dead"
    /\ child' = [child EXCEPT !.at = "reaped"]
    /\ IF child.code = 0 THEN pc' = "read" /\ UNCHANGED <<held, status>> ELSE Answer(500, {"outR"})
    /\ UNCHANGED <<call, pipes, left, got, age>>

StillRuns ==
    /\ pc = "wait" /\ Running
    /\ pc' = "look"
    /\ UNCHANGED <<call, held, child, pipes, left, got, age, status>>

\* The clock is looked at after waitpid(): the child may have ended meanwhile.
NotYetLate ==
    /\ pc = "look" /\ age <= Timeout
    /\ pc' = "wait"
    /\ UNCHANGED <<call, held, child, pipes, left, got, age, status>>

Dead(code) == [child EXCEPT !.at = "dead", !.ends = {}, !.code = code]

\* SIGTERM, to which a script may be deaf.
TooLate ==
    /\ pc = "look" /\ age > Timeout
    /\ pc' = "reap" /\ held' = held \ {"outR"}
    /\ child' = IF child.at = "forked" \/ (child.at = "script" /\ ~script.deaf)
                THEN Dead(1) ELSE child
    /\ UNCHANGED <<call, pipes, left, got, age, status>>

\* Mutant of Reaped: nobody waits after SIGTERM.
ReapedNever ==
    /\ pc = "reap"
    /\ Answer(504, {})
    /\ UNCHANGED <<call, child, pipes, left, got, age>>

\* waitpid() without a limit.
Reaped ==
    /\ pc = "reap" /\ child.at = "dead"
    /\ child' = [child EXCEPT !.at = "reaped"]
    /\ Answer(504, {})
    /\ UNCHANGED <<call, pipes, left, got, age>>

\* ReadAll(), up to the end of file.
ReadSome ==
    /\ pc = "read" /\ out > 0
    /\ out' = out - 1 /\ got' = got + 1
    /\ UNCHANGED <<call, pc, held, child, in, left, age, status>>

ReadFails ==
    /\ pc = "read"
    /\ Answer(500, {"outR"})
    /\ UNCHANGED <<call, child, pipes, left, got, age>>

\* ParseCgiOutput() wants a Content-Type and a Location, and a body if and only if
\* the type is not empty; a location that is not empty makes a 201.
Outcome(o) ==
    CASE o.type = "none" \/ o.location = "none" -> 500
      [] o.type # "none" /\ o.location # "none" /\ (o.type = "empty") # (o.body = "empty") -> 500
      [] o.type = "empty" /\ o.location # "none" /\ o.body = "empty" -> 204
      [] o.type = "set" /\ o.location = "set" /\ o.body = "set"      -> 201
      [] o.type = "set" /\ o.location = "empty" /\ o.body = "set"    -> 200

\* Mutant of ReadEnd: one read() is enough.
ReadEndEarly ==
    /\ pc = "read" /\ got > 0
    /\ Answer(Outcome(script.says), {"outR"})
    /\ UNCHANGED <<call, child, pipes, left, got, age>>

ReadEnd ==
    /\ pc = "read" /\ out = 0 /\ Shut("outW")
    /\ Answer(Outcome(script.says), {"outR"})
    /\ UNCHANGED <<call, child, pipes, left, got, age>>

Server ==
    \/ OutputPipe \/ InputPipe \/ Fork
    \/ WriteSome \/ WriteKills \/ WriteEnd
    \/ Exited \/ StillRuns \/ NotYetLate \/ TooLate \/ Reaped
    \/ ReadSome \/ ReadEnd

Failure == ForkFails \/ WriteFails \/ ReadFails

-------------------------------------------------------------------------------
(* The child                                                                   *)

\* It closes the ends of the server and becomes the script, or exits when the
\* script cannot be run (the statuses 2, 3 and 4).
ChildStarts ==
    /\ child.at = "forked"
    /\ child' = IF script.runs
                THEN [child EXCEPT !.at = "script", !.ends = @ \ {"outR", "inW"}] ELSE Dead(1)
    /\ UNCHANGED <<call, pc, held, pipes, left, got, age, status>>

Doing(step) ==
    /\ child.at = "script" /\ child.next <= Len(script.plan)
    /\ script.plan[child.next] = step

ScriptReads ==
    /\ Doing("read")
    /\ in > 0
    /\ in' = 0 /\ child' = [child EXCEPT !.taken = @ + in]
    /\ UNCHANGED <<call, pc, held, out, left, got, age, status>>

ScriptReadsEnd ==
    /\ Doing("read")
    /\ in = 0 /\ Shut("inW")
    /\ child' = [child EXCEPT !.next = @ + 1]
    /\ UNCHANGED <<call, pc, held, pipes, left, got, age, status>>

ScriptWrites ==
    /\ Doing("write")
    /\ child.given < script.gives /\ out < PipeSize /\ ~Shut("outR")
    /\ out' = out + 1 /\ child' = [child EXCEPT !.given = @ + 1]
    /\ UNCHANGED <<call, pc, held, in, left, got, age, status>>

\* The server has closed its end: SIGPIPE.
ScriptBreaks ==
    /\ Doing("write")
    /\ child.given < script.gives /\ Shut("outR")
    /\ child' = Dead(1)
    /\ UNCHANGED <<call, pc, held, pipes, left, got, age, status>>

ScriptWritesEnd ==
    /\ Doing("write")
    /\ child.given = script.gives
    /\ child' = [child EXCEPT !.next = @ + 1]
    /\ UNCHANGED <<call, pc, held, pipes, left, got, age, status>>

ScriptExits ==
    /\ child.at = "script" /\ child.next > Len(script.plan)
    /\ child' = Dead(script.code)
    /\ UNCHANGED <<call, pc, held, pipes, left, got, age, status>>

Child ==
    \/ ChildStarts \/ ScriptReads \/ ScriptReadsEnd
    \/ ScriptWrites \/ ScriptBreaks \/ ScriptWritesEnd \/ ScriptExits

\* Bound: an age is only compared with Timeout.
Tick ==
    /\ pc \in {"wait", "look"} /\ age <= Timeout
    /\ age' = age + 1
    /\ UNCHANGED <<call, pc, held, child, pipes, left, got, status>>

Next == Server \/ Failure \/ Child \/ Tick

Spec == Init /\ [][Next]_vars

\* Both processes are scheduled and time passes; no call that waits is saved by
\* an error.
FairSpec == Spec /\ WF_vars(Server) /\ WF_vars(Child) /\ WF_vars(Tick)

-------------------------------------------------------------------------------
(* Properties                                                                  *)

\* Types, and no byte is lost on its way or sent twice (Cgi.cpp:356-402).
TypeOK ==
    /\ call \in Calls
    /\ pc \in {"pipes", "input", "fork", "write", "wait", "look", "reap", "read", "done", "killed"}
    /\ held \subseteq Ends
    /\ child \in [at : {"none", "forked", "script", "dead", "reaped"}, next : Nat \ {0},
                  taken : Nat, given : Nat, ends : SUBSET Ends, code : Nat]
    /\ in \in 0 .. PipeSize /\ out \in 0 .. PipeSize
    /\ left \in Nat /\ got \in Nat /\ age \in 0 .. (Timeout + 1)
    /\ status \in {0, 200, 201, 204, 500, 504}
    /\ left + in + child.taken = call.body
    /\ got + out = child.given

\* Back in its loop the server has closed every end it opened, whichever way out it
\* took (Cgi.cpp:13-26, 77-82, 115-118, 124-140, 180-187, 201-209, 248, 256-270), and
\* has no child, running or zombie, unless the body could not be written: then it
\* does not wait (Cgi.cpp:180-187), and the child it leaves is in the README.
NothingLeft ==
    pc = "done" => held = {} /\ (child.at \in {"none", "reaped"} \/ left > 0)

\* An answer that is no error is the whole output of a script that exited with 0
\* and, if it reads, had the whole body (Cgi.cpp:74-111, 206-243).
WholeAnswer ==
    status \in {200, 201, 204} =>
        /\ script.runs /\ script.code = 0 /\ got = script.gives
        /\ Does(script, "read") => child.taken = call.body

\* The server comes back from a script that is heard: one that reads a body before
\* it does anything else, and that ends by itself or on SIGTERM, however much it
\* writes and however late it is (Cgi.cpp:60-73, 179-205).
Heard  == call.body = 0 \/ (script.runs /\ script.plan # <<>> /\ script.plan[1] = "read")
Mortal == ~script.deaf \/ ~Does(script, "loop")
Returns == Heard /\ Mortal => <>(pc = "done")

\* "500 Internal Server Error : ... cgi failure" (docs/POST.md:92): a script that
\* fails is an answer, not the end of the server.
FailureAnswered == pc # "killed"
=============================================================================
