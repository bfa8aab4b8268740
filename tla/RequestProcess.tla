----------------------------- MODULE RequestProcess -----------------------------
(***************************************************************************)
(* What a request does: client_lifespan::CheckHeaderBeforeProcess(),       *)
(* process::ProcessRequest() (src/src/Process.cpp), the files it makes     *)
(* and removes (src/src/FileManipulation.cpp) and the answer               *)
(* (src/src/ResBuilder/).                                                  *)
(*                                                                         *)
(* The head of a request is judged when it is read, the request is carried *)
(* out when its body is complete; other requests come in between, and      *)
(* other programs may change a file between any two calls.                 *)
(*                                                                         *)
(* A path is a sequence of names below the root, which is also the path in *)
(* the request; the root is below the working directory ("./www").  A body *)
(* is a value; so the length of a body is the body.                        *)
(***************************************************************************)
EXTENDS Naturals, Sequences

CONSTANTS
    Clients,
    Wants,          \* what a client may ask: [method, path, slash, body, site, and if it
                    \* has a Content-Type, a supported type, a length or chunks]
    ReaderErrors,   \* what the reader may have refused it with
    Files,          \* the file system in the beginning
    Changes,        \* what other programs do: a path and what it is then
    Scripts,        \* names with the extension of a CGI
    Extended,       \* Extended[n]: the name n, which has no dot, with the extension of a type
    Stamps,         \* Stamps[t]: the name made of the time t
    StackLimit,     \* calls of GenerateErrorResponse() the stack has room for
    Nobody, Nothing

Methods == {"GET", "POST", "DELETE"}
Kinds   == {"none", "file", "dir", "other"}
Paths   == DOMAIN Files
Loose   == {x[1] : x \in Changes}
Requests == UNION {Wants[c] : c \in Clients}

\* Bodies of requests, of files, and those the server makes itself.
Made     == {"page", "listing", "moved", "output", "part"}
Contents == Made \cup {r.body : r \in Requests} \cup {f.body : f \in {Files[p] : p \in Paths}}
Nodes    == [kind : Kinds, body : Contents \cup {Nothing}, read : BOOLEAN, write : BOOLEAN]

\* The properties of a location (LocationQuery).
Sites == {r.site : r \in Requests}

Above(p)    == SubSeq(p, 1, Len(p) - 1)
AllAbove(p) == {SubSeq(p, 1, n) : n \in 0 .. (Len(p) - 1)}

\* GenerateFileExtension(): if there is no dot in a path behind the one of the root.
WithType(r, p) ==
    IF r.typed /\ \A i \in DOMAIN p : p[i] \in DOMAIN Extended
    THEN Append(Above(p), Extended[p[Len(p)]]) ELSE p

\* The paths the server may write to for a request: its own and a new one below it.
Targets(r) ==
    LET named == {r.path} \cup {Append(r.path, Stamps[t]) : t \in DOMAIN Stamps}
    IN  named \cup {WithType(r, p) : p \in named}

\* In a file system everything is below directories.
IsTree(tree) ==
    \A p \in Paths : tree[p].kind # "none" => \A d \in AllAbove(p) : tree[d].kind = "dir"

ASSUME RequestAssumption ==
    \A r \in Requests : r # Nothing /\ r.method \in Methods /\ r.path \in Paths

\* Paths has every path an upload may make, and what is above it.
Names == UNION {{p[i] : i \in DOMAIN p} : p \in Paths}
ASSUME PathsAssumption ==
    /\ \A p \in Paths : p \in Seq(Names) /\ AllAbove(p) \subseteq Paths
    /\ \A r \in Requests : r.method = "POST" => Targets(r) \subseteq Paths
    /\ Len(Stamps) \in Nat \ {0} /\ DOMAIN Stamps = 1 .. Len(Stamps)

\* The file system in the beginning is one, and other programs put nothing else there.
ASSUME FilesAssumption ==
    /\ Files \in [Paths -> Nodes] /\ IsTree(Files)
    /\ Changes \subseteq Paths \X Nodes

\* The reader refuses a request with 400, 408 or 413.  What GenerateRedirectResponse()
\* asserts of a `return`, in builds with assertions, is taken for granted.
ASSUME StatusAssumption ==
    /\ ReaderErrors \cap {0, 200, 201, 204} = {}
    /\ \A s \in Sites : s.redirect \in {0, 301, 307}

VARIABLES
    fs,         \* the file system
    now,        \* the clock, in seconds
    head,       \* per client: the request, if it has a location (config.query), and
                \* status_code and the kind in stat_buff
    pc,         \* where the server is; "loop": with no request; "sent"; "killed"
    who,        \* whose request it carries out
    path, status,
    hdr, body,  \* clt->res
    depth       \* calls of GenerateErrorResponse() through ServerError500()

work == <<pc, who, path, status, hdr, body, depth>>
vars == <<fs, now, head, work>>

NoRequest == [req |-> Nothing, status |-> 0, kind |-> "none"]
req  == head[who].req
site == req.site

Node(kind, b) == [kind |-> kind, body |-> b, read |-> TRUE, write |-> TRUE]
Absent == [kind |-> "none", body |-> Nothing, read |-> FALSE, write |-> FALSE]

Exists(p)   == p \in Paths /\ fs[p].kind # "none"
CanRead(p)  == Exists(p) /\ fs[p].read
CanWrite(p) == Exists(p) /\ fs[p].write
IsScript(p) == p # <<>> /\ p[Len(p)] \in Scripts
Stamp       == Stamps[now]

\* stat(): nothing is below a file, so a file with a slash behind it is not there.
KindOf(q) == IF q.slash /\ fs[q.path].kind # "dir" THEN "none" ELSE fs[q.path].kind

\* addNewPair(): a key that is there keeps its value.
Add(h, key, value) ==
    [k \in DOMAIN h \cup {key} |-> IF k \in DOMAIN h THEN h[k] ELSE value]
NoHeaders == [k \in {} |-> Nothing]

Init ==
    /\ fs = Files /\ now = 1
    /\ head = [c \in Clients |-> NoRequest]
    /\ pc = "loop" /\ who = Nobody /\ path = <<>> /\ status = 0
    /\ hdr = NoHeaders /\ body = Nothing /\ depth = 0

-------------------------------------------------------------------------------
(* Answers                                                                     *)

\* The answer is in res_buf.
Reply(s, h, b) ==
    /\ pc' = "sent" /\ status' = s /\ hdr' = h /\ body' = b
    /\ UNCHANGED <<who, path, depth, head>>

\* When it is sent ResetClient() forgets the request.
ResetClient ==
    /\ pc = "sent"
    /\ head' = [head EXCEPT ![who] = NoRequest]
    /\ pc' = "loop" /\ who' = Nobody /\ path' = <<>> /\ status' = 0
    /\ hdr' = NoHeaders /\ body' = Nothing /\ depth' = 0
    /\ UNCHANGED <<fs, now>>

\* GenerateErrorResponse() is called with this status.
Error(s) ==
    /\ status' = s /\ pc' = "error"
    /\ UNCHANGED <<who, path, hdr, body, depth, head>>

\* The request goes on with another call.
Goto(label, p, s) ==
    /\ pc' = label /\ path' = p /\ status' = s
    /\ UNCHANGED <<who, hdr, body, depth, head>>

\* BuildContentHeaders().
Content(h, b) == Add(h, "Content-Length", b)

ErrorHeaders ==
    CASE status = 405          -> Add(hdr, "Allow", site.methods)
      [] status \in {408, 413} -> Add(hdr, "Connection", "close")
      [] status = 415          -> Add(hdr, "Accept", "types")
      [] OTHER                 -> hdr

\* The assignment `clt->res = Response()` empties the body and no header.
ServerError500(h) ==
    /\ status' = 500 /\ depth' = depth + 1 /\ pc' = "error"
    /\ body' = Nothing /\ hdr' = h
    /\ UNCHANGED <<who, path, head>>

\* The pages of the location; a request that was refused before has none.
Pages == IF req # Nothing THEN site.pages ELSE [s \in {} |-> <<>>]

\* GenerateErrorResponse().
ErrorPage ==
    /\ pc = "error" /\ depth < StackLimit
    /\ IF status \notin DOMAIN Pages
       THEN Reply(status, Content(ErrorHeaders, "page"), "page")
       ELSE LET page == Pages[status] IN
            IF CanRead(page)
            THEN Reply(status, Content(ErrorHeaders, fs[page].body), fs[page].body)
            ELSE ServerError500(ErrorHeaders)
    /\ UNCHANGED <<fs, now>>

StackOverflow ==
    /\ pc = "error" /\ depth = StackLimit
    /\ pc' = "killed"
    /\ UNCHANGED <<fs, now, head, who, path, status, hdr, body, depth>>

-------------------------------------------------------------------------------
(* The head, and the beginning of ProcessRequest()                             *)

Read(c, q, s, kind) ==
    /\ pc = "loop" /\ head[c] = NoRequest
    /\ head' = [head EXCEPT ![c] = [req |-> q, status |-> s, kind |-> kind]]
    /\ UNCHANGED <<fs, now, work>>

\* Not understood, late, or without a Host: there is no location.
HeadRefused(c) == \E s \in ReaderErrors : Read(c, Nothing, s, "none")

\* CheckHeaderBeforeProcess().  A POST does not look at the path; between access() and
\* stat() a file may go.
HeadRead(c) ==
    \E q \in Wants[c] :
        IF q.method \notin q.site.methods THEN Read(c, q, 405, "none")
        ELSE IF q.method = "POST" THEN Read(c, q, IF q.sized THEN 0 ELSE 411, "none")
        ELSE IF KindOf(q) = "none" THEN Read(c, q, 404, "none")
        ELSE \/ Read(c, q, 0, KindOf(q))
             \/ <<q.path, Absent>> \in Changes /\ Read(c, q, 500, "none")

\* ProcessRequest(): the reader may have found an error or a timeout of its own.
ProcessRequest(c) ==
    /\ pc = "loop" /\ head[c] # NoRequest
    /\ who' = c /\ path' = IF head[c].req = Nothing THEN <<>> ELSE head[c].req.path
    /\ \E s \in {head[c].status} \cup IF head[c].status = 0 THEN ReaderErrors ELSE {} :
          IF s # 0 THEN pc' = "error" /\ status' = s
          ELSE IF head[c].req.site.redirect # 0 THEN pc' = "redirect" /\ status' = 0
          ELSE pc' = head[c].req.method /\ status' = 0
    /\ UNCHANGED <<fs, now, head, hdr, body, depth>>

Redirect ==
    /\ pc = "redirect"
    /\ Reply(site.redirect, Content(Add(hdr, "Location", site.target), "moved"), "moved")
    /\ UNCHANGED <<fs, now>>

-------------------------------------------------------------------------------
(* GET                                                                         *)

Kind == head[who].kind

\* What stat() said when the head was read decides, access() is asked now.
GetFile ==
    /\ pc = "GET" /\ Kind = "file"
    /\ IF IsScript(path) THEN Goto("script", path, 0)
       ELSE IF CanRead(path) THEN Goto("file", path, 200) ELSE Error(403)
    /\ UNCHANGED <<fs, now>>

GetListing ==
    /\ pc = "GET" /\ Kind = "dir" /\ site.autoindex
    /\ IF CanRead(path) THEN Goto("listing", path, 200) ELSE Error(403)
    /\ UNCHANGED <<fs, now>>

\* GetIndexPath(): the first of the index files that is there.
GetIndex ==
    /\ pc = "GET" /\ Kind = "dir" /\ ~site.autoindex
    /\ LET there == SelectSeq(site.indexes, LAMBDA name : Exists(Append(path, name)))
       IN  IF there = <<>> THEN Error(403) ELSE Goto("index", Append(path, there[1]), 0)
    /\ UNCHANGED <<fs, now>>

Index ==
    /\ pc = "index"
    /\ IF IsScript(path) THEN Goto("script", path, 0)
       ELSE IF ~Exists(path) THEN Error(404)
       ELSE IF CanRead(path) THEN Goto("file", path, 200) ELSE Error(403)
    /\ UNCHANGED <<fs, now>>

\* Mutant of Refuse: no answer to the DELETE of a directory.
RefuseGet ==
    /\ pc = "GET" /\ Kind \notin {"file", "dir"}
    /\ Error(403)
    /\ UNCHANGED <<fs, now>>

\* What is neither a file nor, for GET, a directory.
Refuse ==
    /\ \/ pc = "GET" /\ Kind \notin {"file", "dir"}
       \/ pc = "DELETE" /\ Kind # "file" /\ ~IsScript(path)
    /\ Error(403)
    /\ UNCHANGED <<fs, now>>

\* GenerateSuccessResponse(): ReadFileToBody().
SendFile ==
    /\ pc = "file"
    /\ IF CanRead(path) THEN Reply(200, Content(hdr, fs[path].body), fs[path].body)
                        ELSE ServerError500(hdr)
    /\ UNCHANGED <<fs, now>>

\* GenerateAutoindexResponse(): opendir().
SendListing ==
    /\ pc = "listing"
    /\ IF CanRead(path) THEN Reply(200, Content(hdr, "listing"), "listing")
                        ELSE ServerError500(hdr)
    /\ UNCHANGED <<fs, now>>

-------------------------------------------------------------------------------
(* POST                                                                        *)

\* ProcessPostRequest(): the type, then stat().
Post ==
    /\ pc = "POST"
    /\ LET kind == KindOf(req) IN
       IF ~req.supported THEN Error(415)
       ELSE CASE kind = "dir"   -> Goto("uploadInto", path, 0)
              [] kind = "file"  -> IF IsScript(path) THEN Goto("script", path, 0)
                                   ELSE IF CanWrite(path) THEN Goto("modify", path, 0)
                                   ELSE Error(403)
              [] kind = "other" -> Error(403)
              [] kind = "none"  -> IF IsScript(path) THEN Error(403)
                                   ELSE Goto("upload", path, 0)
    /\ UNCHANGED <<fs, now>>

\* A path that ends in a slash, or is a directory, gets a file with a new name.
NewName == pc = "uploadInto" \/ req.slash

Target == WithType(req, IF NewName THEN Append(path, Stamp) ELSE path)

\* CreateDirRecurs(): mkdir() of what is missing above a file, if nothing is in the
\* way and the directory it is missing in can be written.
Missing(p)   == {d \in AllAbove(p) : fs[d].kind # "dir"}
CanMake(p)   == \A d \in Missing(p) : ~Exists(d) /\ (Above(d) \in Missing(p) \/ CanWrite(Above(d)))
WithDirs(p)  == [q \in Paths |-> IF q \in Missing(p) THEN Node("dir", Nothing) ELSE fs[q]]

\* std::ofstream can open it.
CanOpen(tree, p) ==
    IF tree[p].kind = "none" THEN tree[Above(p)].kind = "dir" /\ tree[Above(p)].write
                             ELSE tree[p].kind = "file" /\ tree[p].write

Written(tree, p, b) ==
    [tree EXCEPT ![p] = IF @.kind = "none" THEN Node("file", b) ELSE [@ EXCEPT !.body = b]]

\* Mutant of PostHeaders: the path asked for, not the file made.
PostHeadersAsked(p) == Content(Add(Add(hdr, "Allow", site.methods), "Location", path), "page")

\* AddAllowHeader(), AddLocationHeader(), BuildContentHeaders().
PostHeaders(p) == Content(Add(Add(hdr, "Allow", site.methods), "Location", p), "page")

Upload ==
    /\ pc \in {"upload", "uploadInto"}
    /\ CanMake(Target) /\ CanOpen(WithDirs(Target), Target)
    /\ fs' = Written(WithDirs(Target), Target, req.body)
    /\ Reply(201, PostHeaders(Target), "page")
    /\ UNCHANGED now

\* A directory or the file cannot be made, or the disk is full.
UploadFails ==
    /\ pc \in {"upload", "uploadInto"}
    /\ fs' = IF ~CanMake(Target) THEN fs
             ELSE IF ~CanOpen(WithDirs(Target), Target) THEN WithDirs(Target)
             ELSE Written(WithDirs(Target), Target, "part")
    /\ Error(500)
    /\ UNCHANGED now

\* std::ofstream makes a file that is gone meanwhile.
Modify ==
    /\ pc = "modify"
    /\ CanOpen(fs, path)
    /\ fs' = Written(fs, path, req.body)
    /\ Reply(200, PostHeaders(path), "page")
    /\ UNCHANGED now

\* Opening the file empties it.
ModifyFails ==
    /\ pc = "modify"
    /\ fs' = IF CanOpen(fs, path) THEN Written(fs, path, "part") ELSE fs
    /\ Error(500)
    /\ UNCHANGED now

-------------------------------------------------------------------------------
(* DELETE, scripts                                                             *)

\* ProcessDeleteRequest(): a script first, whatever it is.
Delete ==
    /\ pc = "DELETE" /\ (Kind = "file" \/ IsScript(path))
    /\ IF IsScript(path) THEN Error(405)
       ELSE IF CanWrite(path) /\ CanWrite(Above(path)) THEN Goto("remove", path, 0)
       ELSE Error(403)
    /\ UNCHANGED <<fs, now>>

\* Mutant of Remove: the result of remove() is not looked at.
RemoveUnseen ==
    /\ pc = "remove"
    /\ fs' = [fs EXCEPT ![path] = Absent]
    /\ Reply(204, hdr, Nothing)
    /\ UNCHANGED now

\* remove() takes a file, and a directory with nothing in it.
Empty(p)     == \A q \in Paths : Exists(q) => p \notin AllAbove(q)
Removable(p) == Exists(p) /\ Empty(p) /\ CanWrite(Above(p))

Remove ==
    /\ pc = "remove"
    /\ IF Removable(path) THEN fs' = [fs EXCEPT ![path] = Absent] /\ Reply(204, hdr, Nothing)
                          ELSE fs' = fs /\ Error(500)
    /\ UNCHANGED now

\* Mutant of ScriptHeaders: the length is that of an earlier output.
ScriptHeadersOld(s, where) ==
    Add(IF s = 201 THEN Add(hdr, "Location", where) ELSE hdr, "Content-Length", Nothing)

\* BuildContentHeadersCGI(): without output the length is what cgi_content_length has
\* been, at first uninitialised.
ScriptHeaders(s, where) ==
    Add(IF s = 201 THEN Add(hdr, "Location", where) ELSE hdr, "Content-Length",
        IF s = 204 THEN Nothing ELSE "output")

\* ProcessGetRequestCgi(), ProcessPostRequestCgi(): an answer of the script or an error
\* (CgiExec).  A location is cut at the root.
Script ==
    /\ pc = "script"
    /\ \/ \E s \in {200, 201} : Reply(s, ScriptHeaders(s, path), "output")
       \/ Reply(204, ScriptHeaders(204, path), Nothing)
       \/ \E s \in {500, 504} : Error(s)
    /\ UNCHANGED <<fs, now>>

\* A location without the root in it: find() is npos, and substr() of a short one throws
\* what nobody catches.
LocationThrows ==
    /\ pc = "script"
    /\ pc' = "killed"
    /\ UNCHANGED <<fs, now, head, who, path, status, hdr, body, depth>>

Server ==
    \/ \E c \in Clients : ProcessRequest(c)
    \/ ResetClient \/ ErrorPage \/ StackOverflow \/ Redirect
    \/ GetFile \/ GetListing \/ GetIndex \/ Index \/ Refuse \/ SendFile \/ SendListing
    \/ Post \/ Upload \/ UploadFails \/ Modify \/ ModifyFails
    \/ Delete \/ Remove \/ Script \/ LocationThrows

-------------------------------------------------------------------------------
(* Everybody else                                                              *)

\* Another program makes, changes, hides or removes a file, in a directory that is there.
Outside ==
    /\ \E x \in Changes :
          /\ x[2].kind # "none" => \A d \in AllAbove(x[1]) : fs[d].kind = "dir"
          /\ x[2].kind # "dir" => Empty(x[1])
          /\ fs' = [fs EXCEPT ![x[1]] = x[2]]
    /\ UNCHANGED <<now, head, work>>

\* Bound: the times there are names for.
Tick ==
    /\ now < Len(Stamps)
    /\ now' = now + 1
    /\ UNCHANGED <<fs, head, work>>

Next == Server \/ (\E c \in Clients : HeadRead(c) \/ HeadRefused(c)) \/ Outside \/ Tick

Spec == Init /\ [][Next]_vars

\* The server goes on with a request, and its loop comes to every client.
FairSpec ==
    /\ Spec
    /\ WF_vars(Server)
    /\ \A c \in Clients : SF_vars(ProcessRequest(c))

-------------------------------------------------------------------------------
(* Properties                                                                  *)

\* Every answer is framed by the length of the very body it has, also when a page for
\* an error could not be read and another answer was begun in its place.  Only an
\* unreadable page for 500 makes GenerateErrorResponse() call itself without end
\* (ResBuilderError.cpp:72-99, ResBuilderUtils.cpp:61-84).
Framed ==
    /\ pc = "sent" /\ status # 204 =>
          "Content-Length" \in DOMAIN hdr /\ hdr["Content-Length"] = body
    /\ depth > 1 => 500 \in DOMAIN site.pages

Replied(s) == pc # "sent" /\ pc' = "sent" /\ status' \in s

\* A file stays as it is under the requests that do not name it, with or without its
\* extension, except under uploads to its directory in the very second it has its name
\* from.  Where a 201 says it has put a body, and where a 200 says it has changed a
\* file, the body is, below directories that exist (FileManipulation.cpp:23-84,
\* ResBuilderUtils.cpp:5-11).
StoredWhereSaid ==
    [][/\ \A p \in Paths \ Loose :
             fs[p].kind = "file" /\ fs'[p] # fs[p] =>
                 \E q \in {req.path, Append(req.path, Stamp)} : p \in {q, WithType(req, q)}
       /\ Replied({200, 201}) /\ req.method = "POST" /\ pc # "script" =>
             LET p == hdr'["Location"] IN
                 /\ fs'[p].kind = "file" /\ fs'[p].body = req.body
                 /\ \A d \in AllAbove(p) : fs'[d].kind = "dir"]_vars

\* Two clients may ask for the same file to be removed: a 204 goes to the one whose
\* request removed it (Process.cpp:197-231).
DeletedOnce ==
    [][Replied({204}) /\ req.method = "DELETE" => Exists(path) /\ fs'[path].kind = "none"]_vars

\* Every request is answered if the page for 500 can always be read, and no script ends
\* the server (Process.cpp:8-231, ResBuilderError.cpp:45-100).
PagesHold == \A s \in Sites : 500 \in DOMAIN s.pages => CanRead(s.pages[500])
Answered ==
    [](PagesHold /\ (pc = "killed" => depth > 0)) =>
        \A c \in Clients : head[c] # NoRequest ~> head[c] = NoRequest
=============================================================================
