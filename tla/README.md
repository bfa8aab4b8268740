# A verification of webserv

webserv is a single-threaded HTTP/1.1 server in C++98: one `poll()` loop, a vector of clients, a
hand-written parser, a configuration file in the manner of nginx, CGI scripts. This directory holds
TLA+ models of it, the TLC runs that check them on small instances, and theorems that TLAPS checks
for every value of the constants. `src/` in paths below is the root of the repository.

    tlc -workers 2 -config loop_safety.cfg MCEventLoop
    tlc -workers 2 -config reader.cfg MCRequestReader
    tlc -workers 2 -config process.cfg MCRequestProcess
    tlc -workers 2 -config slots.cfg MCClientSlots
    tlc -workers 2 -config cgi.cfg MCCgiExec
    tlc -workers 2 -config config_text.cfg MCConfigText
    tlc -workers 2 -config config_grammar.cfg MCConfigGrammar
    tlc -workers 2 -config location_cache.cfg MCLocationCache
    tlc -workers 2 -config http_head.cfg MCHttpHead
    tlapm EventLoopProofs.tla      (and the seven other modules named ...Proofs)

## 1. Inventory

| Component | State | Operations | Hard behaviour | What makes it correct |
| --- | --- | --- | --- | --- |
| **event loop** (`main.cpp`) | `pfds`, `clients`, `client_count`, `server_running` | accept, serve (`POLLIN`, `POLLOUT`, errors), `DeleteClient`, cleanup, SIGINT | three parallel vectors that every removal shifts, raw pointers between two of them, descriptors whose numbers come back, revents of a client accepted in the same iteration | vectors in step, no bytes of one peer in another's answer, whole responses, nobody stays for ever |
| **socket manager** (`socket_manager/`) | `clients_` with `req_buf`, `res_buf`, `first_recv_time`, `last_active`; `servers_` | `set_servers`, `accept_client`, `recv_append`, `send_to_client`, `delete_client_socket`, `is_timeout` | `accept`, `recv`, `send`, `fcntl` may each fail; six ways out of `set_servers()`; units of the clock | nothing lost at a failure, every address served, capacity never outgrown, timeouts neither missed nor restarted |
| **client lifespan** (`ClientLifespan.cpp`, `Client.hpp`) | the fields of `struct Client` | `InitClient`, `ResetClient`, `CheckHeaderBeforeProcess`, `GetClientByFd` | fields that survive from one call of the loop to the next, and must not survive a request | a new request starts from a fresh client |
| **request reader** (`main.cpp:257-521`) | `req_buf` and 10 fields of `Client` | head, chunked body, trailer, body of known length, refusal | bytes in any pieces; errors that must still take a body off the buffer; limits over several chunks | one answer per request, in order; bodies as sent; the buffer begins at the next request |
| **HTTP parser** (`Http/Parser.cpp`) | arena of parse nodes | grammar of RFC 9110-9112, `ParseChunkSizeLine`, `AnalysisRequestHeaders` | widths of integers, early ends of loops | what a head means is what is carried out; a body is framed as its fields say; no length wraps past the limit; it ends |
| **messages** (`Request`, `Response`, `HeaderValue/`) | `headers_`, target, method | set, get, copy, assign | `operator=` that leaves a member out, used by `vector::erase` | a client keeps its own headers |
| **request processing** (`Process.cpp`) | file system | `ProcessGetRequest`, `ProcessPostRequest`, `ProcessDeleteRequest` | the file changes between test and use; Accept and types | status and effect agree |
| **response builder** (`ResBuilder/`) | `res`, `res_buf` | pages for success, errors, redirects, listings | an error page that fails itself | ends, with one response |
| **CGI** (`Cgi.cpp`) | two pipes, a child | `ProcessGetRequestCgi`, `ProcessPostRequestCgi`, `ReadAll`, `WriteAll` | both processes blocked on full pipes, SIGTERM ignored, zombies | the server gets back to its loop, given scripts that can be stopped and that read |
| **file manipulation** (`FileManipulation.cpp`) | upload directory | `UploadFile`, `ModifyFile`, `DeleteFile` | names made of a time | an upload never overwrites another |
| **configuration query** (`Configuration.cpp`, `Configuration/Cache/`) | `server_cache_`, `location_cache_`, `location_insertion_index_` | `query`, `construct`, `closest_directive`, `collect_directives` | pointers into a cache whose elements are constructed again in place | a client sees the properties of its own location for the whole of its request |
| **directives** (`Configuration/Directive*`) | tree of blocks, each a multimap of directives with indexes | `add_directive`, `query_directive`, `best_match` | order across types, inheritance, recursion | a directive holds from its place on; longest match |
| **configuration parser** (`Configuration/Parser.cpp`, `Config2.cpp`) | the tree under construction | one function per block and directive | words that end at a blank or a semicolon, lists that go on behind a blank; a loop that does not end on an unknown directive | the tree is the file |
| **arenas** (`Arena/`, `Arenas.cpp`) | buffer, consumed | allocate, snapshot, rollback, clear | exhaustion, which only an assertion looks for | the nodes of a head stay inside the buffer |
| **URI authority** (`Uri/`) | host, port | comparison, printing | a comparison of members nobody has set | every address leads to its server blocks |
| **constants, Maybe** | - | - | - | - |
| **tests, snippets, site** | - | - | - | - |

How they meet. `main()` polls; for a client with input it calls `recv_append`, the parser on
`req_buf`, `AnalysisRequestHeaders`, then `CheckHeaderBeforeProcess`, which asks the configuration
for the client's location and keeps the pointer it gets. When the body is complete `ProcessRequest`
fills `res_buf` - running a CGI script to its end if there is one, the whole server waiting - and
the loop sends it in pieces; then `ResetClient` or `DeleteClient`. Nothing runs concurrently in the
process: interleavings are those of connections, of the handlers of one connection with the bytes
still to come, of the clock, of SIGINT, and of CGI children. The hazards this exposes the code to
are listed in `PROJECT.json` at the lines where they bite.

## 2. Plan

Done so far, in this order:

1. `EventLoop`, with its proofs in `EventLoopProofs` - everything else happens in it.
2. `HttpRequests`, `HttpExchange` (abstract), `RequestReader` (implements it, with its proofs in
   `RequestReaderProofs`).
3. `Directives` (operators, with lemmas in `DirectivesProofs`), `ConfigText` (files as the parser
   builds them), `ConfigQuery` (abstract), `LocationCache` (implements it); proofs in
   `ConfigurationProofs`.
4. `CgiExec`, with its proofs in `CgiProofs` - while a script runs the whole server waits.
5. `RequestProcess`, with its proofs in `RequestProcessProofs`: GET, POST and DELETE against a file
   system that others change, error pages and the recursion through `ServerError500`, names of
   uploads. A request that leads to a script goes on in `CgiExec`.
6. `ClientSlots`, with its proofs in `ClientSlotsProofs`: assignment of `Client`, `Request` and
   `Response` when an element of the vector is erased, and whose headers a client has after it.
7. `ConfigGrammar`: the parser of the configuration file, function by function.
8. `HttpHead`: the parser of a head and the analysis of its fields, function by function, with
   `HeadArena` (the arena of its parse nodes) and `BodyLimit` (the sizes of bodies in an `int`
   against the limit), whose actions are part of its steps; the proofs about the three are in
   `HttpHeadProofs`.
9. `ServerSockets`: the cache of server blocks and the sockets of the startup, in front of
   `LocationCache`, which finds server blocks by descriptor as the code does. The proofs about both
   are in `ConfigurationProofs`.
10. Theorems: every safety property of the loop and of request processing; that the sockets and the
    caches implement `ConfigQuery`; that what the queries of directives find is what the file puts
    in force, and that of locations a path gets the longest match; that the parser of heads keeps its
    nodes in the arena and a body within the limit, and takes heads of any number of fields for
    what they mean; that the reader stays in step with the stream and implements `HttpExchange`.

Next:

11. A composition of `EventLoop` with the abstract exchange of each connection, in which what one
    request does to the process (SIGPIPE, an exception) is seen by the others.

## 3. Modules

| Module | Models | Role |
| --- | --- | --- |
| `EventLoop` | `main.cpp:142-575`, `SocketManager.cpp`, the pointers of `Client` | state machine |
| `EventLoopProofs` | - | theorems about `EventLoop` |
| `HttpRequests` | what peers write, and which answers are acceptable | shared vocabulary |
| `HttpExchange` | what a connection promises | abstract specification |
| `RequestReader` | `main.cpp:257-566`, the head's analysis, `ClientLifespan.cpp` | state machine, refines `HttpExchange` |
| `RequestReaderProofs` | - | theorems about `RequestReader` |
| `Directives` | `LocationQuery.cpp:164-232`, `Location.cpp`, `Configuration.cpp:158-289`, `Configuration/Parser.cpp:811-849` | pure operators |
| `DirectivesProofs` | - | lemmas about `Directives`, and about sequences, folds and recursive functions |
| `ConfigText` | `Block.cpp:114-123` under `Parser.cpp:286-475` | state machine that builds every small file |
| `ConfigQuery` | what `query()` promises | abstract specification |
| `LocationCache` | `Configuration.cpp:125-156`, `LocationQuery.cpp:25-121` | state machine, refines `ConfigQuery` |
| `CgiExec` | `Cgi.cpp:11-271`, `Cgi.cpp:356-437` | state machine: server, child, two pipes |
| `CgiProofs` | - | theorems about `CgiExec` |
| `RequestProcess` | `Process.cpp`, `FileManipulation.cpp`, `ResBuilder/`, `ClientLifespan.cpp:69-150` | state machine: the server, other programs, the clock |
| `RequestProcessProofs` | - | theorems about `RequestProcess` |
| `ClientSlots` | `ClientLifespan.cpp:11-67`, `Request.cpp`, `Response.cpp`, `HTTPMessage.cpp`, the head's headers | state machine: the vector of clients |
| `ClientSlotsProofs` | - | theorems about `ClientSlots` |
| `ConfigGrammar` | `Configuration/Parser.cpp`, `main.cpp:102-140` | the parser as operators, in a state machine that writes files |
| `HttpHead` | `Http/Parser.cpp:7-2489`, `main.cpp:291-363`, `ClientLifespan.cpp:81-103` | the parser as operators, in a state machine that writes heads and reads them |
| `HeadArena` | `Arena/`, and what of a head is in it | state machine, part of `HttpHead` |
| `BodyLimit` | `main.cpp:366-519`, `Http/Parser.cpp:2281-2302` and `2491-2559`, `ClientLifespan.cpp:113` | state machine, part of `HttpHead` |
| `HttpHeadProofs` | - | theorems about `HeadArena`, `BodyLimit` and `HttpHead` |
| `ServerSockets` | `SocketManager.cpp:16-171`, `Configuration.cpp:67-119` and `218-289`, `Uri/Authority.cpp` | state machine, part of `LocationCache` |
| `ConfigurationProofs` | - | theorems about `ConfigText`, `ServerSockets` and `LocationCache` |
| `MC...` | small instances | for TLC |

### EventLoop

One action is one call of `poll()`, one listener of the accept loop, or one client the serve loop
visits, with every call made for it: `Delete` is `DeleteClient()` with `delete_client_socket()`,
`DeleteClientFd` and the decrements. `pfds`, `clients` and `sockets` are the three vectors;
`clients[k].sock` is the raw pointer to an element of `sockets`, as an index; `SlotOf` and
`ClientOf` are the two searches. Of a buffer the model keeps whose bytes it holds (`req`, `resOf`)
and how many `send()` calls are left (`res`). The kernel chooses: `poll()` may report an error,
nothing, or what was asked; `accept`, `fcntl`, `recv` and `send` may fail; a closed descriptor may
be the next one accepted; `send()` to a closed peer may raise SIGPIPE, which ends the process
(`SendKills`). `AddClientFd()` leaves the `revents` of the new entry uninitialised, so the model
gives it any value. The clock is an age per client, counted to one more than the limit it is
compared with.

### RequestReader

One connection. A byte is a token (`HttpRequests`): CR, LF, digits and body bytes are separate
because the code counts and cuts them; a request line and a field line are one token each. `Recv`
takes any prefix of the wire. The code between two calls of `poll()` runs in the steps head, chunks,
trailer and length, with nothing in between. `clt` keeps the code's names. `answers` records each
call of `ProcessRequest()` as the status and the body it was given. The grammar behind the tokens,
and the pages of answers, are not part of it.

### Directives, ConfigText

A configuration is a sequence of blocks, each with its directives in the order of the file: the
multimap of the code together with `index()`. `ConfigText` reads a file from top to bottom and adds
a block to its parent at its closing brace, as the parser does; a ghost variable notes what is in
force where a block opens. `Closest`, `Collected`, `BestMatch` and `LocationBlock` are compared, on
every file of the bound, with that simple reading. Paths are sequences, so that one being the
beginning of another is what `find(match) == 0` says.

### LocationCache

`cache` and `insertion` are the members of `Configuration`; a client holds the position of an
element from the head of its request to `ResetClient()`. `root` stands for the properties that are
assigned, `index` for the lists that `construct()` appends to. The refinement mapping replaces the
abstract `answer` of a client by what it reads through its pointer at that moment, so an element
constructed again under a client shows as a change of its answer. A request comes in by a socket
that listens: the abstract side knows its address, the detailed one only the descriptor, from which
`ServerAt` finds the server blocks as `query_server_blocks()` does.

### ServerSockets

The startup. `ServerCache` is `generate_server_cache()`: the addresses of the file, each with its
server blocks. `Equal` is `operator==` of `Authority`, which compares the type, the port and
`serialized`; `AnalysisUriAuthority()` and the default constructor leave that at zero, so it says
nothing. Then one action per call of `set_servers()` that can end differently, and one per way it
goes: `getaddrinfo()` gives one address or more, or fails; `socket()` and `bind()` go on to the next
address; anything else gives up. `Bound` is what is bound for an address: three ways of writing it
are every interface. `open` and `infos` count what the system has handed out and not got back;
`Destroy` is the destructor, at an error or at the end of `main()`.

### CgiExec

One request that runs a script. The two functions of `Cgi.cpp` differ in the body: GET has only the
output pipe and begins to wait as soon as it has forked. `pc` is the call the server is in, `held`
the ends of pipes it has open, `child.ends` those of the child; an end of file, or SIGPIPE, comes
when nobody holds the other end (`Shut`). Each way out closes the ends the code closes there:
`Answer` is given them, so an end that is forgotten stays in `held`, and the two calls of `pipe()`
are two steps (`OutputPipe`, `InputPipe`), as the first pipe has to be closed if the second cannot
be made. The child is `forked` until it becomes the script, then it
follows `script.plan`: read to the end of file, write `gives` units, or run for ever; `dead` until
it is waited for. `StillRuns` is a `waitpid()` that returned 0, and `NotYetLate` or `TooLate` the
look at the clock after it, so the child may end in between. Bytes are counted in units of which a
pipe holds `PipeSize`; what the output says is the three things `ParseCgiOutput()` tells apart.
`pipe`, `fork`, `write` and `read` may fail. The time a script takes is whatever lies between two
steps of the child.

### RequestProcess

Two moments make a request: `HeadRead(c)` is `CheckHeaderBeforeProcess()`, which judges the head and
keeps the status and the kind `stat()` found; `ProcessRequest(c)` begins to carry the request out
later, when its body is complete, and `pc` then goes through the calls of `Process.cpp`. Between any
two of them `Outside` may change a file, and before `ProcessRequest` other requests may. A path is a
sequence of names below the root, a node of the file system has a kind, a body and the two rights
that `access()` asks for. What exists is a tree: other programs make things only in directories that
are there, `mkdir()` makes what is missing above a file from the top, and `remove()` fails on a
directory that is not empty (`Removable`); `std::ofstream` opens what `CanOpen` says. A body is a
value, so that the length of a body is the body and `Framed` can compare the two. `Extended` and
`Stamps` are the names that `FileManipulation.cpp` makes: one with the extension of a type, and one
of the time. `depth` counts the calls of `GenerateErrorResponse()` that are not finished; the stack
has room for `StackLimit` of them and one more ends the process (`StackOverflow`). A script is one
step here: `Script` with whatever the script says, or `LocationThrows`, an exception that nobody
catches.

### ClientSlots

`clients` is the vector, with the two maps of headers of each client. `Erase(k)` is
`vector::erase()`: it assigns every later client to the place in front, and since `operator=` of
`Request` and `Response` leaves `headers_` out, the maps stay in their places. Each value in a map
is kept together with the peer it was made for, so that a header of somebody else can be told.
`moved` is a ghost: the peers that slid since their maps were last empty. Which headers a request
has decides what the code does with it: a second Host is 400, a length says what is read as the
body, a type decides between 200 and 415, `Connection: close` whether the client is kept. Bodies are
counted; chunked bodies and refusals that do not depend on headers are left out.

### HttpHead, HeadArena, BodyLimit

A head is a sequence of lexemes; a word, a number and a character are one lexeme each, and those
that stand side by side are one token, as in the text. The operators named after functions of
`Http/Parser.cpp` give the number of lexemes taken, or `Refused`. A client chooses a request line
and fields, each with what it means by the grammar (`docs/HTTP.abnf`), and may slip once: a
character too many, or a piece too few. Then main()'s steps: the request line, `ParseFields()` line
by line, `AnalysisRequestHeaders()` field by field, `CheckHeaderBeforeProcess()` as far as the host,
and the sizes of the body. `KeepLine`, `BeginField` and the other actions of `HeadArena` are
conjuncts of those steps and keep the fill of the arena in bytes of the 64-bit build; `ReadDigit`,
`TakeChunk` and the others of `BodyLimit` keep every number twice, in an `int` and as it is written.
An `int` that overflows wraps, which is what the compiler makes of it here. `Loop` is a call that
does not return. `EraseLineEnd` takes two characters off whatever is left, as `erase()` does; of a
longer lexeme the remainder is that lexeme again, as only that it is there matters. What it means to
read one field or one request line as it was meant is said of these alone (`FieldsAssumption`,
`LinesAssumption`), apart from the state machine; the properties are about what becomes of them
together. The outcome was compared once with that of the compiled `ParseRequestLine()`,
`ParseFields()` and `AnalysisRequestHeaders()` on 57,207 heads, those of the run and others with a
slip: they agree.

### ConfigGrammar

A file is a sequence of lexemes, and lexemes that stand side by side are one word, as the characters
of the file are. Every parse function is an operator from a position to the position behind what it
took and what it built; `Refused` is an output that is not valid, `Loops` a call that does not
return. The state machine is an administrator who writes a file by `docs/config.abnf`, choosing
blanks, semicolons and line ends (`Layouts`), may leave it unfinished or slip once (a lexeme left
out, put in, or mistaken), and then the program reads it. The outcome (`Outcome`) was compared once
with that of the compiled `ParseMainBlock()` for the 267,180 files that the run has with
`MaxWritten` 5, each with three spellings of its words and blanks: they agree. That was before a
carriage return was among the lexemes and an end could be empty.

## 4. Runs

| Run | Bounds | Shows |
| --- | --- | --- |
| `loop_safety` | 3 descriptors, 2 listeners, 2 clients, 2 sends | `VectorsAligned`, `CapacityKept`, `PolledAreOpen`, `OwnBytes`, `InputOnlyWhenIdle`, `ResponsesWhole`, `TimeoutsEarned` |
| `loop_liveness` | 2 descriptors, 1 listener, 1 send, a timeout of 1 tick | `SlowRequestEnds` (a trickle of bytes is timed out), `AnswerEnds`, `QuietRemoved`, `InterruptStops` |
| `reader` | pairs out of 16 requests, cut in every way | `InSync`, `ImplementsExchange`, `AllAnswered` |
| `reader_trailer_doc` | one request | finding 1 |
| `config_text` | 7 directives and blocks, 5 deep | `DirectivesInForce`, `ShallowLongestMatch` |
| `location_cache` | 4 sockets, 5 descriptors, 2 addresses of a name; 3 clients, 4 locations, 4 elements | `NothingLost`, `ListensForAll`, `ImplementsQuery`; no location twice in the cache (`TypeOK`) |
| `cgi` | pipes of 2, bodies up to 3, output up to 3, a limit of 1 tick | `NothingLeft`, `WholeAnswer`, `Returns` |
| `cgi_failure_doc` | the same | finding 2 |
| `process` | 2 clients, 23 requests, 2 seconds, `StackLimit` 3 | `Framed`, `StoredWhereSaid`, `DeletedOnce`, `Answered` |
| `slots` | 3 peers, 2 places, 7 heads | `OwnUnlessMoved`, `AnsweredAsAlone` |
| `config_grammar` | 6 braces and directives, at most 2 of them simple, 9 layouts (one with CRLF, one with nothing behind a directive), one slip out of 11 lexemes | `ReadAsWritten`, `NothingSkipped` |
| `http_head` | 12 targets with 3 methods and versions, 18 fields, 2 in a head, 1 if there is a slip; an arena of 600; an `int` up to 31, limits 9, 17 and 40, sizes up to 52 | `ReadAsWritten`, `FramedAsWritten`, `TakenOff`, `ArenaSuffices`, `LimitKept` |

Why the bounds are enough. The loop needs two clients for one to be removed in front of the other, a
third descriptor so that a number is free while another is used again, two listeners for two accepts
in one iteration, two sends so that a response can be in part sent. The unit of time does not matter
to it, so timeouts of 0 or 1 tick show what 75 would; `Scale` is 1.
The age of a connection is counted in the unit of the comparison, so the model says what happens
before and after a limit and not how long the limit is; that the code's is 1000 times the one its
comment names (section 6) no run shows. Two requests in a row show what the first
leaves to the second, and the 16 have each kind of head, body, trailer and error; with `MaxRecv` 6 a
`recv()` may hold part of a line end, a chunk and what follows, or the end of one request and the
beginning of the next. Seven items suffice for a server, a location in it and a directive of each
type in front of it, behind it and in it. Four locations under two servers have the same paths, so
that neither path nor server alone tells them apart, and three clients let two hold pointers while a
third inserts. Descriptors and directive values are symmetric where the cfg says so. The liveness
properties of the loop speak of the descriptors in `Watched`; one is enough, because no action tells
two descriptors apart. A body and an output of 3 are longer than a pipe of 2 holds, which is when a
process blocks; scripts read first, write first or never read. In `process` one client asks for
anything and the other for what changes files, which is what it takes for one to find what the other
did; two seconds let two uploads have the same time or different ones, and a page for 500 that
cannot be read needs no more than a stack of three to be told from one that fails once. Other
programs change the file that both clients name and an error page. In `slots` two places and three
peers are enough for one to be removed in front of another and for a third to come into the place
left; the theorems are for every number. In `config_grammar` a statement of each kind, behind or in
front of a second one, in each block that may hold it: the parser knows nothing of what is further
away, except the next semicolon of the file, which a second statement has. In `http_head` two fields
are what it takes for one to be lost behind another or to be the second of its name; every other
effect of a field is its own. An arena of 600 holds two field lines with what their values may take
but not the nodes of the request line as well, and an `int` of six bits wraps within three
hexadecimal digits; the limits lie below, within and above it. For other sizes there are the
theorems. In `location_cache` the four sockets are one of each type and one more port, shared by two
servers; the second address of a name is reached when the first cannot be bound.

Fairness. `FairSpec` of the loop assumes `WF(Server)`: `poll()` returns after `POLL_TIMEOUT` at the
latest and every socket is non-blocking, so the loop does not rest (while a script runs it does:
`CgiExec` says when it comes back); and `WF(Tick)`: time passes. Nothing is assumed of peers, nor of
which way a system call ends. `FairSpec` of the reader assumes that the peer goes on sending what it
means to send, that the loop visits the connection, and that a handler runs to its end;
`AllAnswered` is about peers that wait for an answer before the next request. A peer that does not
may wait for ever: nothing looks at `req_buf` after a reset until more bytes come.

`FairSpec` of `CgiExec` assumes that the kernel runs both processes (`WF(Server)`, `WF(Child)`) and
that time passes. Failing calls are possible but never forced: a server that is blocked in `write()`
is not saved by an error. `Returns` therefore needs its two conditions, and TLC finds the server
blocked without either: a script that answers more than a pipe holds before it reads a body that is
longer than a pipe holds blocks both (`Heard`), and one that neither ends nor listens to SIGTERM
keeps the server in the last `waitpid()` (`Mortal`).

`FairSpec` of `RequestProcess` assumes that the server goes on with a request it has begun
(`WF(Server)`) and that its loop comes to every client (`SF(ProcessRequest(c))`: the serve loop
visits the clients one after the other, so none is passed over for ever). Nothing is assumed of
other programs. `Answered` has two conditions, both of which TLC needs: that the page for 500 can be
read, and that no script ends the server.

Deadlock checking is off where the system stops by itself (SIGINT, a finished stream, a file at its
bound or read, a script or a server that is done or killed, a startup that failed, a head that is
read or refused) and on for `ClientSlots`.

## 5. Proofs

Every safety property of the runs is a theorem but those named at the end of this section. None of
the theorems has a bound; what they assume of constants is named, and TLC evaluates it in a run.

### The loop

`EventLoopProofs` proves, for every set of descriptors and any number of listeners, clients and
sends, from `SizeAssumption` only (the sizes are natural numbers, at least one listener, client and
send), that `Spec` implies `[]TypeOK`, `[]VectorsAligned`, `[]CapacityKept`, `[]PolledAreOpen`,
`[]OwnBytes`, `[]InputOnlyWhenIdle`, `ResponsesWhole` and `[]TimeoutsEarned`.

None of the first four is inductive alone. The code finds an element by its descriptor and then
erases by position in one vector and by search in another, so that one step keeps the vectors in
step (`VectorsAligned`) only if the descriptors are distinct; a new descriptor is distinct from
those in the vectors only if what is polled is open (`PolledAreOpen`), because `accept()` returns
one that is not; `client_count` bounds the vectors only if it counts them (`CapacityKept`); and all
of them need the types. Their conjunction `Aligned` is inductive:

- `EraseFacts`, `PointerBack`, `EraseClientFacts`: what an erase does, and that moving every later
  pointer back by one is what makes it harmless;
- `SearchFindsPosition`: under `VectorsAligned` the searches by descriptor return the position the
  loop is at;
- `DeleteKeeps`: a removal keeps `Aligned`; `SlotsKeep`, `InPlaceKeeps`: so does whatever changes
  elements in place; `AcceptKeeps`, `PollKeeps`, `StopKeeps`, `ClockAndSignalKeep`, `RespondKeeps`:
  the other steps;
- `ServeKeeps` and `NextAligned` put them together by the disjuncts of `Next`.

For the other four, `StepShape` says what a step under `Aligned` can be, whichever action it is: the
vectors stay and one client has its `Turn` (it is answered, its bytes move, or it is reset), a new
client `Joins` at the end with a descriptor that was not open, one `Departs` with its descriptor and
those behind it move up, or nothing of this changes. `OwnBytes` and `InputOnlyWhenIdle` then need
one more thing, `Fresh`: while the serve loop runs, input that `poll()` is said to have reported was
asked for, also of an entry whose `revents` are garbage, which `accept` asks for input. `Buffered`
is all four together, and inductive (`NextBuffered`). `ResponsesWhole` follows the response of a
descriptor over a step in which its position may change (`SlotCameFrom`, `OneSlotPerFd`).
`TimeoutsEarned`, that the mark of lateness does not outlive the lateness, is inductive under
`Aligned` (`NextEarned`): every visit writes the mark, also one of a client whose answer is being
sent, and `ResetAnswered` is the one step that sets the age back while the mark may be there.

### The reader

`RequestReaderProofs` proves, for streams of any number of requests of any length, limits and sizes
of `recv()` of any size, pipelined or not, that `Spec` of `RequestReader` implies `[]InSync`
(`KeepsInSync`) and `ImplementsExchange` (`Exchanges`). It assumes `ReaderAssumption` (limits are
numbers, a `recv()` takes at least one byte) and, as a hypothesis of the theorems, `WellFormed`:
what the requests are like that a peer sends. It has three parts.

- `Lined`: the lines of a head are those the parser takes or refuses, in any order and number, and
  at most one of them is a Host. At a second one the analysis of the fields stops and the connection
  is kept: a length behind it is not seen, and the body is read as the next request.
- `Sized`: a body is as long as its Content-Length says, and each chunk as long as its size says; or
  the request is broken in a way that shows, by a chunk that is longer than its size and does not go
  on with a CR where it should end. Of a body that is shorter than it is said to be nobody can tell
  where it ends: its bytes and those of the next request are one text, and no reader would be in
  step. Sizes are at most 3 because the tokens of `HttpRequests` have four digits.
- `Bounded`: a request without a Host, which has no location, keeps the default limit. Above it the
  code says 413 in place of the 400 that is due.

`MCRequestReader` evaluates `WellFormed` for the streams of the run, broken requests among them.

`InSync` speaks only of a connection whose answer is being sent. The invariant that carries it says
what the bytes in the buffer and on the wire (`Rest`) are at every step. `Idle`: between requests
the client is as fresh as `InitClient()` leaves it and `Rest` is empty lines, then the requests that
were sent and not answered (`Pending`); `Kept`: so it is when an answer was given and the connection
is kept. `Busy`: while a request is read, `BusyOf` says what is left of it in front of the next one
- a body of known length, chunks, or a trailer -, what the client knows (`JudgedOf`: the status, the
limit, `Connection`, the framing are those of this request) and what it has (`TakenOf`: after `i`
chunks the body is the first `i` of them, within the limit, unless `exceed` is set for a reason).
`Inv` is the conjunction with the types, and inductive (`Starting`, `OnNext`, one lemma for each
step of the handler); TLC was asked first, on the run's streams.

What makes it hard is that the code looks for ends in a buffer that holds any part of the text:
`HeadFound`, `HeadTaken` show that the lines found in a buffer that holds the whole head are those
the peer wrote, whatever follows, and that the empty line is not found before it has come; the
lemmas on `Chunks` and `Sizes` that the size line, the data and the line end of a chunk are told
apart although the data may hold CR, LF and digits; `StripsTo` that empty lines in front of a
request are taken and nothing else is. Erasing then leaves exactly the next request, and every
answer is compared with `Acceptable` and `MayKeep` of the request that is read (`Well`), which makes
each step one of `HttpExchange` or a stutter.

### Scripts, clients

`CgiProofs` proves, for pipes of any size, any limit, and any set of bodies and scripts with plans
of any length, that `Spec` of `CgiExec` implies `[]TypeOK` (which says that bytes are neither lost
nor doubled between the two processes), `[]NothingLeft` and `[]WholeAnswer`. It assumes
`CgiAssumption`: a pipe holds at least one unit, a GET has no body, and a script that never writes
gives nothing. `WholeAnswer` speaks of an answer, but what makes it true happened before: the script
did not exit with 0 before the end of its plan, and it did not get past a step before it had written
all, or read up to an end of file; and an end of file means the whole body only because the server
closes its end after the last byte, or has given up and will answer 500. `ChildPart` says this of
the child, `ServerPart` which ends the server holds at each `pc`, exactly, and how far the child is;
the first is what makes the closes of every way out leave nothing. Their
conjunction with the three properties, `Inv`, is inductive (`NextInv`): `ServerKeeps`,
`ServerTouchesChild`, `ServerMovesBytes` and `ChildKeeps` are its cases, and `ServerUnmoved` says
why a living child cannot disturb an answer: none with success is given before the child is dead.

`ClientSlotsProofs` proves, for any number of places and any sets of peers, heads and types, that
`Spec` of `ClientSlots` implies `[]TypeOK`, `[]OwnUnlessMoved` and `[]AnsweredAsAlone`. It assumes
`SlotAssumption`: there is at least one place, and a head is a sequence of fields. `OwnUnlessMoved`
is not inductive: that the header of an answer is the client's own says nothing of the request
before it. `Plain(c)` says where a client is in its request and what it has then: empty maps before
the head; after it, what a fresh client has after the same head (`Headed(Fresh(p))`); with the
answer, what a client alone would have (`Alone`). `Inv` is `Typed` and that every client outside
`moved` is `Plain`. Erasing is the only step that disturbs a client other than the one the loop is
at, and it disturbs only those behind the place, all of which it puts into `moved` (`EraseKeeps`);
every other step changes one client in its place (`InPlaceKeeps`) from `Plain` to `Plain`
(`HeadedPlain`, `RefusedPlain`, `CompletedFacts`, `FreshFacts`). That the first of several equal
fields exists (`FirstThere`) is the one fact that needs a well-founded order.

### Request processing

`RequestProcessProofs` proves, for any file system, requests, pages, times and number of clients,
that `Spec` implies `[]Framed`, `StoredWhereSaid` and `DeletedOnce`, while other programs change
files between any two steps. It assumes `RequestAssumption` and `PathsAssumption` (requests and the
paths an upload can make are in `Paths`, and so is what is above a path), `FilesAssumption` (the
first file system is a tree) and `StatusAssumption` (the reader refuses with an error, a redirect is
a 301 or 307). `Inv` adds to the types that the file system is a tree, that a head without an error
is that of a request (`HeadsRead`), that `pc` and `path` are what the request asks for (`AsAsked`),
and that an answer has no length before it is sent (`Unsent`): `BuildContentHeaders()` uses
`insert()`, so that of two lengths the first would stay, and `Framed` depends on there being none
when an error page replaces an answer that failed. That the file system stays a tree is what makes
the file an upload writes one that exists afterwards (`DirsMade`, `FileWritten`). `FileSteps` and
`SuccessSteps` say which steps change a file or give an answer with success; the two action
properties are read off them.

### The configuration

`DirectivesProofs` has the lemmas about the operators. Those are folds and recursive functions; an
operator cannot be handed to a theorem here, so induction is stated for a set of numbers (`Least`,
`Inductive`) and recursion for a step that is a function (`Recursive`), and each operator gets a
lemma that says what its values are step by step: `OfTypeSteps`, `ChainStep` with `ChainIsAround`,
`FlattenSteps`, `OnceSteps`, `MaxOfNumbers`. `CollectedSeq` puts them together: in a tree of any
depth `Collected` is a sequence of values of the file.

`ConfigurationProofs` proves `SpecText => []DirectivesInForce` for files of any length and depth;
no assumption is used. The queries look outward, from a block to those around it; the text puts
things in force inward. `LevelsOut`, `InnerOut` and `AllOut` say that the levels a query sees from a
place in a block are the directives of the block in front of it and then the levels from where the
block stands; `OnceOfParts`, that what is there twice may be taken out of a list in parts, so that
the outer levels can be done first; `FoundOut` and `FoundIsForced` then have that what is found is
what was forced, from one block to the next inner one. The text is not finished while it is read:
the blocks that are open are not in their parents yet. `TextInv` says that they are one in the
other, in the order of their opening (`OpenedInv`), that a closed block has a parent in front of it,
an index there, and noted at its opening what the text had in force (`ClosedInv`), and that the note
of an open block is what is in force where its parent is now (`KnownInv`), which is where it will
stand (`CloseInv`). A directive changes what is in force at its place and behind it, and at no place
that has been noted (`ForceKept`).

`SpecText => []ShallowLongestMatch` is proved for files of any length, of which `MatchAssumption`
says that the paths of locations are sequences. `TreeInv` is the shape of the file while it is read:
which kind of block is in which (`KindsFit`), that the locations among the directives of a block are
those whose parent it is, in the order of their opening (`ChildrenFit`), and that what was opened
behind a block and before its end is inside it (`NestedFit`), which `CloseTree` needs for the order:
a block is put into its parent when it ends, not when it begins. In a whole file (`IsWholeTree`) all
that can be reached in a location is therefore in front of the next one (`UnderBefore`).
`BestInSteps` and `LocationBlockSteps` take the two searches apart, `BestExists` has that the
recursion of `best_match()` is one, from the inner locations outward, and `Leads` is what each step
keeps: the longest so far, and the first of those (`LeadsBoth`, `BestLeads`, `LocationLeads`). That
nothing is nested in a nested location is needed where `best_match()` returns that location and not
what is in it (`LeafBest`, `ShallowTree`).

Of the startup and the queries together it proves:

- `SpecSockets => []NothingLost`, for any file, descriptors and number of addresses of a name:
  `OpenInv` says of every stage of `set_servers()` what is open and allocated beyond what listens,
  which is at most the one socket and the one list it is at, and that the open socket is not one
  that listens, because `socket()` gives a number that is not open.
- `ServerCacheOfFile`: what `generate_server_cache()` returns has one element for every address that
  is different, and the servers of each in the order of the file (`Caches`, along the fold).
- `SpecSockets => []ListensForAll`: `ServesInv` has that the sockets so far are those of the first
  elements of the cache.
- `NamedBlockOf`, `ServerAtOf`: from a descriptor the search gets to the first server of the file
  that has the address and the name, or else the first that has the address.
- `Located => (Spec => []TypeOK)`, with `TypeInv`: no location is in the cache twice.
- `RoomForAll /\ PortsOnce => (Spec => ImplementsQuery)`, the refinement of `ConfigQuery`. Every
  element of the cache is constructed once, from the properties of a location that a request leads
  to (`Holds`); as long as there are no more locations than elements one more can be appended, by
  the pigeonhole principle (`RoomLeft`), so no element is ever constructed again under a client.

`ConfigAssumption` says what the parser makes of a file (the servers are blocks and have addresses;
`Parsed` is the same for lists), `SystemAssumption` and `CapacityAssumption` that numbers are
numbers, `RequestsAssumption` that no request comes from nowhere. The three hypotheses are about the
file: every request finds a location (`Located`), there is an element for each and the locations of
a server differ in what they match (`RoomForAll`), hosts of one type with one port are bound to the
same (`PortsOnce`). Without the last two the code does not keep its promise (section 6);
`MCLocationCache` evaluates them for its file.

### Heads

`HttpHeadProofs` proves that `SpecArena` implies `[]ArenaSuffices` (`ArenaHolds`): the parse nodes
of a head with `n` field lines and `m` options stay inside the arena as long as `224 * n + 64 * m +
72` is less than its size, from `ArenaAssumption` only (the nodes of a request line fit, and those
of a value take at most 112 bytes). What makes it true is the cost of a vector that grows in an
arena: of capacity `c` it has taken less than two pointers for each of `c`, and `c` is less than
twice what is in it (`PushBack`, `VectorBound`). `ArenaInv` has the exact fill while lines are read,
and a bound on it while values are. It proves that `SpecSize` implies `[]LimitKept` (`SizesHold`),
for an `int`, a `size_t` and limits of any size, from `SizeAssumption` (a limit and an `int`
together do not overflow a `size_t`): `SizesInv` adds that a number in range is the number in the
message and that a body that is still taken is all there was so far; `InRange`, `IntBound` and
`SumInRange` are the arithmetic. Both are theorems of `Spec` of `HttpHead`, as `[]ArenaSuffices` and
`[]LimitKept` about the parser: the lemma `FollowsLimits` has that a step of it is a step of the
arena and one of the sizes or leaves them alone, for which `FramingInv` says that before the body is
read nothing is known of how it is framed.

Of what is read it proves that `Spec` implies `[]ReadAsWritten` and `[]FramedAsWritten`, for heads
of any number of fields in any order, each there any number of times. What it is told is about one
field or one request line alone. `FieldsAssumption`: a value neither begins nor ends with white
space and is `bad` or `endless` exactly if the parser of its field refuses it or does not return; if
it is `plain`, what that parser takes of it is what it means - of a Content-Length the number its
digits write (`Numbers`), of a Connection whether an option that is read is "close" (`Options`).
`LinesAssumption`: a request line is refused or taken as a whole, and a `plain` one has an error it
gives reason for, or is read as it is meant. That this is so of what `docs/HTTP.abnf` allows outside
the shapes of section 6 is not proved: TLC evaluates both for the fields and lines of the run, which
have every kind of value and target. The theorems add what putting them together can do: to lose a
line or a field, to take a field for another, to let a later one count or an earlier one be
forgotten, to answer for the wrong error.

`HeadInv` speaks of heads without a slip. While the client writes (`Writing`, `Sending`) the text is
the request line and what `IsTails` says: `tail[i]` is the line of field `i` and then `tail[i + 1]`,
which `TailsLonger` and `TailsOfOneMore` keep while it grows at its end. While lines are read
(`ReadingLines`) the buffer is one of these tails and the fields found are the first that were
written (`Matched`). For that the first line end of a tail must be the one behind its first line
(`BreakAt`, `FirstLine`), the name must end at the colon and the value where it was put in, although
blanks are read past on both sides of it (`LineFacts`, `LineTaken`), and the last tail, which is the
empty line, must be no field line (`NoField`). So `DropField` never happens. While fields are
analysed (`ReadingFields`) the request is what the first `analysed` of them mean: `Finished` (none
of them is bad, endless or a second Host; what is found, the Host, the type and the coding),
`CloseIs` and `LengthIs`. The digits of a length and the options of a list are read one by one, so
in the middle of a field `Current` says which part of its value is left and what the part in front
of it has made of the number or of `close` (`ReadingDigits`, `ReadingOptions`): a number that is not
finished when the fields are given up would be a length that nobody wrote. `FieldRead` gets from one
field to the next, with a lemma for each action. At the end `Ends(m)` has that the fields in front
of the first bad one were read, and no others; `GiveUpAnswers` and `EndAnswers` read the two
properties off it, with the error of the request line (`LineRead`), which goes before that of the
fields. `HeadInv` and the properties together are inductive (`NextHead`). TLC was asked first: a
transcription of `HeadInv` held in all states of the run.

### What is only model-checked

- `ReadAsWritten` and `NothingSkipped` of `ConfigGrammar`: blocks are in blocks
  to any depth and so its operators are RECURSIVE, which the prover does not take.
- `TakenOff` of the parser of heads. It is about heads with a slip anywhere, and says of any text
  what is a field line; the theorems about heads rest on where the client put its line ends.
- That single values and request lines of `FieldLines` and `RequestLines` are read as they are meant
  (`FieldsAssumption`, `LinesAssumption`): TLC evaluates it for the words of the run.
- All liveness: fairness and ENABLED are out of the prover's reach.

## 6. Where the code and its words disagree

1. `main.cpp:464`: the test that should tell an error in a trailer from one that is not complete yet
   is inverted; a valid chunked request is answered 400 if its trailer comes in pieces
   (`main_logic.md:23-24`).
2. `Cgi.cpp:386`: `write()` to a script that has ended raises SIGPIPE, and there is no handler: the
   server ends, where `Cgi.cpp:180` means to answer 500 (`docs/POST.md:92`). A script that exits
   with an error before it reads its input is enough.

Disagreements seen while modelling, without a run of their own:

- `Request.cpp:24`: assignment leaves the headers out, so a client that slides into the place of one
  that was removed has the headers of that one, and its next request is refused as one with two
  Hosts (`docs/GET.md:38` has the reasons for a 400). `OwnUnlessMoved` has it as its condition.
- `SocketManager.cpp:349` compares seconds with `TIMEOUT * 1000`: a request may take 75000 s, the
  comment at `:345` says TIMEOUT.
- `Cgi.cpp:180-187`: the way out after a failed `write()` does not wait for the child, which stays a
  zombie when it ends (`NothingLeft` leaves this child out); the others do, and `docs/logic.md:226`
  has a `waitpid()`.
- `Http/Parser.cpp:240`: where the analysis of the fields stops at a second Host or a bad value, a
  Content-Length or Transfer-Encoding behind it is not seen and the connection is kept, so that the
  body is read as the next request. `FramedAsWritten` states what is done and does not forbid it.
- `Http/Parser.cpp:2531`: the size of a chunk is an `int` that nothing keeps from overflowing, so a
  long one becomes another number, perhaps a negative one. `LimitKept` is about numbers that did
  not (`sound`).
- `main.cpp:329`: `ParseFields()` never fails, so "Request fields syntax error" is never said; a
  request with a line that is no field line is answered from the lines before it and the rest stays
  in the buffer (`TakenOff` says exactly when). So a blank in front of the colon of a field is not
  answered 400 either, as `docs/HTTP.abnf:181` has it.
- `Http/Parser.cpp:2468`: the loop over the transfer codings never moves on from the second one, and
  pushes it into a vector in the arena: a debug build ends at the assertion in `Arena::allocate()`,
  one with NDEBUG (`Makefile:20`) writes past the arena. `Http/Parser.cpp:622`:
  `ParseQuotedString()` does not get past the quote that ends a string, which is reached when a
  string stands behind the token of a parameter. `HttpHead` has both (`Loop`), without a property:
  that no other call loops is so in the model by its shape.
- `Arena.hpp:46`: the assertion is the only test for room, and it is not in that build; 45 field
  lines fit (`ArenaSuffices`), a longer head may not.
- `docs/HTTP.abnf` and the parser differ on heads without a slip in these ways; `ReadAsWritten` and
  `FramedAsWritten` leave them out (`plain`): the path of `http:/x` is lost; `name:80` is read as an
  absolute target with the scheme `name`; a path that begins with two slashes is refused; `https`
  and what else begins with `http` is taken for it, as are a method or a field name that begin with
  a known one (`GETX`, `Hostx`); a scheme may hold `=` and not `-`, nor userinfo `:`; the error of a
  method is lost when the target has a host, so that `PUT http://h/x` is carried out as a GET
  (`Parser.cpp:120`); of several connection options only the first counts, unless the value begins
  with a comma; a Host that begins with an IPv4 address keeps only that; the octets of such an
  address may be empty; six groups with an IPv4 address are never taken for IPv6, nor lower-case
  hexadecimal groups; what follows a transfer coding that is not known is not looked at; a
  Content-Length of `5x` is 5; digits and letters from a to f in a chunk extension are counted into
  the size; a quoted value ends the parameters of a type; a tab inside a value ends the fields.
- `main.cpp:494`: with a limit from 2^31 to 2^32 - 1 every Content-Length is refused with 413;
  `README.md:108` speaks of the limit as a size.
- `README.md:55` and `:93` say `listen 8080;` is a port. The parser takes `8080` for a host name,
  with port 80; and an address without a port has that of the one in front of it in the same
  directive (`Configuration/Parser.cpp:816`), as `authority` is not set back.
- `Authority.cpp:31`: hosts of a type are equal, because nothing sets `serialized`. Of several
  addresses with the same type and port only the first is bound, and all of their servers are
  reached by it (`ListensForAll`). `docs/planning.md:40` has `*:80 *:8000` as the default; it is
  port 80.
- `Location.cpp:87`: with locations three deep `best_match()` returns the one in the middle; the
  test `best_match_use_longest_match` looks at two levels.
- `LocationQuery.cpp:108`: an element of the cache that is used again keeps its former index files,
  scripts and error pages, also under a client that still holds it (`docs/planning.md:72`). It takes
  more than 16 locations (`Configuration.cpp:37`). An element is found by its
  server and by what its location matches, so two locations of a server with the same match (a
  `location /` in a `location /`) share one (`RoomForAll` leaves both out).
- `docs/POST_logic.md:16` and `FileManipulation.cpp:34-44`: the extension of the type is added to a
  name without a dot after the file was looked for without it, so a POST of `/f` may overwrite
  `f.txt` and say 201. Two uploads to a directory within a second have the same name
  (`FileManipulation.cpp:23-33`), and the later one replaces the earlier.
- `ResBuilderError.cpp:75-79`: a page for 500 that cannot be read makes `GenerateErrorResponse()`
  call itself without end.
- `Parser.cpp:811` (configuration): the host of `listen localhost;` is `localhost;`, because only
  `ParseServerName` and `ParseReturn` look for the semicolon first; and a blank before the semicolon
  adds a host, or an empty server name. A brace right behind a path (`root /a}`) is part of the path
  (`OpenEnded`). `docs/config.abnf` lets all of these be written (`OWS [";"]`).
- `docs/config.abnf:49` has a carriage return among the blanks (OB); `ScanOptionalBlank()`
  (`Parser.cpp:59-72`, configuration) takes a space, a tab and a line feed. So a file with CRLF is
  refused where the next directive is expected, a carriage return behind a path is part of the
  path, and one in an events block keeps the parser in its loop. `ReadAsWritten` leaves such
  layouts out, and `NothingSkipped` holds of them.
- `Parser.cpp:139` (configuration): anything else than `worker_connection` in an events block, so
  also the `worker_connections` of `docs/planning.md:54`, keeps the parser in its loop.
- `docs/planning.md:36` calls a second `http` block an error; the parser takes it, and the last one
  counts.
- `docs/logic.md:17-20` passes the value of `Host` to `query()`, the code only the authority of an
  absolute target (`ClientLifespan.cpp:87-105`), so `server_name` is not used for ordinary requests.
- `docs/planning.md:42` says `allow_methods` is appended and defaults to GET POST, the code takes
  the closest one and defaults to GET and DELETE; `docs/planning.md:54` says 512 worker connections,
  the code 1024.

## 7. What is not modelled

The parts marked `not_modelled` in `PROJECT.json`: tests, early experiments and the example site;
`Config2.cpp`, which builds a tree for tests by hand, and `Arena/main.cpp` are no part of the
program. Functions of `Http/Parser.cpp` that nothing calls: `ParseUri`, `ParseUriReference`,
`ParseUriFragment`, `ParsePathNoScheme`, `ParseStatusLine` with its parts, `ParseFieldReferer`,
`ParseComment`, `ScanLinearWhiteSpace`. `permanent::arena` is never used; `Host::serialize()` is
called for no address of a file; `addr_to_bind` is written and never read.

The texts of pages and headers, the environment and the arguments of a script are text that no
property is about. The reader knows heads as tokens (`HttpRequests`); what is behind them is
`HttpHead`. The values of numbers in the configuration are left out of `ConfigGrammar`, and of the
properties of a location `root` and `index` stand for the rest.

`poll()` failing for another reason than SIGINT is not modelled apart from it, nor is running out of
memory. Known and without a property: one `accept()` per listener and iteration, and none when the
server is full, which keeps `poll()` from waiting; a descriptor that is lost when `fcntl()` fails on
it (`AcceptLeaks`); output of a script that does not fit into a pipe, which ends in 504 (`CgiExec`
has the step, `Returns` that it ends).
