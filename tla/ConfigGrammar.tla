----------------------------- MODULE ConfigGrammar -----------------------------
(***************************************************************************)
(* The parser of the configuration file (Configuration/Parser.cpp) and the *)
(* use main() makes of it.  A file is a sequence of lexemes: a blank, a    *)
(* line end, a carriage return, a brace, a semicolon, a keyword, or a      *)
(* piece of a word.  Words that stand side by side without a blank are one *)
(* word, as in the file.                                                   *)
(* "/a" stands for the pieces that begin with a slash and "name" for those *)
(* of letters, digits and dots.  An absolute URI, which only "return"      *)
(* takes, is left out, and so are IP addresses.                            *)
(*                                                                         *)
(* An administrator writes a file by the grammar of docs/config.abnf, may  *)
(* leave it unfinished or slip once in it, and the program reads it.       *)
(***************************************************************************)
EXTENDS Integers, Sequences, SequencesExt, FiniteSetsExt

CONSTANTS
    Statements,     \* the simple directives an administrator may write
    Layouts,        \* `gap`: what stands behind a keyword or before a brace;
                    \* `end`: what stands behind a directive
    Slips,          \* lexemes that get into a file by mistake
    MaxWritten,     \* bound on the directives and braces of a file
    MaxSimple,      \* bound on its simple directives
    MaxSlipped      \* bound on them in a file that has a slip

VARIABLES
    text,           \* the file
    wrote,          \* what it is meant to say
    open,           \* the blocks open where the file ends now
    layout,         \* the blanks and ends the administrator likes
    clear,          \* no directive ends in a way that is read as part of it
    slipped,        \* there is a slip in it
    read            \* what the program made of it

vars == <<text, wrote, open, layout, clear, slipped, read>>

EOF        == "eof"
Whitespace == {" "}                 \* a space or a tab
Blank      == Whitespace \cup {"nl"}    \* not "cr": config.abnf:49 has it
Braces     == {"{", "}"}
Digits     == {"0", "404"}          \* 404 stands for the numbers 100 to 511
Methods    == {"GET", "POST", "NONE"}      \* DELETE is as GET; NONE forgets those before it
Slashed    == {"/a", "text/plain"}
Port       == ":80"
PathArgs   == {"root", "index", "access_log", "error_log"}

\* No lexeme of these sets is a piece of the words they delimit.
NotInPath  == Blank \cup {";", EOF}
NotInName  == NotInPath \cup Slashed
NotInUri   == NotInPath \cup Braces \cup {"cr"}
NotInHost  == NotInName \cup Braces \cup {Port, "cr"}

At(i)        == IF i \in DOMAIN text THEN text[i] ELSE EOF
Slice(i, j)  == SubSeq(text, i, j - 1)
\* Where a run of lexemes that starts at i ends.
While(i, S)  == Min({j \in i .. Len(text) : text[j] \notin S} \cup {Len(text) + 1})
Until(i, S)  == Min({j \in i .. Len(text) : text[j] \in S} \cup {Len(text) + 1})

(***************************************************************************)
(* What a function returns: the position behind what it took, and what it  *)
(* built.  Refused is an output that is not valid; Loops, that it does not *)
(* return at all.                                                          *)
(***************************************************************************)
Refused == 0
Loops   == -1

Valid(i, args)  == [at |-> i, args |-> args]
Invalid         == Valid(Refused, <<>>)
Then(i, Op(_))  == IF i > 0 THEN Op(i) ELSE i
NonEmpty(i, j)  == IF i < j THEN j ELSE Refused

ScanOptionalWhitespace(i) == While(i, Whitespace)
ScanRequiredWhitespace(i) == NonEmpty(i, While(i, Whitespace))
ScanOptionalBlank(i)      == While(i, Blank)
ScanOSFileName(i)         == NonEmpty(i, Until(i, NotInName))
ScanOSPath(i)             == NonEmpty(i, Until(i, NotInPath))
ScanToken(i)              == NonEmpty(i, Until(i, NotInHost))

ParsePath(i) == LET j == ScanOSPath(i) IN Valid(j, <<Slice(i, j)>>)

\* Two arguments with blanks between them.
ParseTwo(i, First(_), Second(_)) ==
    LET j == First(i)
        k == Then(j, ScanRequiredWhitespace)
        l == Then(k, Second)
    IN  Valid(l, <<Slice(i, j), Slice(k, l)>>)

ParseAutoIndex(i) ==
    IF At(i) \in {"on", "off"} THEN Valid(i + 1, <<Slice(i, i + 1)>>) ELSE Invalid

ParseClientMaxBodySize(i) ==
    LET n == While(i, Digits)
        j == IF At(n) = "k" THEN n + 1 ELSE n
    IN  IF n = i THEN Invalid ELSE Valid(j, <<Slice(i, j)>>)

ParseWorkerConnections(i) ==
    LET j == While(i, Digits)
    IN  IF \E k \in i .. j - 1 : text[k] # "0" THEN Valid(j, <<Slice(i, j)>>) ELSE Invalid

\* A number from 100 to 511; zeros in front of it do not count.
ParseStatusCode(i) ==
    LET j == While(i, Digits)
    IN  IF j > i /\ \A k \in i .. j - 1 : (text[k] = "404") <=> (k = j - 1) THEN j ELSE Refused

ParseAllowMethods(i) ==
    LET j     == While(i, Methods \cup Whitespace)
        words == SelectSeq(Slice(i, j), LAMBDA x : x \in Methods)
    IN  IF At(i) \in Methods THEN Valid(j, [k \in DOMAIN words |-> <<words[k]>>]) ELSE Invalid

ParseCgi(i)        == ParseTwo(i, ScanOSFileName, ScanOSPath)
ParseErrorPages(i) == ParseTwo(i, ParseStatusCode, ScanOSPath)

ParseTarget(i) == IF At(i) = "/a" THEN Until(i, NotInUri) ELSE Refused
\* Mutant of ParseReturn: what is no address is passed over, up to the semicolon.
ParseReturnToSemicolon(i) ==
    LET j == ParseStatusCode(i) IN Valid(Then(j, LAMBDA k : Until(k, {";", "}"})), <<Slice(i, j)>>)
\* The address is looked for in front of the next semicolon of the file; what is no
\* address is left where it is.
ParseReturn(i) ==
    LET j == ParseStatusCode(i)
        k == Then(j, ScanRequiredWhitespace)
        l == Then(k, ParseTarget)
    IN  IF l = Refused THEN Valid(j, <<Slice(i, j)>>) ELSE Valid(l, <<Slice(i, j), Slice(k, l)>>)

(***************************************************************************)
(* Names and addresses, separated by blanks.  A name may be empty, so a    *)
(* blank is always followed by another one.  In an address a semicolon is  *)
(* part of the host.                                                       *)
(***************************************************************************)
RECURSIVE ParseNames(_, _, _)
ParseNames(i, without, ports) ==
    LET h == Until(i, without)
        j == IF At(h) \in ports THEN While(h + 1, Digits) ELSE h
        rest == ParseNames(ScanRequiredWhitespace(j), without, ports)
    IN  Valid(IF At(j) \in Whitespace THEN rest.at ELSE j,
              <<Slice(i, j)>> \o IF At(j) \in Whitespace THEN rest.args ELSE <<>>)

ParseListen(i) == ParseNames(i, NotInHost \ {";"}, {Port})

\* Mutant of ParseServerName: it does not stop at the semicolon either.
ParseServerNameUncut(i) == ParseNames(i, NotInHost \ {";"}, {})
\* Only up to the next semicolon of the file.
ParseServerName(i) == ParseNames(i, NotInHost, {})

OptionalSemicolon(i) ==
    LET j == ScanOptionalWhitespace(i) IN IF At(j) = ";" THEN j + 1 ELSE j

\* Types up to their brace, or up to the end of the file.
ParseContentType(i) ==
    LET j == Until(i, NotInHost)
    IN  IF At(j) = "text/plain" THEN Until(j + 1, NotInHost) ELSE Refused
RECURSIVE ParseTypes(_)
ParseTypes(i) ==
    LET b == ScanOptionalBlank(i)
        j == ParseContentType(b)
        k == Then(j, ScanRequiredWhitespace)
        l == Then(k, ScanToken)
        rest == ParseTypes(OptionalSemicolon(l))
    IN  IF At(i) = EOF THEN Valid(i, <<>>)
        ELSE IF At(b) = "}" THEN Valid(b + 1, <<>>)
        ELSE IF l = Refused THEN Invalid
        ELSE Valid(rest.at, <<Slice(b, j), Slice(k, l)>> \o rest.args)
ParseMimeTypes(i) == IF At(i) = "{" THEN ParseTypes(i + 1) ELSE Invalid

(***************************************************************************)
(* Directives and blocks.  What has been built is the sequence of the      *)
(* directives, a block as its head, its content and its brace.             *)
(***************************************************************************)
Directive(kind, args) == [kind |-> kind, args |-> args]
Built(i, directives)  == [at |-> i, built |-> directives]
NotBuilt              == Built(Refused, <<>>)

\* What came first, and what was read behind it; an error of either is the error.
Before(directives, rest) == IF rest.at > 0 THEN Built(rest.at, directives \o rest.built) ELSE rest

Statement(i, Parse(_)) ==
    LET parsed == Parse(ScanOptionalWhitespace(i + 1))
    IN  IF parsed.at > 0 THEN Built(parsed.at, <<Directive(At(i), parsed.args)>>) ELSE NotBuilt

ParseCommonContent(i) ==
    CASE At(i) \in PathArgs              -> Statement(i, ParsePath)
      [] At(i) = "allow_methods"         -> Statement(i, ParseAllowMethods)
      [] At(i) = "types"                 -> Statement(i, ParseMimeTypes)
      [] At(i) = "error_pages"           -> Statement(i, ParseErrorPages)
      [] At(i) = "client_max_body_size"  -> Statement(i, ParseClientMaxBodySize)
      [] At(i) = "autoindex"             -> Statement(i, ParseAutoIndex)
      [] At(i) = "cgi"                   -> Statement(i, ParseCgi)
      [] At(i) = "return"                -> Statement(i, ParseReturn)
      [] OTHER                           -> NotBuilt

RECURSIVE ParseItems(_, _)

Braced(i, kind, args) ==
    IF At(i) = "{" THEN Before(<<Directive(kind, args)>>, ParseItems(i + 1, kind)) ELSE NotBuilt

ParseLocationBlock(i) ==
    LET j == Until(i, NotInUri \ {";"})
    IN  IF At(i) = "/a" THEN Braced(ScanOptionalBlank(j), "location", <<Slice(i, j)>>) ELSE NotBuilt

ParseContent(i, kind) ==
    LET behind == ScanOptionalWhitespace(i + 1)
    IN  CASE kind = "main" /\ At(i) \in {"http", "events"} -> Braced(behind, At(i), <<>>)
          [] kind = "main" /\ At(i) = "error_log"          -> Statement(i, ParsePath)
          [] kind = "events" /\ At(i) = "worker_connection" -> Statement(i, ParseWorkerConnections)
          [] kind = "http" /\ At(i) = "server"             -> Braced(behind, "server", <<>>)
          [] kind \in {"server", "location"} /\ At(i) = "location" -> ParseLocationBlock(behind)
          [] kind = "server" /\ At(i) = "listen"           -> Statement(i, ParseListen)
          [] kind = "server" /\ At(i) = "server_name"      -> Statement(i, ParseServerName)
          [] kind \in {"http", "server", "location"} /\ At(i) \notin {"listen", "server_name", "location", "server"}
                                                           -> ParseCommonContent(i)
          [] OTHER                                         -> NotBuilt

\* No branch of the loop over an events block takes the next directive, and none
\* leaves the loop.
Stuck(i, kind) == kind = "events" /\ At(i) \notin {"worker_connection", EOF}

\* A block from behind its opening brace or one of its directives.
ParseItems(i, kind) ==
    LET b == ScanOptionalBlank(i)
        d == ParseContent(b, kind)
    IN  IF At(i) = EOF THEN NotBuilt
        ELSE IF At(b) = "}" THEN Built(b + 1, <<Directive("}", <<>>)>>)
        ELSE IF Stuck(b, kind) THEN Built(Loops, <<>>)
        ELSE IF d.at < 1 THEN d
        ELSE Before(d.built, ParseItems(OptionalSemicolon(d.at), kind))

RECURSIVE ParseMainItems(_)
ParseMainItems(i) ==
    LET d == ParseContent(i, "main")
    IN  IF At(i) = EOF THEN Built(i, <<>>)
        ELSE IF d.at < 1 THEN d
        ELSE Before(d.built, ParseMainItems(ScanOptionalBlank(OptionalSemicolon(d.at))))
ParseMainBlock == ParseMainItems(ScanOptionalBlank(1))

\* What main() says: MainBlock::http() is the last http block of the file.
Outcome(parsed) ==
    LET Of(kind) == {k \in DOMAIN parsed.built : parsed.built[k].kind = kind}
    IN  CASE parsed.at = Loops   -> "loops"
          [] parsed.at = Refused -> "parsing error"
          [] parsed.at > 0 /\ Of("http") = {} -> "no http"
          [] parsed.at > 0 /\ Of("http") # {} /\ \A k \in Of("server") : k < Max(Of("http")) -> "no server"
          [] OTHER               -> "started"

(***************************************************************************)
(* The administrator.  Contents is which directive may be written where.   *)
(***************************************************************************)
Common   == PathArgs \cup {"allow_methods", "types", "error_pages", "client_max_body_size",
                           "autoindex", "cgi", "return"}
Contents ==
    [main     |-> {"http", "events", "error_log"},
     events   |-> {"worker_connection"},
     http     |-> {"server"} \cup Common,
     server   |-> {"location", "listen", "server_name"} \cup Common,
     location |-> {"location"} \cup Common]
Blocks   == DOMAIN Contents \ {"main"}

Joined(args) == FlattenSeq([k \in DOMAIN args |-> (IF k = 1 THEN <<>> ELSE <<" ">>) \o args[k]])
Types(args)  == <<"{">> \o Joined(args) \o <<"}">>

\* A directive as it is written; the bare form is without blanks, semicolons
\* and line ends.
Line(d, gap) == <<d.kind>> \o gap \o IF d.kind = "types" THEN Types(d.args) ELSE Joined(d.args)
Bare(s)      == SelectSeq(s, LAMBDA x : x \notin Blank \cup {";"})
Shown(d)     == CASE d.kind = "}" -> <<"}">>
                  [] d.kind \in Blocks -> <<d.kind>> \o Joined(d.args) \o <<"{">>
                  [] OTHER -> Line(d, <<>>)

\* Directives whose last word goes on until something ends it.
OpenEnded(d) ==
    \/ d.kind \in PathArgs \cup {"cgi", "error_pages", "listen", "server_name"}
    \/ d.kind = "return" /\ Len(d.args) = 2

\* config.abnf ends every directive by OWS [";"], and there the parser goes on
\* reading: a word takes what follows it at once, a blank behind a list is followed
\* by another name, and a host takes a semicolon.
Clear(d, end) ==
    /\ end = <<>> => ~OpenEnded(d)
    /\ d.kind = "listen" => end[1] = "nl" \/ (end[1] = ";" /\ Port \in ToSet(Last(d.args)))
    /\ d.kind = "server_name" => end[1] \in {"nl", ";"}

\* Only before the brace of a location the grammar has a line end for a blank.
Gap == IF "nl" \in ToSet(layout.gap) THEN <<" ">> ELSE layout.gap
BlockHead(kind, args) ==
    IF kind = "location" THEN <<kind>> \o Gap \o Joined(args) \o layout.gap ELSE <<kind>> \o Gap

Unread == [outcome |-> "unread", built |-> <<>>]

Init ==
    /\ text = <<>> /\ wrote = <<>> /\ open = <<"main">>
    /\ layout \in Layouts
    /\ clear = TRUE /\ slipped = FALSE /\ read = Unread

SimpleOnes == Len(SelectSeq(wrote, LAMBDA d : d.kind \notin Blocks \cup {"}"}))
Writing == read = Unread /\ ~slipped /\ Len(wrote) < MaxWritten

Write(d) ==
    /\ Writing /\ SimpleOnes < MaxSimple /\ d.kind \in Contents[Last(open)]
    /\ text' = text \o Line(d, Gap) \o layout.end
    /\ wrote' = Append(wrote, d)
    /\ clear' = (clear /\ Clear(d, layout.end))
    /\ UNCHANGED <<open, layout, slipped, read>>

Open(kind, args) ==
    /\ Writing /\ kind \in Contents[Last(open)] \cap Blocks
    /\ (args # <<>>) <=> (kind = "location")
    /\ text' = text \o BlockHead(kind, args) \o <<"{">>
    /\ wrote' = Append(wrote, Directive(kind, args))
    /\ open' = Append(open, kind)
    /\ UNCHANGED <<layout, clear, slipped, read>>

Close ==
    /\ Writing /\ Len(open) > 1
    /\ text' = text \o <<"}">> \o layout.end
    /\ wrote' = Append(wrote, Directive("}", <<>>))
    /\ open' = Front(open)
    /\ UNCHANGED <<layout, clear, slipped, read>>

\* One lexeme is left out, put in or mistaken for another.
Slip(k, new) ==
    /\ read = Unread /\ ~slipped /\ open = <<"main">> /\ SimpleOnes <= MaxSlipped
    /\ text' \in {RemoveAt(text, k), InsertAt(text, k, new), ReplaceAt(text, k, new)}
    /\ slipped' = TRUE
    /\ UNCHANGED <<wrote, open, layout, clear, read>>

\* The program reads the file, finished or not.
Read ==
    /\ read = Unread
    /\ read' = [outcome |-> Outcome(ParseMainBlock), built |-> ParseMainBlock.built]
    /\ UNCHANGED <<text, wrote, open, layout, clear, slipped>>

Next ==
    \/ \E d \in Statements : Write(d)
    \/ \E kind \in Blocks, args \in {<<>>, <<<<"/a">>>>} : Open(kind, args)
    \/ Close
    \/ \E k \in DOMAIN text, new \in Slips : Slip(k, new)
    \/ Read

Spec == Init /\ [][Next]_vars

------------------------------------------------------------------------------
Accepted == read.outcome \in {"no http", "no server", "started"}

\* The blocks open behind the first directives of a sequence.
OpenBehind(directives) ==
    FoldLeft(LAMBDA s, d : IF d.kind = "}" THEN Front(s)
                           ELSE IF d.kind \in Blocks THEN Append(s, d.kind) ELSE s,
             <<"main">>, directives)
MayStand(d, context) == IF d.kind = "}" THEN Len(context) > 1 ELSE d.kind \in Contents[Last(context)]

\* A finished file is read as what it is meant to say, in each layout of the run:
\* with any blanks, semicolons and line ends of config.abnf but two.  One is an end
\* that is read as part of what it ends: of a list (ParseListen, ParseServerName) or,
\* where there is none at all, of a word (`root /a}`).  The other is the carriage
\* return, a blank of config.abnf:49 that ScanOptionalBlank() does not take
\* (Parser.cpp:59-72).  The program starts if there is a server in the last http block.
ReadAsWritten ==
    /\ read # Unread /\ ~slipped /\ clear /\ open = <<"main">>
    /\ "cr" \notin ToSet(layout.gap \o layout.end)
    => Accepted /\ read.built = wrote

\* Whatever is in a file, in any layout, unfinished or with a slip: if the parser
\* accepts it then each lexeme of it is in what was built, in the same order, and
\* each directive is in a block that may hold it.  Nothing is skipped, so no
\* directive of the administrator is ignored.
NothingSkipped ==
    Accepted =>
        /\ Bare(text) = Bare(FlattenSeq([k \in DOMAIN read.built |-> Shown(read.built[k])]))
        /\ \A k \in DOMAIN read.built :
              MayStand(read.built[k], OpenBehind(SubSeq(read.built, 1, k - 1)))
        /\ OpenBehind(read.built) = <<"main">>
=============================================================================
