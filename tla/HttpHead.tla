-------------------------------- MODULE HttpHead -------------------------------
(***************************************************************************)
(* The parser of a request's head (Http/Parser.cpp) and the use main.cpp   *)
(* makes of it: ParseRequestLine() and AnalysisRequestLine(), then         *)
(* ParseFields() and AnalysisRequestHeaders(), one step for each field     *)
(* line and for each field, and CheckHeaderBeforeProcess().                *)
(*                                                                         *)
(* A head is a sequence of lexemes: single characters, words, numbers, and *)
(* HTTP/1.1 for a version.  Pieces that stand side by side are one token,  *)
(* as in the text.  A client writes a head by docs/HTTP.abnf and may slip  *)
(* once in it.  The arena and the sizes follow in HeadArena and BodyLimit, *)
(* whose actions are part of the steps.                                    *)
(***************************************************************************)
EXTENDS HeadArena, BodyLimit, Sequences, SequencesExt, FiniteSetsExt

CONSTANTS
    RequestLines,   \* [text, reasons, path, query, host, plain]: what is asked
    FieldLines,     \* [name, value, is, bad, plain, endless]: and the fields
    Slips,          \* characters that get into a head by mistake
    HexDigits,      \* digits of a chunk-size line
    MaxFields,      \* bound on the fields of a head
    MaxSlipped      \* and on those of a head with a slip

VARIABLES
    phase,          \* "write", "sent", "line", "fields", "headers", "read", "body",
                    \* "refused", "loops"
    buf,            \* req_buf
    sent,           \* the head as it was sent
    asked,          \* the request line the client meant
    gave,           \* and the fields
    slipped,        \* there is a slip in it
    fields,         \* PTNodeFields: what ParseFields() found
    error,          \* of the request line, as the status it stands for
    input,          \* what is left of the value of a field that is analysed
    req,            \* clt->req
    status          \* clt->status_code

ASSUME DigitsAssumption == HexDigits \subseteq 0 .. 15

message == <<sent, asked, gave, slipped>>
vars == <<phase, buf, message, fields, error, input, req, status, arena, sizes>>

-------------------------------------------------------------------------------
(* Characters                                                                  *)

End     == "end"
Digit   == {"0", "1", "5", "80", "127"}
Words   == {"GET", "PUT", "get", "name", "http", "ftp", "close", "keep", "chunked",
            "gzip", "text", "a", "v", "Host", "Content-Length", "Content-Type",
            "Connection", "Transfer-Encoding"}
Version == {"HTTP/1.1", "HTTP/1.0", "HTTP/3.0"}
Crlf    == <<"cr", "nl">>

TokenText  == Words \cup Digit \cup {".", "*", "%41"}
Whitespace == {" ", "tab"}
Unreserved == Words \cup Digit \cup {"."}
SubDelims  == {"*", ",", ";", "="}
RegText    == Unreserved \cup SubDelims \cup {"%41"}
PathChar   == RegText \cup {":", "@"}
SchemeText == Unreserved \cup {"="}
Segments   == PathChar \cup Version \cup {"/"}
Visible    == Segments \cup {" ", "?", "[", "]", "quote"}
Quoted     == (Visible \cup {"tab"}) \ {"quote"}

-------------------------------------------------------------------------------
(* Pieces: how many lexemes of an input they take                              *)

Refused == -1

First(s)    == IF s = <<>> THEN End ELSE s[1]
Rest(s, n)  == SubSeq(s, n + 1, Len(s))
Take(s, n)  == SubSeq(s, 1, n)
Run(s, S)   == Min({i \in 0 .. Len(s) - 1 : s[i + 1] \notin S} \cup {Len(s)})
At(s, i)    == IF i \in DOMAIN s THEN s[i] ELSE End
NonEmpty(n) == IF n > 0 THEN n ELSE Refused
One(s, S)   == IF First(s) \in S THEN 1 ELSE 0

ScanToken(s)           == NonEmpty(Run(s, TokenText))
ScanStartLineSpaces(s) == NonEmpty(Run(s, Whitespace \cup {"cr"}))
ScanSegments(s)        == IF First(s) = "/" THEN Run(s, Segments) ELSE 0
ScanPathAbsolute(s) ==
    LET n == Run(Rest(s, 1), PathChar \cup Version)
    IN  IF First(s) # "/" THEN Refused
        ELSE IF n = 0 THEN 1 ELSE 1 + n + ScanSegments(Rest(s, 1 + n))
ScanPathRootless(s) ==
    LET n == Run(s, PathChar \cup Version) IN n + ScanSegments(Rest(s, n))
ScanQuery(s) == IF First(s) = "?" THEN Run(Rest(s, 1), Segments \cup {"?"}) ELSE Refused
Query(s)     == LET n == ScanQuery(s) IN IF n = Refused THEN <<>> ELSE SubSeq(s, 2, n + 1)
ScanScheme(s) ==
    IF First(s) \in Words THEN Run(s, SchemeText) ELSE Refused

-------------------------------------------------------------------------------
(* Hosts                                                                       *)

\* Octets and dots: where ScanDecOctet() finds no digit, it finds an octet of no length,
\* unless the input ends there.
ScanIpv4(s) ==
    LET a == One(s, Digit) + 1
        b == a + One(Rest(s, a), Digit) + 1
        c == b + One(Rest(s, b), Digit) + 1
    IN  IF (\A i \in {a, b, c} : At(s, i) = ".") /\ Len(s) > c
        THEN c + One(Rest(s, c), Digit) ELSE Refused

\* Groups that end in a colon, as many as there are; and those no colon follows.
Pairs(s) ==
    Max({k \in 0 .. Len(s) \div 2 : \A i \in 1 .. k : s[2 * i - 1] \in Digit /\ s[2 * i] = ":"})
Apart(s) ==
    Max({k \in 0 .. Pairs(s) : \A i \in 1 .. k : At(s, 2 * i + 1) # ":"})

\* The groups in front of "::", how much they take.
ScanLeading(s) == LET k == Apart(s) IN 2 * k + One(Rest(s, 2 * k), Digit)

\* And those behind it, as many as are left, of which an IPv4 address stands for two.
ScanTrailing(s, left) ==
    LET more == Max({0, Min({left + 1, Pairs(s)})})
        last == Rest(s, 2 * more)
    IN  2 * more + (IF left - more >= 2 /\ ScanIpv4(last) # Refused THEN 7 ELSE One(last, Digit))

\* Eight groups, or fewer and "::".  Six groups and an IPv4 address are refused: the
\* first octet is taken for a seventh group.
ScanIpv6(s) ==
    LET n == ScanLeading(s)
        amount == (n + 1) \div 2
    IN  IF amount = 8 THEN n
        ELSE IF At(s, n + 1) # ":" \/ At(s, n + 2) # ":" THEN Refused
        ELSE n + 2 + ScanTrailing(Rest(s, n + 2), 7 - amount)

ScanIpvFuture(s) ==
    LET n == Run(Rest(s, 1), Digit)
        m == Run(Rest(s, n + 2), Unreserved \cup SubDelims \cup {":"})
    IN  IF First(s) = "v" /\ n > 0 /\ At(s, n + 2) = "." /\ m > 0 THEN n + 2 + m ELSE Refused

Host(n, type, value) == [taken |-> n, type |-> type, value |-> value]

\* The first that is valid.
FirstOf(a, b) == IF a.taken # Refused THEN a ELSE b

\* The address in brackets, which is without them, or else the longest IPv4 address or
\* name in front, if empty.
InBrackets(s, ip) ==
    IF First(s) = "[" /\ ip.taken # Refused /\ At(s, ip.taken + 2) = "]"
    THEN Host(ip.taken + 2, ip.type, ip.value) ELSE Host(Refused, "none", <<>>)
ParseUriHost(s) ==
    LET in(b, n, type) == Host(n, type, Take(b, n))
        b == Rest(s, 1)
        r == Run(s, RegText)
    IN  FirstOf(InBrackets(s, FirstOf(in(b, ScanIpv6(b), "v6"), in(b, ScanIpvFuture(b), "future"))),
                FirstOf(in(s, ScanIpv4(s), "v4"), in(s, r, "name")))

\* A colon and digits, if there are any.
ScanPort(s) == IF First(s) = ":" THEN 1 + Run(Rest(s, 1), Digit) ELSE 0

WithPort(s, user, host) ==
    LET n == user + host.taken IN [host EXCEPT !.taken = n + ScanPort(Rest(s, n))]

\* The part of an authority in front of an "@" is dropped.
ParseUriAuthority(s) ==
    LET u == Run(s, RegText)
        user == IF At(s, u + 1) = "@" THEN u + 1 ELSE 0
    IN  WithPort(s, user, ParseUriHost(Rest(s, user)))

-------------------------------------------------------------------------------
(* The request line                                                            *)

NoHost == Host(0, "none", <<>>)
Target(n, form, host, path, query) ==
    [taken |-> n, form |-> form, host |-> host, path |-> path, query |-> query]
NoTarget == Target(Refused, "none", NoHost, <<>>, <<>>)

ParseOriginForm(s) ==
    LET n == ScanPathAbsolute(s)
        q == Query(Rest(s, n))
    IN  Target(n + (IF ScanQuery(Rest(s, n)) = Refused THEN 0 ELSE 1 + Len(q)), "origin",
               NoHost, Take(s, n), q)

\* What follows a scheme, with a host if it begins with two slashes: of its path,
\* AnalysisRequestLine() keeps one that does not begin with a slash, or that is behind a
\* host that can be one.
ParsePart(b, net, host) ==
    LET from == IF net THEN 2 + host.taken ELSE 0
        abs  == ScanPathAbsolute(b)
        len  == IF net THEN ScanSegments(Rest(b, from))
                ELSE IF abs # Refused THEN abs ELSE ScanPathRootless(b)
        path == IF (net \/ abs = Refused) /\ host.type # "future"
                THEN SubSeq(b, from + 1, from + len) ELSE <<>>
        q    == Rest(b, from + len)
    IN  Target(from + len + (IF ScanQuery(q) = Refused THEN 0 ELSE 1 + ScanQuery(q)),
               IF net THEN "network" ELSE "absolute", host, path, Query(q))

\* Nothing is kept under another scheme.
WithScheme(n, http, t) ==
    IF http THEN [t EXCEPT !.taken = n + 1 + @]
    ELSE Target(n + 1 + t.taken, "scheme", NoHost, <<>>, <<>>)

ParseUriAbsolute(s) ==
    LET n   == ScanScheme(s)
        b   == Rest(s, n + 1)
        net == At(b, 1) = "/" /\ At(b, 2) = "/"
    IN  IF n = Refused \/ At(s, n + 1) # ":" THEN NoTarget
        ELSE WithScheme(n, First(s) = "http",
                        ParsePart(b, net, IF net THEN ParseUriAuthority(Rest(b, 2)) ELSE NoHost))

\* A host, a colon and digits; and a star.
ParseAuthorityForm(s) ==
    LET n == ParseUriHost(s).taken
    IN  Target(IF At(s, n + 1) = ":" THEN n + ScanPort(Rest(s, n)) ELSE Refused,
               "authority", NoHost, <<>>, <<>>)
ParseAsteriskForm(s) ==
    Target(IF First(s) = "*" THEN 1 ELSE Refused, "asterisk", NoHost, <<>>, <<>>)

\* The first of the four that is valid.
ParseTarget(s) ==
    IF First(s) = "/" THEN ParseOriginForm(s)
    ELSE FirstOf(ParseUriAbsolute(s), FirstOf(ParseAuthorityForm(s), ParseAsteriskForm(s)))

\* The version behind a target: how much the whole line takes.
WithVersion(s, from, t) ==
    LET n == from + t.taken
        b == IF t.taken = Refused THEN Refused ELSE ScanStartLineSpaces(Rest(s, n))
        v == IF b = Refused THEN End ELSE At(s, n + b + 1)
    IN  [taken |-> IF v \in Version THEN n + b + 1 ELSE Refused, target |-> t, version |-> v]

ParseRequestLine(s) ==
    LET m == ScanToken(s)
        a == IF m = Refused THEN Refused ELSE ScanStartLineSpaces(Rest(s, m))
    IN  WithVersion(s, m + a, IF a = Refused THEN NoTarget ELSE ParseTarget(Rest(s, m + a)))

\* AnalysisRequestLine() and ParseErrorToStatusCode(): the last error counts, and the
\* host of an absolute target sets it back to none.
LineError(method, t, version) ==
    IF version = "HTTP/3.0" \/ t.form = "scheme" \/ t.host.type = "future" THEN 505
    ELSE IF t.form \in {"authority", "asterisk"} THEN 501
    ELSE IF t.form = "network" \/ method = "GET" THEN 0
    ELSE IF method = "PUT" THEN 501 ELSE 400

-------------------------------------------------------------------------------
(* The fields                                                                  *)

\* ParseFieldValue(): a space is a visible character (21 to 126), a tab is not.
ScanFieldValue(s) ==
    LET w == Run(s, Whitespace) IN w + Run(Rest(s, w), Visible)

\* ParseFieldLine(): where the value begins and ends, and the line without its end.
ParseFieldLine(s) ==
    LET n == ScanToken(s)
        v == Rest(s, n + 1)
        w == Run(v, Whitespace)
        m == ScanFieldValue(v)
        x == Max({0} \cup {i \in w + 1 .. m : v[i] \notin Whitespace})
    IN  IF n = Refused THEN [taken |-> Refused]
        ELSE IF At(s, n + 1) # ":" THEN [taken |-> Refused]
        ELSE [taken |-> n + 1 + m + Run(Rest(v, m), Whitespace),
              name  |-> s[1], value |-> SubSeq(v, w + 1, x)]

\* A list goes on with a comma: how much is in front of its next element.
ScanComma(s) ==
    LET n == Run(s, Whitespace)
    IN  IF At(s, n + 1) = "," THEN n + 1 + Run(Rest(s, n + 1), Whitespace) ELSE Refused

\* A list of options that begins with a comma.
HasOption(s) ==
    LET n == ScanComma(s)
    IN  n # Refused /\ First(Rest(s, n)) \in TokenText

ScanTransferCoding(s) == First(s) \in {"chunked", "gzip"}

\* ParseFieldTransferEncoding() looks at the second coding for ever.
ListsCodings(s) ==
    /\ ScanTransferCoding(s)
    /\ ScanComma(Rest(s, 1)) # Refused
    /\ ScanTransferCoding(Rest(s, 1 + ScanComma(Rest(s, 1))))

\* ParseFieldContentType(): the type in front of the parameters.
ScanContentType(s) ==
    LET n == ScanToken(s)
        m == ScanToken(Rest(s, n + 1))
    IN  IF n = Refused THEN Refused
        ELSE IF At(s, n + 1) # "/" \/ m = Refused THEN Refused ELSE n + 1 + m

\* ParseParameter() takes a token and then a quoted string, which is looked for the
\* end of for ever if it has one.
QuotesBehindToken(s) ==
    LET n == Run(s, Whitespace)
        p == Rest(s, n + 1 + Run(Rest(s, n + 1), Whitespace))
        k == Run(p, TokenText)
        v == Rest(p, k + 1)
        q == Rest(v, Run(v, TokenText) + 1)
    IN  /\ At(s, n + 1) = ";" /\ k > 0 /\ At(p, k + 1) = "="
        /\ ScanToken(v) # Refused /\ At(v, ScanToken(v) + 1) = "quote"
        /\ Run(q, Quoted) < Len(q)

-------------------------------------------------------------------------------
(* The client                                                                  *)

NoRequest == [host |-> <<>>, path |-> <<>>, query |-> <<>>, found |-> {}, header |-> <<>>,
              close |-> FALSE, chunked |-> FALSE, type |-> <<>>]

Init ==
    /\ phase = "write" /\ buf = <<>> /\ sent = <<>> /\ asked = End /\ gave = <<>>
    /\ slipped = FALSE /\ fields = <<>> /\ error = 0 /\ input = <<>>
    /\ req = NoRequest /\ status = 0
    /\ InitArena /\ InitSize

server == <<buf, fields, error, input, req, status>>

WriteRequestLine ==
    /\ phase = "write" /\ sent = <<>>
    /\ \E l \in RequestLines : sent' = l.text \o Crlf /\ asked' = l
    /\ UNCHANGED <<phase, gave, slipped, server, arena, sizes>>

WriteField ==
    /\ phase = "write" /\ sent # <<>> /\ Len(gave) < MaxFields
    /\ \E f \in FieldLines :
          /\ sent' = sent \o <<f.name, ":", " ">> \o f.value \o Crlf
          /\ gave' = Append(gave, f)
    /\ UNCHANGED <<phase, asked, slipped, server, arena, sizes>>

EndHead ==
    /\ phase = "write" /\ sent # <<>>
    /\ sent' = sent \o Crlf
    /\ phase' = "sent"
    /\ UNCHANGED <<asked, gave, slipped, server, arena, sizes>>

\* A character too many, or a piece too few, in front of the end of the last line.
Slip ==
    /\ phase = "sent" /\ ~slipped /\ gave # <<>> /\ Len(gave) <= MaxSlipped
    /\ \E i \in 1 .. Len(sent) - 3 :
          \/ \E x \in Slips : sent' = InsertAt(sent, i, x)
          \/ sent[i] \notin ToSet(Crlf) /\ sent' = RemoveAt(sent, i)
    /\ slipped' = TRUE
    /\ UNCHANGED <<phase, asked, gave, server, arena, sizes>>

-------------------------------------------------------------------------------
(* Reading it: main.cpp                                                        *)

\* The line ends of a text.
Breaks(s) == {i \in 1 .. Len(s) - 1 : SubSeq(s, i, i + 1) = Crlf}
HasEnd(s) == \E i \in Breaks(s) : i + 2 \in Breaks(s)

\* Lexemes of more than one character, of which one stands for its remainder too.
Long == (Words \ {"a", "v"}) \cup Version \cup {"80", "127", "%41"}

\* erase() of two characters more than was taken, whether they are a line end or not.
EraseLineEnd(s) ==
    LET n == IF First(s) \in Long THEN One(s, {"80"}) ELSE IF At(s, 2) \in Long THEN 1 ELSE 2
    IN  Rest(s, n)

\* The request line; without a field line behind it the fields are not parsed.
ReadRequestLine ==
    /\ phase = "sent"
    /\ LET l == ParseRequestLine(Take(sent, Min(Breaks(sent)) + 1))
           rest == Rest(sent, l.taken + 2)
           host == IF l.target.host.type = "future" THEN <<>> ELSE l.target.host.value
       IN  /\ l.taken # Refused
           /\ buf' = rest
           /\ error' = LineError(sent[1], l.target, l.version)
           /\ req' = [req EXCEPT !.host = host, !.path = l.target.path,
                                 !.query = l.target.query]
           /\ phase' = IF HasEnd(rest) THEN "fields" ELSE "headers"
    /\ TakeRequestLine
    /\ UNCHANGED <<message, fields, input, status, sizes>>

\* It is not one: 400, and the connection is closed.
RefuseRequestLine ==
    /\ phase = "sent"
    /\ ParseRequestLine(Take(sent, Min(Breaks(sent)) + 1)).taken = Refused
    /\ status' = 400
    /\ phase' = "refused"
    /\ TakeRequestLine
    /\ UNCHANGED <<message, buf, fields, error, input, req, sizes>>

ClearForFields ==
    /\ phase = "fields"
    /\ BeginFields
    /\ UNCHANGED <<phase, message, server, sizes>>

\* ParseFields(), one line after the other.
TakeLine ==
    /\ phase = "fields"
    /\ ParseFieldLine(buf).taken # Refused
    /\ ParseLine
    /\ UNCHANGED <<phase, message, server, sizes>>

KeepField ==
    /\ phase = "fields" /\ parsing = "line"
    /\ LET l == ParseFieldLine(buf) IN
          /\ IsPrefix(Crlf, Rest(buf, l.taken))
          /\ fields' = Append(fields, [name |-> l.name, value |-> l.value])
          /\ buf' = Rest(buf, l.taken + 2)
    /\ KeepLine
    /\ UNCHANGED <<phase, message, error, input, req, status, sizes>>

\* Mutant of DropField: the rest of the line goes with it.
DropWholeLine ==
    /\ phase = "fields" /\ parsing = "line"
    /\ ~IsPrefix(Crlf, Rest(buf, ParseFieldLine(buf).taken))
    /\ buf' = EraseLineEnd(Rest(buf, Min(Breaks(buf)) + 1))
    /\ phase' = "headers"
    /\ DropLine
    /\ UNCHANGED <<message, fields, error, input, req, status, sizes>>

\* A line that does not end behind its value: what was taken of it counts as fields.
DropField ==
    /\ phase = "fields" /\ parsing = "line"
    /\ LET l == ParseFieldLine(buf) IN
          /\ ~IsPrefix(Crlf, Rest(buf, l.taken))
          /\ buf' = EraseLineEnd(Rest(buf, l.taken))
    /\ phase' = "headers"
    /\ DropLine
    /\ UNCHANGED <<message, fields, error, input, req, status, sizes>>

\* The empty line, or one that is no field.
EndOfFields ==
    /\ phase = "fields"
    /\ ParseFieldLine(buf).taken = Refused
    /\ buf' = EraseLineEnd(buf)
    /\ phase' = "headers"
    /\ NoLine
    /\ UNCHANGED <<message, fields, error, input, req, status, sizes>>

-------------------------------------------------------------------------------
(* AnalysisRequestHeaders()                                                    *)

Known == {"Content-Type", "Content-Length", "Connection", "Host", "Transfer-Encoding"}

\* The most the nodes of its value take.
NodesOf(name) ==
    CASE name = "Host" -> 112 [] name = "Content-Type" -> 88 [] name = "Connection" -> 72
      [] name = "Transfer-Encoding" -> 64 [] name = "Content-Length" -> 8 [] OTHER -> 0

\* The field that is analysed: StringSlice::match() also takes a longer name.
This == fields[analysed]

BeginAnalysis ==
    /\ phase = "headers" /\ BeginField
    /\ fill' = fill + NodesOf(fields[analysed'].name)
    /\ input' = fields[analysed'].value
    /\ UNCHANGED <<phase, message, buf, fields, error, req, status, sizes>>

Analysing(name) == phase = "headers" /\ parsing = "field" /\ This.name = name

\* Only the first field of a name is kept.
Keep(name, r) ==
    /\ EndField
    /\ req' = IF name \in req.found THEN req ELSE r
    /\ UNCHANGED <<phase, message, buf, fields, error, input, status>>

FieldHost ==
    /\ Analysing("Host") /\ "Host" \notin req.found
    /\ Keep("Host", [req EXCEPT !.header = ParseUriHost(input).value, !.found = @ \cup {"Host"}])
    /\ UNCHANGED sizes

FieldContentType ==
    /\ Analysing("Content-Type")
    /\ LET n == ScanContentType(input) IN
        /\ n # Refused /\ ~QuotesBehindToken(Rest(input, n))
        /\ Keep("Content-Type",
                [req EXCEPT !.type = Take(input, n), !.found = @ \cup {"Content-Type"}])
        /\ UNCHANGED sizes

\* A coding that is not known is passed over, and so is all behind it.
FieldTransferEncoding ==
    /\ Analysing("Transfer-Encoding") /\ ~ListsCodings(input)
    /\ Keep("Transfer-Encoding", [req EXCEPT !.chunked = @ \/ First(input) = "chunked"])
    /\ UNCHANGED sizes

\* The first option, if the value begins with one: the list is only read otherwise.
FieldConnection ==
    /\ Analysing("Connection") /\ ~HasOption(input)
    /\ Keep("Connection", [req EXCEPT !.close = @ \/ First(input) = "close"])
    /\ UNCHANGED sizes

ListedOption ==
    /\ Analysing("Connection") /\ HasOption(input)
    /\ LET s == Rest(input, ScanComma(input))
       IN  /\ input' = Rest(s, ScanToken(s))
           /\ req' = [req EXCEPT !.close = @ \/ First(s) = "close"]
    /\ ReadOption
    /\ UNCHANGED <<phase, message, buf, fields, error, status, sizes>>

NumberOf(x) == CASE x = "0" -> 0 [] x = "1" -> 1 [] x = "5" -> 5

LengthDigit ==
    /\ Analysing("Content-Length")
    /\ "Content-Length" \notin req.found
    /\ First(input) \in {"0", "1", "5"}
    /\ input' = Rest(input, 1)
    /\ ReadDigit(10, NumberOf(First(input)))
    /\ UNCHANGED <<phase, message, buf, fields, error, req, status, arena>>

\* What follows the digits does not matter.
FieldContentLength ==
    /\ Analysing("Content-Length") /\ First(This.value) \in Digit
    /\ First(input) \in Digit => "Content-Length" \in req.found
    /\ Keep("Content-Length", [req EXCEPT !.found = @ \cup {"Content-Length"}])
    /\ UNCHANGED sizes

OtherField ==
    /\ phase = "headers" /\ parsing = "field" /\ This.name \notin Known
    /\ Keep(This.name, req)
    /\ UNCHANGED sizes

\* ParseFieldTransferEncoding() or ParseQuotedString() does not return.
Loop ==
    /\ \/ Analysing("Transfer-Encoding") /\ ListsCodings(input)
       \/ /\ Analysing("Content-Type") /\ ScanContentType(input) # Refused
          /\ QuotesBehindToken(Rest(input, ScanContentType(input)))
    /\ phase' = "loops"
    /\ UNCHANGED <<message, server, arena, sizes>>

\* CheckHeaderBeforeProcess(), behind the fields or where they are given up.
Finish(s) ==
    /\ status' = IF req.host = <<>> /\ req.header = <<>> THEN 400 ELSE s
    /\ phase' = "read"
    /\ Clear
    /\ UNCHANGED <<message, buf, fields, error, input, req, sizes>>

\* Mutant of EndHeaders: an error of the fields hides one of the request line.
EndHeadersLast ==
    /\ phase = "headers" /\ analysed = Len(fields)
    /\ parsing \in {"analysis", "done"}
    /\ Finish(IF parsing = "done" \/ "Host" \in req.found THEN 0 ELSE 400)

\* The end of the fields: an error of the request line counts, or else that no Host was
\* among them.
EndHeaders ==
    /\ phase = "headers" /\ analysed = Len(fields)
    /\ parsing \in {"analysis", "done"}
    /\ Finish(IF error # 0 \/ parsing = "done" \/ "Host" \in req.found THEN error ELSE 400)

\* Mutant of GiveUp: such a field is passed over.
PassOver ==
    /\ \/ Analysing("Content-Type") /\ ScanContentType(input) = Refused
       \/ Analysing("Content-Length") /\ First(This.value) \notin Digit
       \/ Analysing("Host") /\ "Host" \in req.found
    /\ EndField
    /\ UNCHANGED <<phase, message, buf, fields, error, input, req, status, sizes>>

\* A value that is not valid, or a second Host: the fields behind it are not looked at.
GiveUp ==
    /\ \/ Analysing("Content-Type") /\ ScanContentType(input) = Refused
       \/ Analysing("Content-Length") /\ First(This.value) \notin Digit
       \/ Analysing("Host") /\ "Host" \in req.found
    /\ Finish(IF error # 0 THEN error ELSE 400)

-------------------------------------------------------------------------------
(* The body of a request that is not refused                                   *)

BeginBody ==
    /\ phase = "read" /\ status = 0
    /\ IF req.chunked THEN FrameChunked ELSE FrameLength
    /\ phase' = "body" /\ buf' = <<>> /\ sent' = <<>> /\ asked' = End /\ gave' = <<>>
    /\ slipped' = FALSE /\ fields' = <<>> /\ input' = <<>> /\ req' = NoRequest
    /\ UNCHANGED <<error, status, arena>>

ReadBody ==
    /\ phase = "body"
    /\ \/ \E d \in HexDigits : framing = "chunked" /\ ReadDigit(16, d)
       \/ \E d \in HexDigits : ReadExtension(d)
       \/ JudgeLength
       \/ TakeChunk
       \/ LastChunk
       \/ LoseTrack
    /\ UNCHANGED <<phase, message, server, arena>>

Next ==
    \/ WriteRequestLine \/ WriteField \/ EndHead \/ Slip
    \/ ReadRequestLine \/ RefuseRequestLine
    \/ ClearForFields \/ TakeLine \/ KeepField \/ DropField \/ EndOfFields
    \/ BeginAnalysis \/ FieldHost \/ FieldContentType \/ FieldTransferEncoding
    \/ FieldConnection \/ ListedOption \/ LengthDigit \/ FieldContentLength
    \/ OtherField \/ Loop \/ GiveUp \/ EndHeaders
    \/ BeginBody \/ ReadBody

Spec == Init /\ [][Next]_vars

-------------------------------------------------------------------------------
(* What the client writes: request lines and values by themselves              *)

\* upto[k] is the number that the first k digits of a value write.
Numbers(upto, value) ==
    /\ upto[0] = 0
    /\ \A k \in DOMAIN upto \ {0} : upto[k] = 10 * upto[k - 1] + NumberOf(value[k])

\* Whether one of the options that are read of what is left of a value behind k lexemes is
\* "close" is closes[k].
Options(closes, value) ==
    \A k \in DOMAIN closes :
        LET s == Rest(value, k)
            t == Rest(s, ScanComma(s))
        IN  closes[k] <=> IF HasOption(s)
                          THEN First(t) = "close" \/ closes[k + ScanComma(s) + ScanToken(t)]
                          ELSE First(s) = "close"

\* What the parser finds in the value of a field is what it means.
MeansWhatIsRead(f) ==
    LET digits == Run(f.value, {"0", "1", "5"}) IN
    CASE f.name = "Host" -> f.is = ParseUriHost(f.value).value /\ f.is # <<>>
      [] f.name = "Content-Type" -> f.is = Take(f.value, ScanContentType(f.value))
      [] f.name = "Content-Length" ->
            \E upto \in [0 .. digits -> 0 .. f.is] :
                Numbers(upto, f.value) /\ upto[digits] = f.is
      [] f.name = "Transfer-Encoding" -> f.is = (First(f.value) = "chunked")
      [] f.name = "Connection" ->
            \E closes \in [0 .. Len(f.value) -> BOOLEAN] :
                Options(closes, f.value) /\ closes[0] = f.is
      [] OTHER -> TRUE

\* A field has a name and a value that neither begins nor ends with white space, is bad if
\* the parser refuses the value, endless if it does not get to its end, and otherwise, if
\* it is plain, means what is read.
ASSUME FieldsAssumption ==
    \A f \in FieldLines :
        /\ f.name \in Words /\ f.value \in Seq(Visible)
        /\ f.value # <<>> => f.value[1] \notin Whitespace /\ Last(f.value) \notin Whitespace
        /\ f.bad = \/ f.name = "Content-Type" /\ ScanContentType(f.value) = Refused
                   \/ f.name = "Content-Length" /\ First(f.value) \notin Digit
        /\ f.endless = \/ f.name = "Transfer-Encoding" /\ ListsCodings(f.value)
                       \/ /\ f.name = "Content-Type" /\ ~f.bad
                          /\ QuotesBehindToken(Rest(f.value, ScanContentType(f.value)))
        /\ f.plain /\ ~f.bad /\ ~f.endless => MeansWhatIsRead(f)

\* A request line has no line end in it, and is refused or taken as a whole; one that is
\* plain has an error for a reason it gives, or none and means what is read.
ASSUME LinesAssumption ==
    \A l \in RequestLines :
        LET p == ParseRequestLine(l.text \o Crlf)
            e == LineError(l.text[1], p.target, p.version)
        IN  /\ l.text \in Seq(Visible \cup Whitespace) /\ l.text # <<>>
            /\ p.taken \in {Refused, Len(l.text)}
            /\ 0 \notin l.reasons
            /\ l.plain /\ p.taken # Refused =>
                  IF l.reasons # {} THEN e \in l.reasons
                  ELSE /\ e = 0 /\ p.target.host.value = l.host
                       /\ p.target.path = l.path /\ p.target.query = l.query

-------------------------------------------------------------------------------
(* Properties                                                                  *)

FieldsNamed(name) == {i \in DOMAIN gave : gave[i].name = name}
Meant(name, none) ==
    LET named == FieldsNamed(name) IN IF named = {} THEN none ELSE gave[Min(named)].is

\* The fields in front of the first that is not valid, or is a second Host.
Bad(i)     == \/ gave[i].bad
              \/ gave[i].name = "Host" /\ \E j \in 1 .. i - 1 : gave[j].name = "Host"
InFront(S) == {i \in S : \A j \in 1 .. i : ~Bad(j)}
Foremost(S)  == {i \in S : \A j \in S : i <= j}

\* A head by the grammar is refused for a reason it gives, and otherwise the request is
\* the one that was meant.  It must be of the shapes that are read by their meaning
\* (`plain`; README, section 6, lists the others), and the target of one without fields
\* must not have a host, which is then taken for the Host (Parser.cpp:73-280,
\* ClientLifespan.cpp:81-103).
ReadAsWritten ==
    /\ phase = "read" /\ ~slipped
    /\ asked.plain /\ \A i \in DOMAIN gave : gave[i].plain
    /\ asked.host # <<>> => gave # <<>>
    => LET one     == \E i \in FieldsNamed("Host") : FieldsNamed("Host") = {i}
           reasons == asked.reasons
                        \cup (IF one /\ ~\E i \in DOMAIN gave : Bad(i) THEN {} ELSE {400})
       IN  /\ IF reasons = {} THEN status = 0 ELSE status \in reasons
           /\ status = 0 =>
                 /\ req.path = asked.path /\ req.query = asked.query /\ req.host = asked.host
                 /\ req.header = Meant("Host", <<>>)
                 /\ req.close = (\E i \in DOMAIN gave :
                                    gave[i].name = "Connection" /\ gave[i].is)
                 /\ req.type = Meant("Content-Type", <<>>)

\* The framing of a body is that of the first Content-Length, and of a
\* Transfer-Encoding, in front of a field that is not valid; one behind it is not seen,
\* and its body is read as the next request (Parser.cpp:164-280).
FramedAsWritten ==
    phase = "read" /\ ~slipped /\ (\A i \in DOMAIN gave : gave[i].plain) =>
        LET length == InFront(Foremost(FieldsNamed("Content-Length"))) IN
            /\ req.chunked = \E i \in InFront(FieldsNamed("Transfer-Encoding")) : gave[i].is
            /\ \A i \in length : written = gave[i].is
            /\ length = {} => written = 0

\* A field line by the code's own lights: a tab is only taken at the ends of a value.
IsFieldLine(l) ==
    \E i \in 2 .. Len(l) :
        /\ l[i] = ":" /\ \A j \in 1 .. i - 1 : l[j] \in TokenText
        /\ \E j, k \in i .. Len(l) :
              /\ \A x \in i + 1 .. j : l[x] \in Whitespace
              /\ \A x \in j + 1 .. k : l[x] \in Visible
              /\ \A x \in k + 1 .. Len(l) : l[x] \in Whitespace
Lines ==
    LET breaks == Breaks(sent)
        from(i) == Max({1} \cup {b + 2 : b \in {b \in breaks : b < i}})
    IN  {[at |-> from(i), text |-> SubSeq(sent, from(i), i - 1)] : i \in breaks}

\* The head is out of the buffer exactly if every line of it is a field line and its
\* request line ends with the version: with a slip anywhere else, what is left stands
\* in front of the body, or is the beginning of the next request, and the fields are
\* those in front of it (main.cpp:311-356).
TakenOff ==
    phase = "read" /\ gave # <<>> =>
        LET line(l) == l.at > 1 /\ l.text # <<>>
            bad  == {l.at : l \in {l \in Lines : line(l) /\ ~IsFieldLine(l.text)}}
            good == {l \in Lines : line(l) /\ \A i \in bad : l.at < i}
            whole == \A l \in Lines : l.at = 1 => Last(l.text) \in Version
        IN  /\ buf = <<>> <=> bad = {} /\ whole
            /\ whole => Len(fields) = Cardinality(good)
=============================================================================
