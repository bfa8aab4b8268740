------------------------------- MODULE MCHttpHead -------------------------------
(* Every shape of request target and of the fields the server looks at: those  *)
(* that are read by their meaning (Plain) and those that are not (Other).      *)
EXTENDS HttpHead

Asked(text, reasons, host, path, query, plain) ==
    [text |-> text, reasons |-> reasons, host |-> host, path |-> path, query |-> query,
     plain |-> plain]
\* A target under the versions and methods; reasons and meaning come with it.
On(t, method, version) ==
    Asked(<<method, " ">> \o t.text \o <<" ", version>>,
          t.reasons \cup (IF method = "PUT" THEN {501} ELSE IF method = "get" THEN {400} ELSE {})
                    \cup (IF version = "HTTP/3.0" THEN {505} ELSE {}),
          t.host, t.path, t.query, t.plain /\ (method = "GET" \/ t.host = <<>>))
T(text, reasons, host, path, query) == Asked(text, reasons, host, path, query, TRUE)
U(text, reasons, host, path, query) == Asked(text, reasons, host, path, query, FALSE)

Plain == {
    T(<<"/", "name">>, {}, <<>>, <<"/", "name">>, <<>>),
    T(<<"/", "name", "/", "?", "a", "=", "/">>, {}, <<>>, <<"/", "name", "/">>, <<"a", "=", "/">>),
    T(<<"http", ":", "/", "/", "name", "@", "a", ":", "80", "/", "%41", "?", "a">>, {},
      <<"a">>, <<"/", "%41">>, <<"a">>),
    T(<<"http", ":", "/", "/", "[", ":", ":", "1", "]", "/">>, {}, <<":", ":", "1">>, <<"/">>, <<>>),
    T(<<"http", ":", "/", "/", "[", "v", "1", ".", "a", "]", "/">>, {505}, <<>>, <<"/">>, <<>>),
    T(<<"http", ":", "name">>, {}, <<>>, <<"name">>, <<>>),
    T(<<"ftp", ":", "/", "/", "name", "/">>, {505}, <<"name">>, <<"/">>, <<>>),
    T(<<"127", ".", "0", ".", "0", ".", "1", ":", "80">>, {501}, <<>>, <<>>, <<>>),
    T(<<"*">>, {501}, <<>>, <<>>, <<>>)}
\* The path is lost; a host and a port are a scheme and a path; a path of two slashes.
Other == {
    U(<<"http", ":", "/", "name">>, {}, <<>>, <<"/", "name">>, <<>>),
    U(<<"name", ":", "80">>, {501}, <<>>, <<>>, <<>>),
    U(<<"/", "/", "name">>, {}, <<>>, <<"/", "/", "name">>, <<>>)}

Origin == CHOOSE t \in Plain : t.text = <<"/", "name">>
Asking ==
    {On(t, "GET", "HTTP/1.1") : t \in Plain \cup Other}
    \cup {On(t, m, "HTTP/1.0") : t \in {Origin} \cup {t \in Plain : t.host # <<>>}, m \in {"PUT", "get"}}
    \cup {On(Origin, "GET", "HTTP/3.0"), On(Origin, "PUT", "HTTP/3.0")}

F(name, value, is) ==
    [name |-> name, value |-> value, is |-> is, bad |-> FALSE, plain |-> TRUE, endless |-> FALSE]
Invalid(f) == [f EXCEPT !.bad = TRUE]
Misread(f) == [f EXCEPT !.plain = FALSE]
Endless(f) == [f EXCEPT !.endless = TRUE]

Ip   == <<"127", ".", "0", ".", "0", ".", "1">>
Full == <<"1", ":", "1", ":", "1", ":", "1", ":", "1", ":", "1", ":", "1", ":", "1">>
Text == <<"text", "/", "a">>
Sending == {
    F("Host", <<"name", ".", "a", ":", "80">>, <<"name", ".", "a">>),
    F("Host", Ip, Ip),
    F("Host", <<"[">> \o Full \o <<"]">>, Full),
    Misread(F("Host", Ip \o <<"name">>, Ip \o <<"name">>)),
    F("Content-Length", <<"1", "0">>, 10),
    F("Content-Length", <<"5", "0">>, 50),
    Misread(F("Content-Length", <<"5", "a">>, 5)),
    Invalid(F("Content-Length", <<"a">>, 0)),
    F("Transfer-Encoding", <<"chunked">>, TRUE),
    Endless(F("Transfer-Encoding", <<"gzip", " ", ",", "chunked">>, TRUE)),
    Misread(F("Transfer-Encoding", <<"a", ",", "chunked">>, TRUE)),
    F("Connection", <<"close">>, TRUE),
    F("Connection", <<",", "keep", ",", "close">>, TRUE),
    Misread(F("Connection", <<"keep", ",", "close">>, TRUE)),
    F("Content-Type", Text \o <<";", "a", "=", "quote", "a", "quote">>, Text),
    Endless(F("Content-Type", Text \o <<";", "a", "=", "a", "quote", "a", "quote">>, Text)),
    Invalid(F("Content-Type", <<"text">>, Text)),
    F("name", <<>>, 0)}

Erring == {" ", ":", ",", "tab", "cr", "nl"}
=============================================================================
