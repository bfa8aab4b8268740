---------------------------- MODULE MCRequestReader ----------------------------
(* Small instances of RequestReader: streams of one or two requests out of a   *)
(* list with every kind of head, body and trailer.                             *)
EXTENDS RequestReader

Request(line, fields, chunks, trailer) ==
    [line |-> line, fields |-> fields, chunks |-> chunks, trailer |-> trailer]
Chunk(data) == [size |-> Len(data), data |-> data]
Plain(line, fields, data) == Request(line, fields, <<Chunk(data)>>, <<>>)
Bare(line, fields)        == Request(line, fields, <<>>, <<>>)

\* Without a body, or with one of a known length; 3 is more than MaxBody.
Simple ==
    {Bare("GET", <<"Host">>), Bare("GET", <<>>), Bare("GET", <<"Host", "Field", "Close">>),
     Bare("BAD", <<"Host">>), Bare("POST", <<"Host">>),
     Plain("POST", <<"Host", "Length2">>, <<"CR", "LF">>),
     Plain("POST", <<"Length3", "Host">>, <<"x", "y", "z">>),
     Plain("DENIED", <<"Host", "Length1">>, <<"x">>),
     Plain("GONE", <<"Host", "Close">>, <<>>)}

\* In chunks: two small ones, two that are too much together, an empty body, one
\* that misses its size, one on a request that has an error already.
Chunky ==
    {Request("POST", <<"Host", "Chunked">>, <<Chunk(<<"x">>), Chunk(<<"0">>)>>, <<>>),
     Request("POST", <<"Chunked", "Host">>, <<Chunk(<<"x", "y">>), Chunk(<<"z">>)>>, <<"Field">>),
     Request("POST", <<"Host", "Chunked">>, <<Chunk(<<"x", "y", "z">>), Chunk(<<"z">>)>>, <<>>),
     Request("POST", <<"Host", "Chunked", "Length1", "Close">>, <<>>, <<>>),
     Request("POST", <<"Host", "Chunked">>, <<[size |-> 1, data |-> <<"x", "y">>]>>, <<>>),
     Request("PUT", <<"Host", "Chunked">>, <<Chunk(<<"x", "y", "z">>)>>, <<>>),
     Request("POST", <<"Chunked">>, <<Chunk(<<"x">>)>>, <<"Field">>)}

Pairs  == {<<a, b>> : a \in Simple \cup Chunky, b \in Simple \cup Chunky}

\* The stream of the disagreement.
Chunked1 == {<<Request("POST", <<"Host", "Chunked">>, <<Chunk(<<"x">>)>>, <<"Field">>)>>}

\* The requests are such as the theorems are about.
ASSUME WellFormed
===============================================================================
