---------------------------- MODULE MCLocationCache ----------------------------
(* A file with two servers, both on the default socket, the second on three    *)
(* others too, and four locations: every path has one.                         *)
EXTENDS LocationCache

D(type, value) == [type |-> type, value |-> value]
B(kind, parent, index, match, items) ==
    [kind |-> kind, parent |-> parent, index |-> index, match |-> match, items |-> items]

\* The second takes the port of the first; the last is the default socket.
Others == <<Address("v4", "127.0.0.1", "8080"), Address("v6", "::1", NoValue),
            Address("name", "localhost", "80")>>
EveryHost == Address("v4", "0.0.0.0", "80")

File == <<
    B("http", 0, 0, <<>>, <<D("root", "r0"), D("server", 2), D("index", "i0"), D("server", 5)>>),
    B("server", 1, 1, <<>>, <<D("server_name", "n1"), D("root", "r1"), D("location", 3),
                              D("root", "r2"), D("location", 4)>>),
    B("location", 2, 2, <<"/">>, <<>>),
    B("location", 2, 4, <<"/", "a">>, <<D("index", "i1"), D("index", "i2")>>),
    B("server", 1, 3, <<>>, <<D("listen", Others), D("listen", <<EveryHost>>),
                              D("server_name", "n2"), D("location", 6),
                              D("location", 7)>>),
    B("location", 5, 3, <<"/">>, <<D("index", "i0")>>),
    B("location", 5, 4, <<"/", "a">>, <<D("root", "r3")>>)>>

Asked == [socket : {DefaultSocket, Address("v6", "::1", "8080")}, name : {"n2", ""},
          path : {<<"/">>, <<"/", "a", "b">>}]

Html      == "html"
IndexHtml == "index.html"

\* The file is one that ImplementsQuery is about.
ASSUME RoomForAll /\ PortsOnce
=============================================================================
