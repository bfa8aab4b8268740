---------------------------- MODULE MCConfigGrammar ----------------------------
(* Small instances of ConfigGrammar: each directive with the forms of its     *)
(* arguments, in each block, with the layouts the grammar lets an             *)
(* administrator choose.                                                      *)
EXTENDS ConfigGrammar

Every ==
    {Directive("root", <<<<"/a">>>>), Directive("index", <<<<"name">>>>),
     Directive("error_log", <<<<"/a", "/a">>>>),
     Directive("worker_connection", <<<<"404">>>>),
     Directive("autoindex", <<<<"on">>>>),
     Directive("client_max_body_size", <<<<"404", "k">>>>),
     Directive("client_max_body_size", <<<<"0">>>>),
     Directive("allow_methods", <<<<"GET">>, <<"POST">>>>),
     Directive("cgi", <<<<"name">>, <<"/a">>>>),
     Directive("error_pages", <<<<"404">>, <<"/a">>>>),
     Directive("return", <<<<"404">>>>), Directive("return", <<<<"404">>, <<"/a">>>>),
     Directive("types", <<>>), Directive("types", <<<<"text/plain">>, <<"name">>>>),
     Directive("listen", <<<<"name", Port>>>>), Directive("listen", <<<<"name">>, <<"name">>>>),
     Directive("server_name", <<<<"name">>>>), Directive("server_name", <<<<"name">>, <<"name">>>>)}

Layout(gap, end) == [gap |-> gap, end |-> end]

\* The last two: nothing at all behind a directive, and a file with CRLF.
Usual ==
    {Layout(gap, end) : gap \in {<<>>, <<" ">>},
                        end \in {<<"nl">>, <<";", "nl">>, <<" ", ";">>}}
    \cup {Layout(<<"nl">>, <<";", "nl">>), Layout(<<" ">>, <<>>),
          Layout(<<"cr", "nl">>, <<"cr", "nl">>)}

Typos == {" ", "nl", "cr", ";", "{", "}", "/a", "name", "404", "root", "location"}
=============================================================================
