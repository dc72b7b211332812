----------------------------- MODULE MCHttpServer -----------------------------
(* An instance of HttpServer: a client sends two messages, of requests with *)
(* and without headers and bodies, routed or not, and of malformed text.    *)
EXTENDS HttpServer

MCCharacters ==
  [w \in {"x", "/", ":", "SP"} |-> 1] @@ [w \in {"GET", "PUT"} |-> 3] @@
  ("CRLF" :> 2 @@ "VERSION" :> 8 @@ "Connection" :> 10 @@ "close" :> 5)

MCMethods == {<<"GET">>, <<"PUT">>}
MCRoutes == {<<<<"GET">>, <<"/">>>>}

Close == <<<<"Connection">>, <<"close">>>>
Other == <<<<"x">>, <<"x", "SP", "x">>>>
Keep == <<<<"Connection">>, <<"x">>>>

MCRequests ==
  {[method |-> <<"GET">>, path |-> <<"/">>, headers |-> <<>>, body |-> <<>>],
   [method |-> <<"GET">>, path |-> <<"/">>, headers |-> <<Close, Other>>, body |-> <<"x", "CRLF">>],
   [method |-> <<"GET">>, path |-> <<"/">>, headers |-> <<Keep, Close>>, body |-> <<>>],
   [method |-> <<"PUT">>, path |-> <<"/">>, headers |-> <<Other>>, body |-> <<"x">>]}

MCMalformed == {<<"x", "SP", "/", "CRLF">>,
                <<"GET", "SP", "/", "SP", "x", "CRLF">>,
                <<"GET", "SP", "/", "SP", "VERSION", "CRLF", "x", "CRLF", "CRLF">>}

Filled(bodies, status) == [bodies |-> bodies, status |-> status]
MCOutcomes ==
  {Filled(<<>>, <<"200">>), Filled(<<<<"x">>>>, <<"404">>),
   Filled(<<<<"x", "CRLF", "CRLF">>, <<"x">>>>, <<"200">>)}
=============================================================================
