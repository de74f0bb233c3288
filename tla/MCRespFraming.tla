---------------------------- MODULE MCRespFraming -----------------------------
(* RespFraming instantiated for TLC: the requests that the client sends. *)
EXTENDS RespFraming, TLC

str(s) == <<"string", s>>
word(w) == str(<<w>>)

\* Commands with every kind of element and of length, complete or not.
MCRequests ==
  { <<word("SET"), word("1"), word("v")>>,
    <<word("set"), str(<<"1", "v">>), str(<<"CR", "LF">>), word("x")>>,
    <<word("SET"), word("2"), word("NUL")>>,
    <<word("SET"), str(<<"-", "2">>), <<"integer", 3>>, str(<<>>)>>,
    <<word("SET"), <<"simple", <<"1">>>>, word("v")>>,
    <<word("SET"), <<"array", <<word("1")>>>>, word("3"), word("v")>>,
    <<word("DEL"), word("1")>>,
    <<word("GET"), word("x")>>,
    <<<<"simple", <<"FLUSH">>>>>>,
    <<<<"integer", 12>>, word("PING")>>,
    <<word("CONFIG"), word("GET")>>,
    <<word("SELECT"), str(<<"1", "6">>)>>,
    <<>> }
===============================================================================
