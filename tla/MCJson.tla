--------------------------------- MODULE MCJson --------------------------------
(* JsonTree and JsonPrint for TLC: names and values of every kind, buffers *)
(* that must grow at once and later.                                       *)
EXTENDS JsonPrint

MCNameOf == <<<<"p">>, <<"q", "p">>, <<"c", "n">>, <<"p", "p">>>>
MCValueOf == <<[kind |-> "null", str |-> <<>>], [kind |-> "double", str |-> <<>>],
               [kind |-> "string", str |-> <<"n", "c", "p">>], [kind |-> "int", str |-> <<>>]>>
MCPrebuffers == {1, 40}
=============================================================================
