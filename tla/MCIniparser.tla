----------------------------- MODULE MCIniparser -----------------------------
(* Iniparser for TLC: every file of up to three lines over one section and *)
(* one key in two spellings, with continuations, quotes, a syntax error    *)
(* and an overlong line; three keys of which two collide, plus the section. *)
EXTENDS Iniparser

MCKeys == {<<"a">>, <<"a", "x">>, <<"a", "y">>, <<"", "x">>}
Plain == <<"p">>
Tricky == <<"q", "b">>
Joined == <<"p", "p">>
MCVals == {Plain, Tricky, Joined, <<>>}
MCAppVals == {Tricky}
MCLong == {Joined}
MCHash == [k \in MCKeys |-> IF k[Len(k)] = "x" THEN 7 ELSE 0]
MCLower == [c \in {"a", "A", "x", "X", "y", ":x", ":y"} |->
              CASE c = "A" -> "a" [] c = "X" -> "x" [] OTHER -> c]

MCLines ==
    {Line(f, "x", <<>>, FALSE) : f \in {"empty", "error", "long"}}
    \cup {Line("comment", "x", <<>>, TRUE), Line("section", "A", <<>>, FALSE),
          Line("value", "x", Plain, FALSE),
          Line("quoted", "X", <<"b", "q", "b", "b", "q">>, FALSE),
          Line("value", "x", Plain, TRUE)}

MCFiles == UNION {[1 .. m -> MCLines] : m \in 0 .. 3}
=============================================================================
