---------------------------- MODULE MCHttpAnalyse ----------------------------
(* HttpAnalyse for TLC: two clients, three requests, the first with the    *)
(* longest id.                                                             *)
EXTENDS HttpAnalyse

LongThenShort == [r \in 1 .. MaxReqs |-> IF r = 1 THEN 2 ELSE 1]
=============================================================================
