----------------------------- MODULE KeyValueMap -----------------------------
(***************************************************************************)
(* The map that dictionary.c keeps: a partial function from keys to values *)
(* where a set either takes effect and answers 0 or changes nothing and    *)
(* answers -1.  No slots, hashes or sizes.                                 *)
(***************************************************************************)
EXTENDS Integers

CONSTANTS Keys, Vals, NULL,
          ABSENT   \* what the map holds for a key it does not have

VARIABLES map, res

MapInit ==
    /\ map = [k \in Keys |-> ABSENT]
    /\ res = [op |-> "none"]

MapSet(k, v) ==
    /\ map' = [map EXCEPT ![k] = v]
    /\ res' = [op |-> "set", key |-> k, val |-> v, ret |-> 0]

\* A key may be set to NULL and is there with that value, which is how
\* iniparser keeps its sections.  dictionary.h:126 says so ("the variable will
\* be found, and its value (NULL) is returned") and goes on that this is
\* "equivalent to deleting the variable", which MapUnset is and this is not:
\* dictionary_get of a deleted key answers its def argument.
MapSetNull(k) == MapSet(k, NULL)

MapSetRefused(k, v) ==
    /\ UNCHANGED map
    /\ res' = [op |-> "set", key |-> k, val |-> v, ret |-> -1]

MapUnset(k) ==
    /\ map' = [map EXCEPT ![k] = ABSENT]
    /\ res' = [op |-> "unset", key |-> k]

MapGet(k) ==
    /\ UNCHANGED map
    /\ res' = [op |-> "get", key |-> k, val |-> map[k]]

MapNext ==
    \E k \in Keys :
        \/ \E v \in Vals : MapSet(k, v)
        \/ MapSetNull(k)
        \/ \E v \in Vals \cup {NULL} : MapSetRefused(k, v)
        \/ MapUnset(k)
        \/ MapGet(k)

MapSpec == MapInit /\ [][MapNext]_<<map, res>>
=============================================================================
