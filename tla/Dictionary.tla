------------------------------ MODULE Dictionary ------------------------------
(***************************************************************************)
(* The string dictionary of iniparser-main/dictionary.c: parallel arrays   *)
(* key, val and hash of length size, with n counting the entries.  Lookup  *)
(* scans every slot and compares the cached hash before the string; a new  *)
(* key goes to the first empty slot at or after n, wrapping; a full        *)
(* dictionary doubles.                                                     *)
(*                                                                         *)
(* The hash of a string is any number (Hash), so collisions are included.  *)
(* malloc and calloc may fail where the constants say so.                  *)
(***************************************************************************)
EXTENDS Integers, FiniteSets

CONSTANTS
    Keys, Vals,
    NULL,         \* a null pointer: an empty slot, or a key without a value
    ABSENT,       \* the def argument of dictionary_get
    Hash,         \* dictionary_hash
    DICTMINSZ,    \* initial size (128 in the code)
    MaxSize,      \* bound: the dictionary does not double beyond this
    CallocMayFail,  \* a calloc of the arrays may fail
    DupMayFail    \* a malloc in xstrdup may fail

ASSUME DictAssumption ==
    /\ NULL \notin Keys \cup Vals
    /\ ABSENT \notin Vals \cup {NULL}
    /\ Hash \in [Keys -> Nat]
    /\ DICTMINSZ \in Nat \ {0}
    /\ MaxSize \in Nat
    /\ {CallocMayFail, DupMayFail} \subseteq BOOLEAN

VARIABLES
    status,          \* "none", "live", "nokeys", "freed" or "crashed"
    key, val, hash,  \* the arrays
    size, n,
    res              \* the last call and what it answered

vars == <<status, key, val, hash, size, n, res>>

Slots == 0 .. (size - 1)

KeyOrNull == Keys \cup {NULL}
ValOrNull == Vals \cup {NULL}

Init ==
    /\ status = "none"
    /\ size = DICTMINSZ
    /\ n = 0
    /\ key = [i \in Slots |-> NULL]
    /\ val = [i \in Slots |-> NULL]
    /\ hash = [i \in Slots |-> 0]
    /\ res = [op |-> "none"]

-----------------------------------------------------------------------------
\* dictionary_new: the arrays are allocated, all zero.  The test after the
\* callocs looks at d->size, which is not zero, where d->key is meant: without
\* the key array the dictionary is returned all the same ("nokeys").  Without
\* the val or the hash array the clean-up frees the number d->size, and the
\* process ends.
New ==
    /\ status = "none"
    /\ status' \in {"live"} \cup IF CallocMayFail THEN {"nokeys", "crashed"} ELSE {}
    /\ UNCHANGED <<key, val, hash, size, n, res>>

\* Every call on a dictionary without keys, dictionary_del included, reads
\* d->key[0].
UseNoKeys ==
    /\ status = "nokeys"
    /\ status' = "crashed"
    /\ UNCHANGED <<key, val, hash, size, n, res>>

\* The slot holds this key: hash first, then strcmp.
Matches(i, k) == key[i] # NULL /\ hash[i] = Hash[k] /\ key[i] = k

\* The slot at which a scan from 0 stops.
FoundAt(i, k) == Matches(i, k) /\ \A j \in 0 .. (i - 1) : ~Matches(j, k)

NotFoundBelowN(k) == \A i \in 0 .. (n - 1) : ~Matches(i, k)

NotFound(k) == \A i \in Slots : ~Matches(i, k)

\* xstrdup: a copy, or NULL when malloc fails.
Dup(s) == IF s # NULL /\ DupMayFail THEN {s, NULL} ELSE {s}

Answer(k, v, r) == res' = [op |-> "set", key |-> k, val |-> v, ret |-> r]

\* dictionary_set of a key that is there: only its value changes.
SetReplace(k, v) ==
    /\ status = "live"
    /\ n > 0
    /\ \E i \in Slots :
         /\ FoundAt(i, k)
         /\ \E c \in Dup(v) : val' = [val EXCEPT ![i] = c]
    /\ Answer(k, v, 0)
    /\ UNCHANGED <<status, key, hash, size, n>>

ProbeNone(keys, sz, i) == i = n

\* The slot at which the probe from n, wrapping at the end, stops.
Probe(keys, sz, i) ==
    LET before == IF i >= n THEN n .. (i - 1)
                            ELSE (n .. (sz - 1)) \cup (0 .. (i - 1))
    IN keys[i] = NULL /\ \A j \in before : keys[j] # NULL

InsertUncounted == n' = n

InsertCount == n' = n + 1

HashWritten(hashes, i, k) == [hashes EXCEPT ![i] = Hash[k]]

\* The new entry is written to the slot the probe found, in arrays that are
\* the dictionary's own or have just been doubled.
Store(keys, vals, hashes, sz, k, v) ==
    /\ \E i \in 0 .. (sz - 1), kc \in Dup(k), vc \in Dup(v) :
         /\ Probe(keys, sz, i)
         /\ key' = [keys EXCEPT ![i] = kc]
         /\ val' = [vals EXCEPT ![i] = vc]
         /\ hash' = HashWritten(hashes, i, k)
    /\ size' = sz
    /\ InsertCount
    /\ Answer(k, v, 0)
    /\ UNCHANGED status

\* dictionary_set of a new key while there is room.
SetInsert(k, v) ==
    /\ status = "live"
    /\ n = 0 \/ NotFound(k)
    /\ n # size
    /\ Store(key, val, hash, size, k, v)

Doubled(a, fill) ==
    [i \in 0 .. (2 * size - 1) |-> IF i < size THEN a[i] ELSE fill]

\* dictionary_set of a new key in a full dictionary: dictionary_grow first.
SetGrow(k, v) ==
    /\ status = "live"
    /\ n = 0 \/ NotFound(k)
    /\ n = size
    /\ 2 * size <= MaxSize
    /\ Store(Doubled(key, NULL), Doubled(val, NULL), Doubled(hash, 0),
             2 * size, k, v)

\* dictionary_grow fails and leaves the dictionary as it was.
SetGrowFails(k, v) ==
    /\ CallocMayFail
    /\ status = "live"
    /\ n = 0 \/ NotFound(k)
    /\ n = size
    /\ Answer(k, v, -1)
    /\ UNCHANGED <<status, key, val, hash, size, n>>

UnsetCount == n' = n - 1

\* dictionary_unset of a key that is there ...
UnsetFound(k) ==
    /\ status = "live"
    /\ \E i \in Slots :
         /\ FoundAt(i, k)
         /\ key' = [key EXCEPT ![i] = NULL]
         /\ val' = [val EXCEPT ![i] = NULL]
         /\ hash' = [hash EXCEPT ![i] = 0]
    /\ UnsetCount
    /\ res' = [op |-> "unset", key |-> k]
    /\ UNCHANGED <<status, size>>

\* ... and of one that is not.
UnsetMissing(k) ==
    /\ status = "live"
    /\ NotFound(k)
    /\ res' = [op |-> "unset", key |-> k]
    /\ UNCHANGED <<status, key, val, hash, size, n>>

\* dictionary_get: the value at the slot the scan stops at, or def.
Lookup(k) ==
    IF NotFound(k) THEN ABSENT
    ELSE val[CHOOSE i \in Slots : FoundAt(i, k)]

Get(k) ==
    /\ status = "live"
    /\ res' = [op |-> "get", key |-> k, val |-> Lookup(k)]
    /\ UNCHANGED <<status, key, val, hash, size, n>>

\* dictionary_del: the arrays are freed and no call may follow.
Del ==
    /\ status = "live"
    /\ status' = "freed"
    /\ UNCHANGED <<key, val, hash, size, n, res>>

Over == status \in {"freed", "crashed"} /\ UNCHANGED vars

Next ==
    \/ New
    \/ UseNoKeys
    \/ \E k \in Keys, v \in ValOrNull :
          \/ SetReplace(k, v) \/ SetInsert(k, v) \/ SetGrow(k, v)
          \/ SetGrowFails(k, v)
    \/ \E k \in Keys : UnsetFound(k) \/ UnsetMissing(k) \/ Get(k)
    \/ Del
    \/ Over

Spec == Init /\ [][Next]_vars

-----------------------------------------------------------------------------
(* Properties.                                                             *)

\* The type invariant; n, an unsigned, never goes below zero.
TypeOK ==
    /\ status \in {"none", "live", "nokeys", "freed", "crashed"}
    /\ size \in Nat \ {0}
    /\ n \in 0 .. size
    /\ key \in [Slots -> KeyOrNull]
    /\ val \in [Slots -> ValOrNull]
    /\ hash \in [Slots -> Nat]

Occupied == {i \in Slots : key[i] # NULL}

\* dictionary.h:35 "identified by a unique string key": no key is in two
\* slots, though holes left by dictionary_unset are filled in any order.
UniqueKeys ==
    \A i, j \in Occupied : key[i] = key[j] => i = j

\* The probe for an empty slot terminates: "Because d->n < d->size this will
\* necessarily terminate" (dictionary.c:293) needs that n is never less than
\* the number of occupied slots.
ProbeTerminates ==
    n < size => \E i \in Slots : key[i] = NULL

\* A cached hash is the hash of the key beside it, so the hash comparison of a
\* scan never hides a key that is there.
HashCached ==
    \A i \in Occupied : hash[i] = Hash[key[i]]

\* Without a failing xstrdup the dictionary is a map: every set is seen by the
\* next get of that key and of no other, across replacement, holes, doubling,
\* hash collisions and a doubling that fails.  A set of NULL keeps the key
\* (MapSetNull), against the second half of what dictionary.h:126-131 says.
Map == INSTANCE KeyValueMap WITH map <- [k \in Keys |-> Lookup(k)]

ImplementsMap == Map!MapSpec
=============================================================================
