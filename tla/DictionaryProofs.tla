--------------------------- MODULE DictionaryProofs ---------------------------
(***************************************************************************)
(* The dictionary for every set of keys, hash function, initial size and   *)
(* bound: the slots stay consistent even when xstrdup fails, and without   *)
(* such a failure the arrays implement a plain map.  Then the parser above *)
(* it, for every file: it uses the dictionary only through its calls, and  *)
(* what it loads is what the lines mean.                                   *)
(***************************************************************************)
EXTENDS Iniparser, FiniteSetTheorems, TLAPS

\* n may count entries whose key could not be copied, never fewer than the
\* slots in use.
Counted == Cardinality(Occupied) <= n

\* The inductive invariant.
IInv == TypeOK /\ HashCached /\ UniqueKeys /\ Counted

-----------------------------------------------------------------------------
\* The slots are a finite set of size elements, and so are those in use.
LEMMA SlotsFinite ==
    ASSUME TypeOK
    PROVE  /\ IsFiniteSet(Slots) /\ Cardinality(Slots) = size
           /\ IsFiniteSet(Occupied) /\ Cardinality(Occupied) \in Nat
<1>1. IsFiniteSet(Slots) /\ Cardinality(Slots) = size
  BY FS_Interval DEF TypeOK, Slots
<1>2. IsFiniteSet(Occupied)
  BY <1>1, FS_Subset DEF Occupied
<1> QED
  BY <1>1, <1>2, FS_CardinalityType

\* With no entry counted, no slot is in use.
LEMMA NoneCounted ==
    ASSUME IInv, n = 0
    PROVE  \A i \in Slots : key[i] = NULL
<1>1. Cardinality(Occupied) = 0
  BY SlotsFinite DEF IInv, TypeOK, Counted
<1>2. Occupied = {}
  BY <1>1, SlotsFinite, FS_EmptySet DEF IInv
<1> QED
  BY <1>2 DEF Occupied

\* A scan finds exactly the slot that holds the key.
LEMMA MatchesIsKey ==
    ASSUME IInv, NEW k \in Keys, NEW i \in Slots
    PROVE  Matches(i, k) <=> key[i] = k
  BY DictAssumption DEF IInv, TypeOK, HashCached, Occupied, Matches

\* What dictionary_set has established before it inserts: the key is nowhere.
LEMMA InsertsNewKey ==
    ASSUME IInv, NEW k \in Keys, n = 0 \/ NotFound(k)
    PROVE  \A i \in Slots : key[i] # k
<1>1. CASE n = 0
  BY <1>1, NoneCounted, DictAssumption
<1>2. CASE NotFound(k)
  BY <1>2, MatchesIsKey DEF NotFound
<1> QED
  BY <1>1, <1>2

\* The key is in no other slot than the one the scan stops at.
LEMMA FoundAtIsKey ==
    ASSUME IInv, NEW k \in Keys, NEW i \in Slots
    PROVE  FoundAt(i, k) <=> key[i] = k
<1>1. FoundAt(i, k) => key[i] = k
  BY MatchesIsKey DEF FoundAt
<1>2. ASSUME key[i] = k PROVE FoundAt(i, k)
  <2>1. ASSUME NEW j \in 0 .. (i - 1) PROVE ~Matches(j, k)
    <3>1. j \in Slots /\ j # i
      BY DEF Slots, IInv, TypeOK
    <3>2. key[j] # k
      BY <1>2, <3>1, DictAssumption DEF IInv, UniqueKeys, Occupied
    <3> QED
      BY <3>1, <3>2, MatchesIsKey
  <2> QED
    BY <1>2, <2>1, MatchesIsKey DEF FoundAt
<1> QED
  BY <1>1, <1>2

-----------------------------------------------------------------------------
\* Writing the new entry to the slot the probe found keeps the invariant, in
\* the dictionary's own arrays as in the doubled ones.
LEMMA StoreKeeps ==
    ASSUME NEW keys, NEW vals, NEW hashes, NEW sz \in Nat \ {0},
           NEW k \in Keys, NEW v \in ValOrNull,
           TypeOK, n < sz,
           keys \in [0 .. (sz - 1) -> KeyOrNull],
           vals \in [0 .. (sz - 1) -> ValOrNull],
           hashes \in [0 .. (sz - 1) -> Nat],
           \A i \in 0 .. (sz - 1) : keys[i] # NULL => hashes[i] = Hash[keys[i]],
           \A i, j \in 0 .. (sz - 1) :
               keys[i] # NULL /\ keys[i] = keys[j] => i = j,
           \A i \in 0 .. (sz - 1) : keys[i] # k,
           Cardinality({i \in 0 .. (sz - 1) : keys[i] # NULL}) <= n,
           Store(keys, vals, hashes, sz, k, v)
    PROVE  IInv'
<1> DEFINE used == {i \in 0 .. (sz - 1) : keys[i] # NULL}
<1>1. PICK i \in 0 .. (sz - 1), kc \in Dup(k), vc \in Dup(v) :
         /\ Probe(keys, sz, i)
         /\ key' = [keys EXCEPT ![i] = kc]
         /\ val' = [vals EXCEPT ![i] = vc]
         /\ hash' = [hashes EXCEPT ![i] = Hash[k]]
  BY DEF Store, HashWritten
<1>2. kc \in {k, NULL} /\ vc \in ValOrNull
  BY DEF Dup, ValOrNull
<1>3. size' = sz /\ n' = n + 1 /\ status' = status
  BY DEF Store, InsertCount
<1>4. TypeOK'
  BY <1>1, <1>2, <1>3, DictAssumption DEF TypeOK, Slots, KeyOrNull
<1>5. HashCached'
  BY <1>1, <1>2, <1>3, DictAssumption DEF HashCached, Occupied, Slots
<1>6. UniqueKeys'
  BY <1>1, <1>2, <1>3, DictAssumption DEF UniqueKeys, Occupied, Slots
<1>7. Counted'
  <2>1. IsFiniteSet(used)
    <3>1. IsFiniteSet(0 .. (sz - 1)) /\ used \subseteq 0 .. (sz - 1)
      BY FS_Interval
    <3> QED
      BY <3>1, FS_Subset
  <2>2. /\ IsFiniteSet(used \cup {i})
        /\ Cardinality(used) \in Nat
        /\ Cardinality(used \cup {i}) \in {Cardinality(used), Cardinality(used) + 1}
    BY <2>1, FS_AddElement, FS_CardinalityType
  <2>3. Occupied' \subseteq used \cup {i}
    BY <1>1, <1>3 DEF Occupied, Slots
  <2>4. Cardinality(Occupied') <= Cardinality(used \cup {i})
    BY <2>2, <2>3, FS_Subset
  <2>5. Cardinality(Occupied') \in Nat
    BY <2>2, <2>3, FS_Subset, FS_CardinalityType
  <2>6. Cardinality(used) <= n
    OBVIOUS
  <2>7. Cardinality(Occupied') <= n + 1
    <3> HIDE DEF used
    <3> QED
      BY <2>2, <2>4, <2>5, <2>6 DEF TypeOK
  <2> QED
    BY <1>3, <2>7 DEF Counted
<1> QED
  BY <1>4, <1>5, <1>6, <1>7 DEF IInv

\* A set that finds room.
LEMMA InsertKeeps ==
    ASSUME IInv, NEW k \in Keys, NEW v \in ValOrNull, SetInsert(k, v)
    PROVE  IInv'
<1>1. \A i \in Slots : key[i] # k
  BY InsertsNewKey DEF SetInsert
<1>2. Store(key, val, hash, size, k, v) /\ n < size
  BY DEF SetInsert, IInv, TypeOK
<1> QED
  BY <1>1, <1>2, StoreKeeps
     DEF IInv, TypeOK, HashCached, UniqueKeys, Counted, Occupied, Slots

\* A set that doubles the arrays first.
LEMMA GrowKeeps ==
    ASSUME IInv, NEW k \in Keys, NEW v \in ValOrNull, SetGrow(k, v)
    PROVE  IInv'
<1> DEFINE keys == Doubled(key, NULL)
           hashes == Doubled(hash, 0)
           sz == 2 * size
<1>1. \A i \in Slots : key[i] # k
  BY InsertsNewKey DEF SetGrow
<1>2. sz \in Nat \ {0} /\ n < sz
  BY DEF SetGrow, IInv, TypeOK
<1>3. /\ keys \in [0 .. (sz - 1) -> KeyOrNull]
      /\ Doubled(val, NULL) \in [0 .. (sz - 1) -> ValOrNull]
      /\ hashes \in [0 .. (sz - 1) -> Nat]
  BY DEF Doubled, IInv, TypeOK, Slots, KeyOrNull, ValOrNull
<1>4. \A i \in 0 .. (sz - 1) :
         IF i \in Slots THEN keys[i] = key[i] /\ hashes[i] = hash[i]
                        ELSE keys[i] = NULL
  BY DEF Doubled, Slots, IInv, TypeOK
<1>5. {i \in 0 .. (sz - 1) : keys[i] # NULL} = Occupied
  BY <1>4 DEF Occupied, Slots, IInv, TypeOK
<1>6. Store(keys, Doubled(val, NULL), hashes, sz, k, v)
  BY DEF SetGrow
<1> HIDE DEF keys, hashes, sz
<1>7. /\ \A i \in 0 .. (sz - 1) : keys[i] # NULL => hashes[i] = Hash[keys[i]]
      /\ \A i, j \in 0 .. (sz - 1) :
            keys[i] # NULL /\ keys[i] = keys[j] => i = j
      /\ \A i \in 0 .. (sz - 1) : keys[i] # k
  BY <1>1, <1>4, DictAssumption DEF IInv, HashCached, UniqueKeys, Occupied
<1>8. Cardinality({i \in 0 .. (sz - 1) : keys[i] # NULL}) <= n
  BY <1>5 DEF IInv, Counted
<1> QED
  BY <1>2, <1>3, <1>6, <1>7, <1>8, StoreKeeps DEF IInv

\* A removed key gives its slot back and is counted off.
LEMMA UnsetKeeps ==
    ASSUME IInv, NEW k \in Keys, UnsetFound(k)
    PROVE  IInv'
<1>1. PICK i \in Slots :
         /\ FoundAt(i, k)
         /\ key' = [key EXCEPT ![i] = NULL]
         /\ val' = [val EXCEPT ![i] = NULL]
         /\ hash' = [hash EXCEPT ![i] = 0]
  BY DEF UnsetFound
<1>2. n' = n - 1 /\ size' = size /\ status' = status
  BY DEF UnsetFound, UnsetCount
<1>3. i \in Occupied
  BY <1>1, FoundAtIsKey, DictAssumption DEF Occupied
<1>4. Occupied' = Occupied \ {i}
  BY <1>1, <1>2 DEF Occupied, Slots, IInv, TypeOK
<1>5. Cardinality(Occupied') = Cardinality(Occupied) - 1
  BY <1>3, <1>4, SlotsFinite, FS_RemoveElement DEF IInv
<1>6. Cardinality(Occupied') \in Nat
  BY <1>4, SlotsFinite, FS_Subset, FS_CardinalityType DEF IInv
<1>7. Counted' /\ n' \in 0 .. size
  BY <1>2, <1>5, <1>6, SlotsFinite DEF Counted, IInv, TypeOK
<1>8. TypeOK'
  BY <1>1, <1>2, <1>7 DEF IInv, TypeOK, Slots, KeyOrNull, ValOrNull
<1>9. HashCached' /\ UniqueKeys'
  BY <1>1, <1>4 DEF IInv, TypeOK, HashCached, UniqueKeys, Occupied
<1> QED
  BY <1>7, <1>8, <1>9 DEF IInv

\* The invariant holds at the start.
LEMMA InitIInv == Init => IInv
<1> SUFFICES ASSUME Init PROVE IInv
  OBVIOUS
<1>1. Occupied = {}
  BY DEF Init, Occupied, Slots
<1>2. TypeOK
  BY DictAssumption DEF Init, TypeOK, Slots, KeyOrNull, ValOrNull
<1>3. Counted
  BY <1>1, FS_EmptySet DEF Init, Counted
<1> QED
  BY <1>1, <1>2, <1>3 DEF IInv, HashCached, UniqueKeys

\* Every call keeps it.
LEMMA NextIInv == IInv /\ [Next]_vars => IInv'
<1> SUFFICES ASSUME IInv, [Next]_vars PROVE IInv'
  OBVIOUS
<1>1. ASSUME UNCHANGED <<key, val, hash, size, n>>,
             status' \in {"none", "live", "nokeys", "freed", "crashed"}
      PROVE  IInv'
  BY <1>1 DEF IInv, TypeOK, HashCached, UniqueKeys, Counted, Occupied, Slots
<1>2. ASSUME NEW k \in Keys, NEW v \in ValOrNull, SetReplace(k, v)
      PROVE  IInv'
  <2>1. PICK i \in Slots, c \in Dup(v) : val' = [val EXCEPT ![i] = c]
    BY <1>2 DEF SetReplace
  <2>2. c \in ValOrNull
    BY DEF Dup, ValOrNull
  <2>3. UNCHANGED <<status, key, hash, size, n>>
    BY <1>2 DEF SetReplace
  <2> QED
    BY <2>1, <2>2, <2>3
       DEF IInv, TypeOK, HashCached, UniqueKeys, Counted, Occupied, Slots
<1>3. ASSUME NEW k \in Keys, NEW v \in ValOrNull, SetGrowFails(k, v)
      PROVE  IInv'
  BY <1>1, <1>3 DEF SetGrowFails
<1>4. CASE New \/ UseNoKeys \/ Del \/ UNCHANGED vars
  BY <1>1, <1>4 DEF New, UseNoKeys, Del, vars, IInv, TypeOK
<1>5. ASSUME NEW k \in Keys, UnsetMissing(k) \/ Get(k) PROVE IInv'
  BY <1>1, <1>5 DEF UnsetMissing, Get, IInv, TypeOK
<1> QED
  BY <1>2, <1>3, <1>4, <1>5, InsertKeeps, GrowKeeps, UnsetKeeps DEF Next, Over

\* The slots, the cached hashes and the count fit together after every call.
THEOREM Inductive == Spec => []IInv
  BY InitIInv, NextIInv, PTL DEF Spec

\* Every variable keeps its type; in particular the unsigned n never passes
\* below zero.
THEOREM TypeCorrect == Spec => []TypeOK
<1>1. IInv => TypeOK
  BY DEF IInv
<1> QED
  BY Inductive, <1>1, PTL

\* No key is in two slots, whatever the holes and the collisions.
THEOREM KeysUnique == Spec => []UniqueKeys
<1>1. IInv => UniqueKeys
  BY DEF IInv
<1> QED
  BY Inductive, <1>1, PTL

\* The probe loop of dictionary_set ends: whenever n < size some slot is
\* empty, even after xstrdup has failed.
THEOREM ProbeEnds == Spec => []ProbeTerminates
<1>1. IInv => ProbeTerminates
  <2> SUFFICES ASSUME IInv, n < size, \A i \in Slots : key[i] # NULL
               PROVE  FALSE
    BY DEF ProbeTerminates
  <2>1. Occupied = Slots
    BY DEF Occupied
  <2> QED
    BY <2>1, SlotsFinite DEF IInv, TypeOK, Counted
<1> QED
  BY Inductive, <1>1, PTL

-----------------------------------------------------------------------------
(* The arrays implement the map.                                           *)

\* dictionary_get returns the value beside the key, or def.
LEMMA LookupIs ==
    ASSUME IInv, NEW k \in Keys
    PROVE  /\ \A i \in Slots : key[i] = k => Lookup(k) = val[i]
           /\ (\A i \in Slots : key[i] # k) => Lookup(k) = ABSENT
<1>1. ASSUME NEW i \in Slots, key[i] = k PROVE Lookup(k) = val[i]
  <2>1. ~NotFound(k)
    BY <1>1, MatchesIsKey DEF NotFound
  <2>2. FoundAt(i, k)
    BY <1>1, FoundAtIsKey
  <2>3. \A j \in Slots : FoundAt(j, k) => j = i
    BY <1>1, FoundAtIsKey, DictAssumption DEF IInv, UniqueKeys, Occupied
  <2>4. (CHOOSE j \in Slots : FoundAt(j, k)) = i
    BY <2>2, <2>3
  <2> QED
    BY <2>1, <2>4 DEF Lookup
<1>2. ASSUME \A i \in Slots : key[i] # k PROVE Lookup(k) = ABSENT
  BY <1>2, MatchesIsKey DEF NotFound, Lookup
<1> QED
  BY <1>1, <1>2

\* The same after a step.
LEMMA LookupIsNext ==
    ASSUME IInv', NEW k \in Keys
    PROVE  /\ \A i \in Slots' : key'[i] = k => Lookup(k)' = val'[i]
           /\ (\A i \in Slots' : key'[i] # k) => Lookup(k)' = ABSENT
<1>1. (IInv => /\ \A i \in Slots : key[i] = k => Lookup(k) = val[i]
               /\ (\A i \in Slots : key[i] # k) => Lookup(k) = ABSENT)'
  BY LookupIs, PTL
<1> QED
  BY <1>1

\* The step of the map that a step of the dictionary makes on key k.
Becomes(k, v) ==
    \A j \in Keys : Lookup(j)' = IF j = k THEN v ELSE Lookup(j)

LookupKept == \A j \in Keys : Lookup(j)' = Lookup(j)

\* Storing a new key gives it its value and leaves the others alone, in the
\* dictionary's own arrays as in the doubled ones.
LEMMA StoreSets ==
    ASSUME ~DupMayFail, IInv, IInv',
           NEW keys, NEW vals, NEW hashes, NEW sz \in Nat \ {0},
           NEW k \in Keys, NEW v \in ValOrNull,
           size <= sz,
           keys \in [0 .. (sz - 1) -> KeyOrNull],
           vals \in [0 .. (sz - 1) -> ValOrNull],
           \A i \in Slots : keys[i] = key[i] /\ vals[i] = val[i],
           \A i \in 0 .. (sz - 1) : i \notin Slots => keys[i] = NULL,
           \A i \in Slots : key[i] # k,
           Store(keys, vals, hashes, sz, k, v)
    PROVE  Becomes(k, v)
<1>1. PICK i \in 0 .. (sz - 1) :
         /\ keys[i] = NULL
         /\ key' = [keys EXCEPT ![i] = k]
         /\ val' = [vals EXCEPT ![i] = v]
  BY DEF Store, Probe, Dup
<1>2. Slots' = 0 .. (sz - 1) /\ Slots \subseteq Slots'
  BY DEF Store, Slots, IInv, TypeOK
<1>3. Lookup(k)' = v
  BY <1>1, <1>2, LookupIsNext
<1>4. ASSUME NEW j \in Keys, j # k PROVE Lookup(j)' = Lookup(j)
  <2>1. CASE \E m \in Slots : key[m] = j
    <3>1. PICK m \in Slots : key[m] = j
      BY <2>1
    <3>2. m # i /\ key'[m] = j /\ val'[m] = val[m]
      BY <1>1, <1>2, <3>1, DictAssumption
    <3>3. Lookup(j) = val[m]
      BY <3>1, LookupIs
    <3>4. Lookup(j)' = val'[m]
      BY <1>2, <3>1, <3>2, LookupIsNext
    <3> QED
      BY <3>2, <3>3, <3>4
  <2>2. CASE \A m \in Slots : key[m] # j
    <3>1. \A m \in Slots' : key'[m] # j
      BY <1>1, <1>2, <1>4, <2>2, DictAssumption
    <3>2. Lookup(j)' = ABSENT
      BY <3>1, LookupIsNext
    <3>3. Lookup(j) = ABSENT
      BY <2>2, LookupIs
    <3> QED
      BY <3>2, <3>3
  <2> QED
    BY <2>1, <2>2
<1> QED
  BY <1>3, <1>4 DEF Becomes

\* A step that leaves the arrays alone leaves the map alone.
LEMMA SameArrays ==
    ASSUME UNCHANGED <<key, val, hash, size>>
    PROVE  LookupKept
  BY DEF LookupKept, Lookup, NotFound, FoundAt, Matches, Slots

\* dictionary_set, by each of its ways to success.
LEMMA SetIsMapSet ==
    ASSUME ~DupMayFail, IInv, IInv', NEW k \in Keys, NEW v \in ValOrNull,
           SetReplace(k, v) \/ SetInsert(k, v) \/ SetGrow(k, v)
    PROVE  Becomes(k, v)
<1>1. CASE SetReplace(k, v)
  <2>1. PICK i \in Slots : key[i] = k /\ val' = [val EXCEPT ![i] = v]
    BY <1>1, FoundAtIsKey DEF SetReplace, Dup
  <2>2. key' = key /\ Slots' = Slots
    BY <1>1 DEF SetReplace, Slots
  <2>3. Lookup(k)' = v
    BY <2>1, <2>2, LookupIsNext DEF IInv, TypeOK
  <2>4. ASSUME NEW j \in Keys, j # k PROVE Lookup(j)' = Lookup(j)
    BY <2>1, <2>2, <2>4, LookupIs, LookupIsNext DEF IInv, TypeOK
  <2> QED
    BY <2>3, <2>4 DEF Becomes
<1>2. CASE SetInsert(k, v)
  <2>1. \A i \in Slots : key[i] # k
    BY <1>2, InsertsNewKey DEF SetInsert
  <2>2. Store(key, val, hash, size, k, v)
    BY <1>2 DEF SetInsert
  <2>3. /\ size \in Nat \ {0} /\ size <= size
        /\ key \in [0 .. (size - 1) -> KeyOrNull]
        /\ val \in [0 .. (size - 1) -> ValOrNull]
        /\ \A i \in 0 .. (size - 1) : i \notin Slots => key[i] = NULL
    BY DEF IInv, TypeOK, Slots
  <2> QED
    BY <2>1, <2>2, <2>3, StoreSets
<1>3. CASE SetGrow(k, v)
  <2> DEFINE keys == Doubled(key, NULL)
             vals == Doubled(val, NULL)
             sz == 2 * size
  <2>1. \A i \in Slots : key[i] # k
    BY <1>3, InsertsNewKey DEF SetGrow
  <2>2. sz \in Nat \ {0} /\ size <= sz
    BY DEF IInv, TypeOK
  <2>3. /\ keys \in [0 .. (sz - 1) -> KeyOrNull]
        /\ vals \in [0 .. (sz - 1) -> ValOrNull]
    BY DEF Doubled, IInv, TypeOK, Slots, KeyOrNull, ValOrNull
  <2>4. /\ \A i \in Slots : keys[i] = key[i] /\ vals[i] = val[i]
        /\ \A i \in 0 .. (sz - 1) : i \notin Slots => keys[i] = NULL
    BY DEF Doubled, Slots, IInv, TypeOK
  <2>5. Store(keys, vals, Doubled(hash, 0), sz, k, v)
    BY <1>3 DEF SetGrow
  <2> HIDE DEF keys, vals, sz
  <2> QED
    BY <2>1, <2>2, <2>3, <2>4, <2>5, StoreSets
<1> QED
  BY <1>1, <1>2, <1>3

\* dictionary_unset of a key that is there.
LEMMA UnsetIsMapUnset ==
    ASSUME IInv, IInv', NEW k \in Keys, UnsetFound(k)
    PROVE  Becomes(k, ABSENT)
<1>1. PICK i \in Slots : /\ key[i] = k
                         /\ key' = [key EXCEPT ![i] = NULL]
                         /\ val' = [val EXCEPT ![i] = NULL]
  BY FoundAtIsKey DEF UnsetFound
<1>2. Slots' = Slots
  BY DEF UnsetFound, Slots
<1>3. \A m \in Slots : key[m] = k => m = i
  BY <1>1, DictAssumption DEF IInv, UniqueKeys, Occupied
<1>4. Lookup(k)' = ABSENT
  BY <1>1, <1>2, <1>3, LookupIsNext, DictAssumption DEF IInv, TypeOK
<1>5. ASSUME NEW j \in Keys, j # k PROVE Lookup(j)' = Lookup(j)
  BY <1>1, <1>2, <1>5, LookupIs, LookupIsNext, DictAssumption DEF IInv, TypeOK
<1> QED
  BY <1>4, <1>5 DEF Becomes

-----------------------------------------------------------------------------
\* While xstrdup does not fail, the dictionary implements the map, for every
\* hash function, size and mix of calls, doublings that fail included.
THEOREM Refinement == ASSUME ~DupMayFail PROVE Spec => ImplementsMap
<1> DEFINE map == [k \in Keys |-> Lookup(k)]
<1>1. Init => Map!MapInit
  <2> SUFFICES ASSUME Init PROVE Map!MapInit
    OBVIOUS
  <2>1. \A i \in Slots : key[i] = NULL
    BY DEF Init
  <2>2. \A k \in Keys : Lookup(k) = ABSENT
    BY <2>1, InitIInv, LookupIs, DictAssumption
  <2> QED
    BY <2>2 DEF Init, Map!MapInit
<1>2. IInv /\ IInv' /\ [Next]_vars => [Map!MapNext]_<<map, res>>
  <2> SUFFICES ASSUME IInv, IInv', [Next]_vars
               PROVE  Map!MapNext \/ UNCHANGED <<map, res>>
    OBVIOUS
  <2>1. ASSUME LookupKept PROVE map' = map
    BY <2>1 DEF LookupKept
  <2>2. ASSUME NEW k \in Keys, NEW v, Becomes(k, v)
        PROVE  map' = [map EXCEPT ![k] = v]
    BY <2>2 DEF Becomes
  <2>3. ASSUME NEW k \in Keys, NEW v \in ValOrNull,
               SetReplace(k, v) \/ SetInsert(k, v) \/ SetGrow(k, v)
        PROVE  Map!MapNext
    <3>1. map' = [map EXCEPT ![k] = v]
      BY <2>2, <2>3, SetIsMapSet
    <3>2. res' = [op |-> "set", key |-> k, val |-> v, ret |-> 0]
      BY <2>3 DEF SetReplace, SetInsert, SetGrow, Store, Answer
    <3>3. Map!MapSet(k, v)
      BY <3>1, <3>2 DEF Map!MapSet
    <3> QED
      BY <3>3 DEF Map!MapNext, Map!MapSetNull, ValOrNull
  <2>4. ASSUME NEW k \in Keys, NEW v \in ValOrNull, SetGrowFails(k, v)
        PROVE  Map!MapNext
    <3>1. map' = map
      BY <2>1, <2>4, SameArrays DEF SetGrowFails
    <3>2. Map!MapSetRefused(k, v)
      BY <2>4, <3>1 DEF SetGrowFails, Answer, Map!MapSetRefused
    <3> QED
      BY <3>2 DEF Map!MapNext, ValOrNull
  <2>5. ASSUME NEW k \in Keys, UnsetFound(k) PROVE Map!MapNext
    <3>1. map' = [map EXCEPT ![k] = ABSENT]
      BY <2>2, <2>5, UnsetIsMapUnset
    <3>2. Map!MapUnset(k)
      BY <2>5, <3>1 DEF UnsetFound, Map!MapUnset
    <3> QED
      BY <3>2 DEF Map!MapNext
  <2>6. ASSUME NEW k \in Keys, UnsetMissing(k) PROVE Map!MapNext
    <3>1. map' = map
      BY <2>1, <2>6, SameArrays DEF UnsetMissing
    <3>2. Lookup(k) = ABSENT
      BY <2>6 DEF UnsetMissing, Lookup
    <3>3. map' = [map EXCEPT ![k] = ABSENT]
      BY <3>1, <3>2
    <3>4. Map!MapUnset(k)
      BY <2>6, <3>3 DEF UnsetMissing, Map!MapUnset
    <3> QED
      BY <3>4 DEF Map!MapNext
  <2>7. ASSUME NEW k \in Keys, Get(k) PROVE Map!MapNext
    <3>1. map' = map
      BY <2>1, <2>7, SameArrays DEF Get
    <3>2. Map!MapGet(k)
      BY <2>7, <3>1 DEF Get, Map!MapGet
    <3> QED
      BY <3>2 DEF Map!MapNext
  <2>8. CASE New \/ UseNoKeys \/ Del \/ UNCHANGED vars
    BY <2>1, <2>8, SameArrays DEF New, UseNoKeys, Del, vars
  <2> QED
    BY <2>3, <2>4, <2>5, <2>6, <2>7, <2>8 DEF Next, Over
<1> QED
  BY Inductive, <1>1, <1>2, PTL DEF Spec, ImplementsMap, Map!MapSpec
-----------------------------------------------------------------------------
(* The loader.  A line that begins an entry and the lines joined to it are *)
(* the entry (i, e); what the entry says does not depend on what follows.  *)

Begins(i) == i = 1 \/ ~file[i - 1].cont

\* Lines i to e belong together as far as they have been read ...
Joins(i, e) == i <= e /\ Begins(i) /\ \A j \in i .. (e - 1) : file[j].cont

\* ... and are the whole entry.
Entry(i, e) == Joins(i, e) /\ ~file[e].cont

Commented(i, e) == \E c \in (i + 1) .. e : file[c].form = "comment"

More(i, e) ==
    {j \in (i + 1) .. e : /\ file[j].form # "empty"
                          /\ \A c \in (i + 1) .. j : file[c].form # "comment"}

\* The line buffer after lines i to e.
Buffer(i, e) ==
    [form |-> IF file[i].form = "value" /\ Commented(i, e) THEN "commented"
              ELSE file[i].form,
     name |-> file[i].name,
     text |-> IF file[i].form = "value" /\ More(i, e) # {} THEN JOINED
              ELSE file[i].text,
     cont |-> file[e].cont]

\* The section headers before line i, and the section that line i is in.
Heads(i) == {j \in 1 .. (i - 1) : Begins(j) /\ file[j].form = "section"}

SectionAt(i) == IF Heads(i) = {} THEN "" ELSE Lower[file[Max(Heads(i))].name]

EntryKey(i) ==
    IF file[i].form = "section" THEN <<Lower[file[i].name]>>
    ELSE <<SectionAt(i), Lower[file[i].name]>>

EntryValue(i, e) ==
    IF file[i].form = "section" THEN NULL ELSE LineValue(Buffer(i, e))

\* The number of lines whose entries are in the dictionary: a failed
\* dictionary_set leaves the last one out.
Held == IF memErr THEN pos - 1 ELSE pos

\* Line i begins an entry that is complete after p lines.
Complete(i, p) == i \in 1 .. p /\ Begins(i) /\ \E j \in i .. p : ~file[j].cont

Gives(k, i, p) ==
    /\ Complete(i, p)
    /\ file[i].form \in {"section", "value", "quoted"}
    /\ EntryKey(i) = k

\* Where the loop is: the buffer holds the lines of the entry read so far, the
\* section buffer the section of that entry and every error has been noted,
\* unless a line that could not be copied was taken for an empty one.
Positions ==
    /\ file \in Files /\ pos \in 0 .. Len(file) /\ section \in SectionsOf(file)
    /\ {errs, memErr} \subseteq BOOLEAN
    /\ memErr => pos > 0

NoLong == \A i \in 1 .. pos : file[i].form # "long"

BufferHolds ==
    IF line = NoLine
    THEN pos = 0 \/ ~file[pos].cont
    ELSE \E i \in 1 .. pos : Joins(i, pos) /\ file[pos].cont /\ line = Buffer(i, pos)

SectionHolds ==
    (~memErr /\ ~DupMayFail) =>
        \A i \in 1 .. (pos + 1) : Joins(i, pos + 1) => section = SectionAt(i)

ErrorsNoted ==
    ~DupMayFail =>
        (errs <=> \E i \in 1 .. Held : Complete(i, Held) /\ file[i].form = "error")

ReadInv ==
    /\ phase \in {"start", "loading", "returned", "refused", "app"}
    /\ phase = "start" =>
          /\ file \in Files /\ pos = 0 /\ section = "" /\ line = NoLine
          /\ errs = FALSE /\ memErr = FALSE
    /\ phase = "loading" =>
          Positions /\ NoLong /\ BufferHolds /\ SectionHolds /\ ErrorsNoted

\* What the first p lines say of a key: the value of the last complete entry
\* that gives it.
LastGiven(k, i, p) == Gives(k, i, p) /\ \A j \in 1 .. p : Gives(k, j, p) => j <= i

Means(k, v, p) ==
    \/ v = ABSENT /\ \A i \in 1 .. p : ~Gives(k, i, p)
    \/ \E i, e \in 1 .. p :
          LastGiven(k, i, p) /\ Entry(i, e) /\ v = EntryValue(i, e)

\* The dictionary holds what the lines say.
LoadInv ==
    /\ phase = "start" => status = "none" /\ \A k \in Keys : Lookup(k) = ABSENT
    /\ phase = "loading" => \A k \in Keys : Means(k, Lookup(k), Held)
    /\ LoadedIsFile

-----------------------------------------------------------------------------
\* The lines of a file are lines.
LEMMA Lines ==
    ASSUME file \in Files
    PROVE  /\ Len(file) \in Nat /\ DOMAIN file = 1 .. Len(file)
           /\ \A i \in 1 .. Len(file) : file[i] \in FileLine
  BY FilesAssumption

\* The buffer after one line is that line.
LEMMA BufferFirst ==
    ASSUME file \in Files, NEW i \in 1 .. Len(file)
    PROVE  Buffer(i, i) = file[i]
<1>1. ~Commented(i, i) /\ More(i, i) = {}
  BY DEF Commented, More
<1>2. Buffer(i, i) = [form |-> file[i].form, name |-> file[i].name,
                      text |-> file[i].text, cont |-> file[i].cont]
  BY <1>1 DEF Buffer
<1>3. file[i] \in FileLine
  BY Lines
<1> QED
  BY <1>2, <1>3 DEF FileLine

\* Appending a line gives the buffer after one line more.
LEMMA BufferExtends ==
    ASSUME file \in Files, NEW e \in 1 .. (Len(file) - 1), NEW i \in 1 .. e
    PROVE  Extend(Buffer(i, e), file[e + 1]) = Buffer(i, e + 1)
<1> DEFINE next == file[e + 1]
           b == Buffer(i, e)
<1>1. i \in Int /\ e \in Int /\ i <= e
  BY Lines
<1>2. /\ b.form = IF file[i].form = "value" /\ Commented(i, e) THEN "commented"
                  ELSE file[i].form
      /\ b.text = IF file[i].form = "value" /\ More(i, e) # {} THEN JOINED
                  ELSE file[i].text
  BY DEF Buffer
<1>3. Commented(i, e + 1) <=> Commented(i, e) \/ next.form = "comment"
  BY <1>1 DEF Commented
<1>4. More(i, e + 1) = IF next.form # "empty" /\ next.form # "comment" /\ ~Commented(i, e)
                       THEN More(i, e) \cup {e + 1} ELSE More(i, e)
  <2>1. \A j : j \in (i + 1) .. (e + 1) <=> j \in (i + 1) .. e \/ j = e + 1
    BY <1>1
  <2>2. e + 1 \in More(i, e + 1) <=>
           next.form # "empty" /\ next.form # "comment" /\ ~Commented(i, e)
    BY <2>1 DEF More, Commented
  <2>3. \A j \in (i + 1) .. e : j \in More(i, e + 1) <=> j \in More(i, e)
    BY <1>1, <2>1 DEF More
  <2>4. \A j \in More(i, e + 1) : j \in (i + 1) .. e \/ j = e + 1
    BY <2>1 DEF More
  <2>5. \A j \in More(i, e) : j \in (i + 1) .. e
    BY DEF More
  <2>6. CASE next.form # "empty" /\ next.form # "comment" /\ ~Commented(i, e)
    <3>1. More(i, e + 1) = More(i, e) \cup {e + 1}
      BY <2>2, <2>3, <2>4, <2>5, <2>6
    <3> QED
      BY <3>1, <2>6
  <2>7. CASE ~(next.form # "empty" /\ next.form # "comment" /\ ~Commented(i, e))
    <3>1. More(i, e + 1) = More(i, e)
      BY <2>2, <2>3, <2>4, <2>5, <2>7
    <3> QED
      BY <3>1, <2>7
  <2> QED
    BY <2>6, <2>7
<1>6. b.name = file[i].name
  BY DEF Buffer
<1>7. Buffer(i, e + 1) =
         [form |-> IF file[i].form = "value" /\ Commented(i, e + 1) THEN "commented"
                   ELSE file[i].form,
          name |-> file[i].name,
          text |-> IF file[i].form = "value" /\ More(i, e + 1) # {} THEN JOINED
                   ELSE file[i].text,
          cont |-> next.cont]
  BY DEF Buffer
<1> SUFFICES Extend(b, next) = Buffer(i, e + 1)
  OBVIOUS
<1> HIDE DEF b, next
<1>8. Extend(b, next) =
         IF next.form = "empty" \/ b.form # "value" THEN Line(b.form, b.name, b.text, next.cont)
         ELSE IF next.form = "comment" THEN Line("commented", b.name, b.text, next.cont)
         ELSE Line("value", b.name, JOINED, next.cont)
  BY DEF Extend
<1>9. CASE file[i].form # "value"
  BY <1>2, <1>6, <1>7, <1>8, <1>9 DEF Line
<1>10. CASE file[i].form = "value" /\ Commented(i, e)
  <2>1. b.form = "commented" /\ More(i, e + 1) = More(i, e) /\ Commented(i, e + 1)
    BY <1>2, <1>3, <1>4, <1>10
  <2> QED
    BY <1>2, <1>6, <1>7, <1>8, <1>10, <2>1 DEF Line
<1>11. CASE file[i].form = "value" /\ ~Commented(i, e)
  <2>1. b.form = "value"
    BY <1>2, <1>11
  <2>2. CASE next.form = "empty"
    <3>1. More(i, e + 1) = More(i, e) /\ ~Commented(i, e + 1)
      BY <1>3, <1>4, <1>11, <2>2
    <3> QED
      BY <1>2, <1>6, <1>7, <1>8, <1>11, <2>1, <2>2, <3>1 DEF Line
  <2>3. CASE next.form = "comment"
    <3>1. More(i, e + 1) = More(i, e) /\ Commented(i, e + 1)
      BY <1>3, <1>4, <1>11, <2>3
    <3> QED
      BY <1>2, <1>6, <1>7, <1>8, <1>11, <2>1, <2>3, <3>1 DEF Line
  <2>4. CASE next.form \notin {"empty", "comment"}
    <3>1. More(i, e + 1) # {} /\ ~Commented(i, e + 1)
      BY <1>3, <1>4, <1>11, <2>4
    <3> QED
      BY <1>2, <1>6, <1>7, <1>8, <1>11, <2>1, <2>4, <3>1 DEF Line
  <2> QED
    BY <2>2, <2>3, <2>4
<1> QED
  BY <1>9, <1>10, <1>11

\* The line the loop works on is the buffer of the entry it belongs to.
LEMMA GotIs ==
    ASSUME Positions, BufferHolds, pos < Len(file)
    PROVE  \E i \in 1 .. (pos + 1) : Joins(i, pos + 1) /\ Got = Buffer(i, pos + 1)
<1>1. file \in Files /\ pos \in Nat /\ Len(file) \in Nat
  BY Lines DEF Positions
<1>2. CASE line = NoLine
  <2>1. Joins(pos + 1, pos + 1)
    BY <1>1, <1>2 DEF BufferHolds, Joins, Begins
  <2>2. Got = Buffer(pos + 1, pos + 1)
    BY <1>1, <1>2, BufferFirst DEF Got
  <2> QED
    BY <1>1, <2>1, <2>2
<1>3. CASE line # NoLine
  <2>1. PICK i \in 1 .. pos : Joins(i, pos) /\ file[pos].cont /\ line = Buffer(i, pos)
    BY <1>3 DEF BufferHolds
  <2>2. Joins(i, pos + 1)
    BY <1>1, <2>1 DEF Joins
  <2>3. Got = Buffer(i, pos + 1)
    BY <1>1, <1>3, <2>1, BufferExtends DEF Got
  <2> QED
    BY <1>1, <2>1, <2>2, <2>3
<1> QED
  BY <1>2, <1>3

\* A buffer holds what Keys and Vals have room for.
LEMMA BufferStorable ==
    ASSUME file \in Files, NEW e \in 1 .. Len(file), NEW i \in 1 .. e
    PROVE  LET l == Buffer(i, e)
           IN /\ l.form = "section" => <<Lower[l.name]>> \in Keys
              /\ IsValue(l) => /\ LineValues(l) \subseteq Vals
                              /\ \A s \in SectionsOf(file) : <<s, Lower[l.name]>> \in Keys
<1> DEFINE l == Buffer(i, e)
<1>1. i \in 1 .. Len(file) /\ file[i] \in FileLine
  BY Lines
<1>2. /\ file[i].form = "section" => <<Lower[file[i].name]>> \in Keys
      /\ IsValue(file[i]) => /\ LineValues(file[i]) \subseteq Vals
                            /\ \A s \in SectionsOf(file) : <<s, Lower[file[i].name]>> \in Keys
  BY <1>1, Lines, FilesAssumption
<1>3. /\ l.name = file[i].name
      /\ l.form = IF file[i].form = "value" /\ Commented(i, e) THEN "commented"
                  ELSE file[i].form
      /\ l.text = IF file[i].form = "value" /\ More(i, e) # {} THEN JOINED
                  ELSE file[i].text
  BY DEF Buffer
<1> HIDE DEF l
<1>4. file[i].form # "commented"
  BY <1>1 DEF FileLine
<1>5. IsValue(l) => IsValue(file[i])
  BY <1>3 DEF IsValue
<1>6. IsValue(l) => LineValues(l) \subseteq Vals
  <2>1. CASE file[i].form = "value"
    <3>1. file[i].text \in Vals
      BY <1>2, <2>1 DEF IsValue, LineValues, LineValue
    <3>2. l.text \in Vals /\ l.form # "quoted"
      BY <1>3, <2>1, <3>1, IniAssumption
    <3> QED
      BY <3>2 DEF LineValues, LineValue
  <2>2. CASE file[i].form # "value"
    <3>1. l.form = file[i].form /\ l.text = file[i].text
      BY <1>3, <2>2
    <3>2. LineValues(l) = LineValues(file[i])
      BY <3>1 DEF LineValues, LineValue
    <3> QED
      BY <1>2, <1>5, <3>2
  <2> QED
    BY <2>1, <2>2
<1>7. l.form = "section" => file[i].form = "section"
  BY <1>3
<1>8. /\ l.form = "section" => <<Lower[l.name]>> \in Keys
      /\ IsValue(l) => \A s \in SectionsOf(file) : <<s, Lower[l.name]>> \in Keys
  BY <1>2, <1>3, <1>5, <1>7
<1> QED
  BY <1>6, <1>8 DEF l

\* The greatest element is the maximum, the least the minimum.
LEMMA MaxIs ==
    ASSUME NEW S \in SUBSET Int, NEW m \in S, \A y \in S : y <= m
    PROVE  Max(S) = m
<1>1. \A x \in S : (\A y \in S : x >= y) => x = m
  OBVIOUS
<1>2. \A y \in S : m >= y
  OBVIOUS
<1>3. (CHOOSE x \in S : \A y \in S : x >= y) = m
  BY <1>1, <1>2
<1> QED
  BY <1>3 DEF Max

LEMMA MinIs ==
    ASSUME NEW S \in SUBSET Int, NEW m \in S, \A y \in S : m <= y
    PROVE  Min(S) = m
<1>1. \A x \in S : (\A y \in S : x <= y) => x = m
  OBVIOUS
<1>2. (CHOOSE x \in S : \A y \in S : x <= y) = m
  BY <1>1
<1> QED
  BY <1>2 DEF Min

\* A line belongs to one entry only.
LEMMA JoinsUnique ==
    ASSUME NEW e \in Nat, NEW i \in 1 .. e, NEW j \in 1 .. e, Joins(i, e), Joins(j, e)
    PROVE  i = j
<1>1. ASSUME NEW a \in 1 .. e, NEW b \in 1 .. e, Joins(a, e), Joins(b, e), a < b
      PROVE  FALSE
  <2>1. b - 1 \in a .. (e - 1) /\ b # 1
    BY <1>1
  <2> QED
    BY <1>1, <2>1 DEF Joins, Begins
<1> QED
  BY <1>1

\* A continued line completes nothing; one that is not continued completes the
\* entry it belongs to, which began after all the others.
LEMMA CompleteSame ==
    ASSUME NEW p \in Nat, file[p + 1].cont, NEW i
    PROVE  Complete(i, p + 1) <=> Complete(i, p)
  BY DEF Complete

LEMMA CompleteOne ==
    ASSUME NEW p \in Nat, NEW s \in 1 .. (p + 1), Entry(s, p + 1), NEW i
    PROVE  /\ Complete(i, p + 1) <=> Complete(i, p) \/ i = s
           /\ Complete(i, p) => i < s
<1>1. ASSUME Complete(i, p) PROVE i < s /\ Complete(i, p + 1)
  <2>1. PICK j \in i .. p : ~file[j].cont
    BY <1>1 DEF Complete
  <2>2. i \in 1 .. p
    BY <1>1 DEF Complete
  <2>3. ~(j \in s .. p)
    BY <2>1 DEF Entry, Joins
  <2>4. j < s
    BY <2>1, <2>2, <2>3
  <2> QED
    BY <1>1, <2>2, <2>4 DEF Complete
<1>2. Complete(s, p + 1)
  BY DEF Complete, Entry, Joins
<1>3. ASSUME Complete(i, p + 1), ~Complete(i, p) PROVE i = s
  <2>1. i \in 1 .. (p + 1) /\ Begins(i)
    BY <1>3 DEF Complete
  <2>2. \A j \in i .. p : file[j].cont
    <3>1. CASE i = p + 1
      BY <3>1
    <3>2. CASE i \in 1 .. p
      BY <1>3, <2>1, <3>2 DEF Complete
    <3> QED
      BY <2>1, <3>1, <3>2
  <2>3. Joins(i, p + 1)
    BY <2>1, <2>2 DEF Joins
  <2> QED
    BY <2>1, <2>3, JoinsUnique DEF Entry
<1> QED
  BY <1>1, <1>2, <1>3

\* After an entry the section is that of the entry, or the one it opens.
LEMMA SectionNext ==
    ASSUME NEW p \in Nat, NEW s \in 1 .. p, Entry(s, p)
    PROVE  SectionAt(p + 1) = IF file[s].form = "section" THEN Lower[file[s].name]
                              ELSE SectionAt(s)
<1>1. ASSUME NEW j \in (s + 1) .. p PROVE ~Begins(j)
  <2>1. j - 1 \in s .. (p - 1) /\ j # 1
    BY <1>1
  <2> QED
    BY <2>1 DEF Begins, Entry, Joins
<1>2. \A j : j \in 1 .. p <=> j \in 1 .. (s - 1) \/ j = s \/ j \in (s + 1) .. p
  OBVIOUS
<1>3. Begins(s)
  BY DEF Entry, Joins
<1>4. CASE file[s].form = "section"
  <2>1. Heads(p + 1) = Heads(s) \cup {s}
    BY <1>1, <1>2, <1>3, <1>4 DEF Heads
  <2>2. \A j \in Heads(p + 1) : j \in Int /\ j <= s
    BY <2>1 DEF Heads
  <2>3. Max(Heads(p + 1)) = s
    BY <2>1, <2>2, MaxIs
  <2> QED
    BY <1>4, <2>1, <2>3 DEF SectionAt
<1>5. CASE file[s].form # "section"
  <2>1. Heads(p + 1) = Heads(s)
    BY <1>1, <1>2, <1>5 DEF Heads
  <2> QED
    BY <1>5, <2>1 DEF SectionAt
<1> QED
  BY <1>4, <1>5

\* What the lines say does not change while they are read.
LEMMA SameFile ==
    ASSUME file' = file
    PROVE  /\ \A i : Begins(i)' <=> Begins(i)
           /\ \A i, e : Joins(i, e)' <=> Joins(i, e)
           /\ \A i, e : Entry(i, e)' <=> Entry(i, e)
           /\ \A i, e : Buffer(i, e)' = Buffer(i, e)
           /\ \A i : SectionAt(i)' = SectionAt(i)
           /\ \A i, p : Complete(i, p)' <=> Complete(i, p)
<1>1. /\ \A i : Begins(i)' <=> Begins(i)
      /\ \A i, e : Joins(i, e)' <=> Joins(i, e)
      /\ \A i, e : Entry(i, e)' <=> Entry(i, e)
      /\ \A i, p : Complete(i, p)' <=> Complete(i, p)
  BY DEF Begins, Joins, Entry, Complete
<1>2. \A i, e : Buffer(i, e)' = Buffer(i, e)
  BY DEF Buffer, Commented, More
<1>3. \A i : Heads(i)' = Heads(i)
  BY DEF Heads, Begins
<1>4. \A i : SectionAt(i)' = SectionAt(i)
  BY <1>3 DEF SectionAt
<1> QED
  BY <1>1, <1>2, <1>4

\* The loop at the head, with the entry that the line it reads belongs to.
Reads(i) ==
    /\ phase = "loading" /\ Positions /\ NoLong /\ BufferHolds /\ SectionHolds /\ ErrorsNoted
    /\ pos < Len(file) /\ memErr = FALSE
    /\ i \in 1 .. (pos + 1) /\ Joins(i, pos + 1) /\ Got = Buffer(i, pos + 1)

LEMMA ReadsOne ==
    ASSUME ReadInv, NEW l, Reading(l)
    PROVE  \E i \in 1 .. (pos + 1) : Reads(i) /\ l = Buffer(i, pos + 1)
<1>1. /\ phase = "loading" /\ Positions /\ NoLong /\ BufferHolds /\ SectionHolds /\ ErrorsNoted
      /\ pos < Len(file) /\ memErr = FALSE /\ l = Got
  BY DEF ReadInv, Reading, Positions
<1>2. PICK i \in 1 .. (pos + 1) : Joins(i, pos + 1) /\ Got = Buffer(i, pos + 1)
  BY <1>1, GotIs
<1> QED
  BY <1>1, <1>2 DEF Reads

\* A continued line waits in the buffer.
LEMMA CarryKeeps ==
    ASSUME ReadInv, NEW l, Carry(l)
    PROVE  ReadInv'
<1>1. PICK i \in 1 .. (pos + 1) : Reads(i) /\ l = Buffer(i, pos + 1)
  BY ReadsOne DEF Carry
<1>2. /\ phase' = phase /\ file' = file /\ section' = section /\ errs' = errs
      /\ memErr' = memErr /\ pos' = pos + 1 /\ line' = l /\ l.cont
      /\ file[pos + 1].form # "long"
  BY DEF Carry, Reading
<1>3. /\ phase = "loading" /\ memErr = FALSE /\ file \in Files /\ pos \in Nat
      /\ Len(file) \in Nat /\ pos < Len(file) /\ Joins(i, pos + 1)
  BY <1>1, Lines DEF Reads, Positions
<1>4. file[pos + 1].cont
  BY <1>1, <1>2 DEF Buffer
<1>5. Positions'
  <2>1. section \in SectionsOf(file)' /\ errs \in BOOLEAN
    BY <1>1, <1>2 DEF Reads, Positions, SectionsOf
  <2>2. errs' \in BOOLEAN /\ memErr' \in BOOLEAN /\ ~memErr'
    BY <1>2, <1>3, <2>1
  <2>3. file' \in Files /\ pos' \in 0 .. Len(file') /\ section' \in SectionsOf(file)'
    BY <1>2, <1>3, <2>1
  <2> QED
    BY <2>2, <2>3 DEF Positions
<1>6. NoLong'
  BY <1>1, <1>2, <1>3 DEF Reads, NoLong
<1>7. BufferHolds'
  <2>2. l.form # "none"
    <3>1. file[i] \in FileLine
      BY <1>3, Lines
    <3>2. l.form \in {file[i].form, "commented"}
      BY <1>1 DEF Buffer
    <3> QED
      BY <3>1, <3>2 DEF FileLine
  <2>3. NoLine.form = "none"
    BY DEF NoLine
  <2>4. line' # NoLine
    BY <1>2, <2>2, <2>3
  <2>5. /\ i \in 1 .. pos' /\ line' = Buffer(i, pos') /\ Joins(i, pos')
        /\ file'[pos'].cont
    BY <1>1, <1>2, <1>3, <1>4
  <2> QED
    BY <1>2, <2>4, <2>5, SameFile DEF BufferHolds
<1>8. SectionHolds'
  <2> SUFFICES ASSUME ~DupMayFail, NEW j \in 1 .. (pos' + 1), Joins(j, pos' + 1)
               PROVE  section = SectionAt(j)
    BY <1>2, SameFile DEF SectionHolds
  <2>1. Joins(j, pos + 2)
    BY <1>2, <1>3
  <2>2. j # pos + 2
    BY <1>3, <1>4, <2>1 DEF Joins, Begins
  <2>3. j \in 1 .. (pos + 1) /\ Joins(j, pos + 1)
    BY <1>2, <1>3, <2>1, <2>2 DEF Joins
  <2> QED
    BY <1>1, <1>3, <2>3 DEF Reads, SectionHolds
<1>9. ErrorsNoted'
  <2> SUFFICES ASSUME ~DupMayFail PROVE ErrorsNoted'
    BY DEF ErrorsNoted
  <2>1. Held = pos /\ Held' = pos + 1
    BY <1>2, <1>3 DEF Held
  <2>2. \A j : Complete(j, pos + 1) <=> Complete(j, pos)
    BY <1>3, <1>4, CompleteSame
  <2>3. \A j : Complete(j, pos + 1) => j \in 1 .. pos
    BY <2>2 DEF Complete
  <2>4. errs' <=> \E j \in 1 .. (pos + 1) : Complete(j, pos + 1) /\ file[j].form = "error"
    BY <1>1, <1>2, <1>3, <2>1, <2>2, <2>3 DEF Reads, ErrorsNoted
  <2> QED
    BY <1>2, <2>1, <2>4, SameFile DEF ErrorsNoted
<1> QED
  BY <1>2, <1>3, <1>5, <1>6, <1>7, <1>8, <1>9 DEF ReadInv

\* What every action does that works on a whole line.
LEMMA WholeKeeps ==
    ASSUME ReadInv, NEW l, Reading(l), Whole(l), NEW i \in 1 .. (pos + 1), Reads(i),
           l = Buffer(i, pos + 1), phase' = phase, file' = file,
           memErr' \in BOOLEAN,
           section' = section \/ (l.form = "section" /\ section' = Lower[l.name]),
           ~DupMayFail =>
               section' = IF l.form = "section" THEN Lower[l.name] ELSE section,
           errs' \in BOOLEAN, memErr' => errs' = errs,
           (~DupMayFail /\ ~memErr') => (errs' <=> errs \/ l.form = "error")
    PROVE  ReadInv'
<1>1. /\ phase = "loading" /\ memErr = FALSE /\ file \in Files /\ pos \in Nat
      /\ Len(file) \in Nat /\ pos < Len(file) /\ Joins(i, pos + 1) /\ section \in SectionsOf(file)
  BY Lines DEF Reads, Positions
<1>2. pos' = pos + 1 /\ line' = NoLine /\ file[pos + 1].form # "long" /\ ~l.cont
  BY DEF Reading, Whole
<1>3. ~file[pos + 1].cont
  BY <1>2 DEF Buffer
<1>4. Entry(i, pos + 1)
  BY <1>1, <1>3 DEF Entry
<1>5. file[i] \in FileLine /\ i \in DOMAIN file
  BY <1>1, Lines
<1>6. /\ l.name = file[i].name
      /\ l.form \in {file[i].form, "commented"}
      /\ l.form = "commented" => file[i].form \in {"value", "commented"}
  BY DEF Buffer
<1>7. /\ l.form = "section" <=> file[i].form = "section"
      /\ l.form = "error" <=> file[i].form = "error"
  BY <1>6
<1>8. Positions'
  <2>1. section' \in SectionsOf(file)
    BY <1>1, <1>5, <1>6, <1>7 DEF SectionsOf
  <2>2. SectionsOf(file)' = SectionsOf(file)
    BY DEF SectionsOf
  <2> QED
    BY <1>1, <1>2, <2>1, <2>2 DEF Positions
<1>9. NoLong'
  BY <1>1, <1>2 DEF Reads, NoLong
<1>10. BufferHolds'
  BY <1>1, <1>2, <1>3 DEF BufferHolds, NoLine
<1>11. SectionHolds'
  <2> SUFFICES ASSUME ~DupMayFail, ~memErr', NEW j \in 1 .. (pos' + 1), Joins(j, pos' + 1)
               PROVE  section' = SectionAt(j)
    BY SameFile DEF SectionHolds
  <2>1. Joins(j, pos + 2) /\ j \in 1 .. (pos + 2)
    BY <1>1, <1>2
  <2>2. j = pos + 2
    BY <1>1, <1>3, <2>1 DEF Joins
  <2>3. section = SectionAt(i)
    BY <1>1 DEF Reads, SectionHolds
  <2>4. SectionAt((pos + 1) + 1) = IF file[i].form = "section" THEN Lower[file[i].name]
                                   ELSE SectionAt(i)
    BY <1>1, <1>4, SectionNext
  <2>5. (pos + 1) + 1 = j
    BY <1>1, <2>2
  <2> QED
    BY <1>6, <1>7, <2>3, <2>4, <2>5
<1>12. ErrorsNoted'
  <2> SUFFICES ASSUME ~DupMayFail PROVE ErrorsNoted'
    BY DEF ErrorsNoted
  <2>1. Held = pos
    BY <1>1 DEF Held
  <2>2. errs <=> \E j \in 1 .. pos : Complete(j, pos) /\ file[j].form = "error"
    BY <2>1 DEF Reads, ErrorsNoted
  <2>3. CASE memErr'
    <3>1. Held' = pos
      BY <1>1, <1>2, <2>3 DEF Held
    <3> QED
      BY <2>2, <2>3, <3>1, SameFile DEF ErrorsNoted
  <2>4. CASE ~memErr'
    <3>1. Held' = pos + 1
      BY <1>2, <2>4 DEF Held
    <3>2. \A j : Complete(j, pos + 1) <=> Complete(j, pos) \/ j = i
      BY <1>1, <1>4, CompleteOne
    <3>3. \A j : Complete(j, pos) => j \in 1 .. pos
      BY DEF Complete
    <3>4. \A j \in 1 .. pos : j \in 1 .. (pos + 1)
      BY <1>1
    <3>5. errs' <=> \E j \in 1 .. (pos + 1) : Complete(j, pos + 1) /\ file[j].form = "error"
      BY <1>7, <2>2, <2>4, <3>2, <3>3, <3>4
    <3> QED
      BY <3>1, <3>5, SameFile DEF ErrorsNoted
  <2> QED
    BY <2>3, <2>4
<1> QED
  BY <1>1, <1>8, <1>9, <1>10, <1>11, <1>12 DEF ReadInv

\* The loop begins before the first line.
LEMMA BeginKeeps ==
    ASSUME ReadInv, LoadBegin
    PROVE  ReadInv'
<1>1. /\ phase' = "loading" /\ file' \in Files /\ pos' = 0
      /\ line' = NoLine
  BY DEF LoadBegin, ReadInv
<1>2. errs' = FALSE /\ memErr' = FALSE
  BY DEF LoadBegin, ReadInv
<1>8. section' = ""
  BY DEF LoadBegin, ReadInv
<1>3. Len(file') \in Nat
  BY <1>1, FilesAssumption
<1>4. Positions' /\ NoLong'
  <2>1. file' \in Files /\ pos' \in 0 .. Len(file')
    BY <1>1, <1>3
  <2>3. section' \in SectionsOf(file)'
    BY <1>8 DEF SectionsOf
  <2>2. NoLong'
    BY <1>1 DEF NoLong
  <2> QED
    BY <1>2, <2>1, <2>2, <2>3 DEF Positions
<1>6. BufferHolds'
  BY <1>1 DEF BufferHolds
<1>7. ErrorsNoted'
  <2>1. Held' = pos'
    BY <1>2 DEF Held
  <2>2. Held' = 0
    BY <1>1, <2>1
  <2>3. ~\E i \in 1 .. 0 : Complete(i, 0)' /\ file'[i].form = "error"
    OBVIOUS
  <2>4. ~\E i \in 1 .. Held' : (Complete(i, Held) /\ file[i].form = "error")'
    BY <2>2, <2>3
  <2> QED
    BY <1>2, <2>4 DEF ErrorsNoted
<1>5. SectionHolds'
  <2>1. Heads(1)' = {}
    BY DEF Heads
  <2>2. SectionAt(1)' = ""
    BY <2>1 DEF SectionAt
  <2>3. \A i \in 1 .. (pos' + 1) : i = 1
    BY <1>1
  <2>4. \A i \in 1 .. (pos' + 1) : section' = SectionAt(i)'
    BY <1>8, <2>2, <2>3
  <2> QED
    BY <2>4 DEF SectionHolds
<1> QED
  BY <1>1, <1>4, <1>5, <1>6, <1>7 DEF ReadInv

\* The loop keeps its place in the file, whatever the dictionary does.
LEMMA ReadInvInit == IniInit => ReadInv
  BY DEF IniInit, ReadInv

LEMMA ReadInvNext == ReadInv /\ [IniNext]_<<vars, iniVars>> => ReadInv'
<1> SUFFICES ASSUME ReadInv, [IniNext]_<<vars, iniVars>> PROVE ReadInv'
  OBVIOUS
<1>1. CASE LoadBegin
  BY <1>1, BeginKeeps
<1>2. CASE phase' \in {"returned", "refused", "app"}
  BY <1>2 DEF ReadInv
<1>3. ASSUME NEW l, Carry(l) PROVE ReadInv'
  BY <1>3, CarryKeeps
<1>4. ASSUME NEW l,
             Ignore(l) \/ SyntaxError(l) \/ SectionLine(l) \/ ValueLine(l)
      PROVE  ReadInv'
  <2>1. Reading(l) /\ Whole(l) /\ phase' = phase /\ file' = file
    BY <1>4 DEF Ignore, SyntaxError, SectionLine, ValueLine
  <2>2. PICK i \in 1 .. (pos + 1) : Reads(i) /\ l = Buffer(i, pos + 1)
    BY <2>1, ReadsOne
  <2>3. errs \in BOOLEAN /\ memErr = FALSE
    BY <2>2 DEF Reads, Positions
  <2>4. memErr' \in BOOLEAN
    <3>1. CASE Ignore(l) \/ SyntaxError(l)
      BY <2>3, <3>1 DEF Ignore, SyntaxError
    <3>2. CASE SectionLine(l) \/ ValueLine(l)
      <4>1. memErr' = (res'.ret < 0)
        BY <3>2 DEF SectionLine, ValueLine, SetAndNote
      <4> QED
        BY <4>1
    <3> QED
      BY <1>4, <3>1, <3>2
  <2>5. /\ section' = section \/ (l.form = "section" /\ section' = Lower[l.name])
        /\ ~DupMayFail =>
              section' = IF l.form = "section" THEN Lower[l.name] ELSE section
    BY <1>4 DEF Ignore, SyntaxError, SectionLine, ValueLine, NewSection, IsValue
  <2>6. /\ errs' \in BOOLEAN
        /\ memErr' => errs' = errs
        /\ (~DupMayFail /\ ~memErr') => (errs' <=> errs \/ l.form = "error")
    <3>1. CASE SyntaxError(l)
      BY <2>3, <3>1 DEF SyntaxError
    <3>2. CASE Ignore(l) \/ SectionLine(l) \/ ValueLine(l)
      <4>1. errs' = errs /\ (l.form # "error" \/ DupMayFail)
        BY <3>2 DEF Ignore, SectionLine, ValueLine, IsValue
      <4> QED
        BY <2>3, <4>1
    <3> QED
      BY <1>4, <3>1, <3>2
  <2> QED
    BY <2>1, <2>2, <2>4, <2>5, <2>6, WholeKeeps
<1>5. CASE UNCHANGED iniVars
  <2>1. UNCHANGED <<phase, file, pos, section, line>> /\ errs' = errs /\ memErr' = memErr
    BY <1>5 DEF iniVars
  <2>2. CASE phase # "loading"
    BY <2>1, <2>2 DEF ReadInv
  <2>3. CASE phase = "loading"
    <3>1. Positions' /\ NoLong'
      BY <2>1, <2>3 DEF ReadInv, Positions, NoLong, SectionsOf
    <3>2. BufferHolds'
      BY <2>1, <2>3, SameFile DEF ReadInv, BufferHolds
    <3>3. SectionHolds'
      BY <2>1, <2>3, SameFile DEF ReadInv, SectionHolds
    <3>4. Held' = Held
      BY <2>1 DEF Held
    <3>5. ErrorsNoted'
      BY <2>1, <2>3, <3>4, SameFile DEF ReadInv, ErrorsNoted
    <3> QED
      BY <2>1, <2>3, <3>1, <3>2, <3>3, <3>5 DEF ReadInv
  <2> QED
    BY <2>2, <2>3
<1> QED
  BY <1>1, <1>2, <1>3, <1>4, <1>5
     DEF IniNext, Load, LoadRefused, LoadEnd, LoadErrors, TooLong, LineDies, ErrorsDie,
         iniparser_set, iniparser_unset, iniparser_getstring, iniparser_freedict,
         iniparser_dies, Forget, Refused

\* Every step of the parser and of its user is a call of the dictionary, or
\* leaves it alone.
LEMMA ParserCalls == ReadInv /\ [IniNext]_<<vars, iniVars>> => [Next]_vars
<1> SUFFICES ASSUME ReadInv, [IniNext]_<<vars, iniVars>> PROVE Next \/ UNCHANGED vars
  OBVIOUS
<1>1. ASSUME NEW k \in Keys, NEW v \in ValOrNull, DictSet(k, v) PROVE Next
  BY <1>1 DEF DictSet, Next
<1>2. ASSUME NEW l, SectionLine(l) PROVE Next
  <2>1. PICK i \in 1 .. (pos + 1) : Reads(i) /\ l = Buffer(i, pos + 1)
    BY <1>2, ReadsOne DEF SectionLine
  <2>2. file \in Files /\ pos + 1 \in 1 .. Len(file)
    BY <2>1, Lines DEF Reads, Positions
  <2>3. <<Lower[l.name]>> \in Keys
    BY <1>2, <2>1, <2>2, BufferStorable DEF SectionLine
  <2> QED
    BY <1>1, <1>2, <2>3 DEF SectionLine, SetAndNote, ValOrNull
<1>3. ASSUME NEW l, ValueLine(l) PROVE Next
  <2>1. PICK i \in 1 .. (pos + 1) : Reads(i) /\ l = Buffer(i, pos + 1)
    BY <1>3, ReadsOne DEF ValueLine
  <2>2. file \in Files /\ pos + 1 \in 1 .. Len(file) /\ section \in SectionsOf(file)
    BY <2>1, Lines DEF Reads, Positions
  <2>3. <<section, Lower[l.name]>> \in Keys /\ LineValues(l) \subseteq Vals
    BY <1>3, <2>1, <2>2, BufferStorable DEF ValueLine
  <2> QED
    BY <1>1, <1>3, <2>3 DEF ValueLine, SetAndNote, ValOrNull
<1>4. ASSUME NEW k \in Keys, NEW v \in AppVals \cup {NULL}, iniparser_set(k, v)
      PROVE  Next
  BY <1>1, <1>4, IniAssumption DEF iniparser_set, ValOrNull
<1>5. ASSUME NEW k \in Keys, iniparser_unset(k) \/ iniparser_getstring(k) PROVE Next
  BY <1>5 DEF iniparser_unset, iniparser_getstring, Next
<1>6. CASE LoadBegin \/ LoadErrors \/ ErrorsDie \/ iniparser_freedict \/ iniparser_dies
  BY <1>6 DEF LoadBegin, LoadErrors, ErrorsDie, iniparser_freedict, iniparser_dies, Next
<1>7. ASSUME NEW l, TooLong(l) \/ LineDies(l) PROVE Next
  BY <1>7 DEF TooLong, LineDies, Next
<1>8. ASSUME NEW l, Carry(l) \/ Ignore(l) \/ SyntaxError(l) PROVE UNCHANGED vars
  BY <1>8 DEF Carry, Ignore, SyntaxError, SameDict
<1>9. CASE LoadRefused \/ LoadEnd \/ Refused \/ UNCHANGED <<vars, iniVars>>
  BY <1>9 DEF LoadRefused, LoadEnd, Refused, SameDict
<1> QED
  BY <1>2, <1>3, <1>4, <1>5, <1>6, <1>7, <1>8, <1>9 DEF IniNext, Load

\* iniparser.c uses the dictionary only through its calls: the parser and its
\* user implement the specification of dictionary.c.
THEOREM ParserUsesDictionary == IniSpec => Spec
<1>1. IniInit => Init
  BY DEF IniInit
<1> QED
  BY <1>1, ReadInvInit, ReadInvNext, ParserCalls, PTL DEF IniSpec, Spec

\* So no key is in two slots below the parser either, and the probe of
\* dictionary_set ends.
THEOREM ParsedKeysUnique == IniSpec => []UniqueKeys
  BY ParserUsesDictionary, KeysUnique, PTL

THEOREM ParsedProbeEnds == IniSpec => []ProbeTerminates
  BY ParserUsesDictionary, ProbeEnds, PTL

\* And while xstrdup does not fail, parser and user work on a plain map.
THEOREM ParsedIsMap == ASSUME ~DupMayFail PROVE IniSpec => ImplementsMap
  BY ParserUsesDictionary, Refinement, PTL

-----------------------------------------------------------------------------
(* What the loader builds is what the lines mean.                          *)

\* A set of line numbers that is not empty has a maximum.
LEMMA MaxIn ==
    ASSUME NEW q \in Nat, NEW S \in SUBSET (1 .. q), S # {}
    PROVE  Max(S) \in S
<1> DEFINE T == {m \in Nat : \A j \in S : j <= m}
<1>1. q \in T
  OBVIOUS
<1>2. PICK m \in T : \A y \in T : ~ (<<y, m>> \in OpToRel(<, Nat))
  BY <1>1, WFMin, NatLessThanWellFounded
<1>3. m \in Nat /\ \A j \in S : j <= m
  BY <1>2
<1>4. \A y \in T : ~ (y < m)
  BY <1>2, <1>3 DEF OpToRel
<1>5. ASSUME m \notin S PROVE FALSE
  <2>1. \A j \in S : j \in Nat /\ j >= 1 /\ j <= m - 1
    BY <1>3, <1>5
  <2>2. m - 1 \in Nat
    <3>1. PICK j \in S : TRUE
      OBVIOUS
    <3>2. j \in Nat /\ j >= 1 /\ j <= m - 1
      BY <2>1
    <3> QED
      BY <1>3, <3>2
  <2>3. m - 1 \in T /\ m - 1 < m
    BY <1>3, <2>1, <2>2
  <2> QED
    BY <1>4, <2>3
<1>6. S \in SUBSET Int
  OBVIOUS
<1> QED
  BY <1>3, <1>5, <1>6, MaxIs

Prefix(p) == SubSeq(file, 1, p)

LEMMA PrefixIs ==
    ASSUME file \in Files, NEW p \in 0 .. Len(file)
    PROVE  /\ p \in Nat /\ Len(Prefix(p)) = p /\ DOMAIN Prefix(p) = 1 .. p
           /\ \A i \in 1 .. p : Prefix(p)[i] = file[i] /\ file[i] \in FileLine
<1>1. file \in Seq(FileLine)
  BY FilesAssumption
<1> QED
  BY <1>1 DEF Prefix

\* The entries of a prefix are the complete ones.
LEMMA StartsIs ==
    ASSUME file \in Files, NEW p \in 0 .. Len(file), NEW i
    PROVE  i \in Starts(Prefix(p)) <=> Complete(i, p)
<1> DEFINE ls == Prefix(p)
<1>1. p \in Nat /\ Len(ls) = p /\ DOMAIN ls = 1 .. p /\ \A j \in 1 .. p : ls[j] = file[j]
  BY PrefixIs
<1> HIDE DEF ls
<1>2. i \in 1 .. p => (Begins(i) <=> i = 1 \/ ~ls[i - 1].cont)
  BY <1>1 DEF Begins
<1>3. i \in 1 .. p => ((\E j \in i .. p : ~file[j].cont) <=> \E j \in i .. p : ~ls[j].cont)
  BY <1>1
<1>4. i \in Starts(ls) <=> i \in 1 .. p /\ (i = 1 \/ ~ls[i - 1].cont) /\ \E j \in i .. p : ~ls[j].cont
  BY <1>1 DEF Starts
<1>5. i \in Starts(ls) <=> Complete(i, p)
  BY <1>2, <1>3, <1>4 DEF Complete
<1> QED
  BY <1>5 DEF ls

\* The key of an entry is the one its section and its name make.
LEMMA KeyAtIs ==
    ASSUME file \in Files, NEW p \in 0 .. Len(file), NEW i, Complete(i, p)
    PROVE  KeyAt(Prefix(p), i) = EntryKey(i)
<1> DEFINE ls == Prefix(p)
           heads == {j \in Starts(ls) : j < i /\ ls[j].form = "section"}
<1>1. p \in Nat /\ \A j \in 1 .. p : ls[j] = file[j]
  BY PrefixIs
<1>2. i \in 1 .. p /\ Begins(i)
  BY DEF Complete
<1>3. \A j : j \in Starts(ls) <=> Complete(j, p)
  BY StartsIs
<1> HIDE DEF ls
<1>4. ASSUME NEW j \in heads PROVE j \in Heads(i)
  <2>1. Complete(j, p) /\ j < i /\ ls[j].form = "section"
    BY <1>3, <1>4
  <2> QED
    BY <1>1, <1>2, <2>1 DEF Complete, Heads
<1>5. ASSUME NEW j \in Heads(i) PROVE j \in heads
  <2>1. j \in 1 .. (i - 1) /\ Begins(j) /\ file[j].form = "section"
    BY <1>5 DEF Heads
  <2>2. i - 1 \in j .. p /\ ~file[i - 1].cont /\ j < i /\ j \in 1 .. p
    BY <1>1, <1>2, <2>1 DEF Begins
  <2>3. Complete(j, p)
    BY <2>1, <2>2 DEF Complete
  <2> QED
    BY <1>1, <1>3, <2>1, <2>2, <2>3
<1>6. heads = Heads(i)
  BY <1>4, <1>5
<1>7. ASSUME Heads(i) # {} PROVE ls[Max(heads)] = file[Max(Heads(i))]
  <2>1. Heads(i) \in SUBSET (1 .. p)
    BY <1>1, <1>2 DEF Heads
  <2>2. Max(Heads(i)) \in 1 .. p
    BY <1>1, <1>7, <2>1, MaxIn
  <2> QED
    BY <1>1, <1>6, <2>2
<1>8. ls[i] = file[i]
  BY <1>1, <1>2
<1>9. KeyAt(ls, i) = IF ls[i].form = "section" THEN <<Lower[ls[i].name]>>
                     ELSE <<IF heads = {} THEN "" ELSE Lower[ls[Max(heads)].name],
                            Lower[ls[i].name]>>
  BY Zenon DEF KeyAt
<1> HIDE DEF heads
<1>10. (IF heads = {} THEN "" ELSE Lower[ls[Max(heads)].name]) = SectionAt(i)
  BY <1>6, <1>7, Zenon DEF SectionAt
<1>11. KeyAt(ls, i) = EntryKey(i)
  BY <1>8, <1>9, <1>10, Zenon DEF EntryKey
<1> QED
  BY <1>11 DEF ls

\* The value of an entry is the one the buffer ends up with.
LEMMA ValueAtIs ==
    ASSUME file \in Files, NEW p \in 0 .. Len(file), NEW i \in 1 .. p, NEW e \in 1 .. p,
           Entry(i, e), file[i].form \in {"section", "value", "quoted"}
    PROVE  ValueAt(Prefix(p), i) = EntryValue(i, e)
<1> DEFINE ls == Prefix(p)
           ends == {j \in i .. Len(ls) : ~ls[j].cont}
           end == Min(ends)
           more == {j \in (i + 1) .. end : /\ ls[j].form # "empty"
                                          /\ \A c \in (i + 1) .. j : ls[c].form # "comment"}
<1>1. p \in Nat /\ Len(ls) = p /\ \A j \in 1 .. p : ls[j] = file[j]
  BY PrefixIs
<1> HIDE DEF ls
<1>2. /\ i \in Int /\ e \in Int /\ 1 <= i /\ i <= e /\ e <= p
      /\ ~file[e].cont /\ \A j \in i .. (e - 1) : file[j].cont
  BY <1>1 DEF Entry, Joins
<1>3. end = e
  <2>1. ends \in SUBSET Int /\ e \in ends
    BY <1>1, <1>2
  <2>2. ASSUME NEW j \in ends PROVE e <= j
    <3>1. j \in i .. p /\ ~file[j].cont
      BY <1>1, <1>2
    <3> QED
      BY <1>1, <1>2, <3>1
  <2> HIDE DEF ends
  <2> QED
    BY <2>1, <2>2, MinIs
<1>4. more = More(i, e)
  <2>1. \A j \in (i + 1) .. e : /\ ls[j] = file[j]
                               /\ \A c \in (i + 1) .. j : ls[c] = file[c]
    BY <1>1, <1>2
  <2> HIDE DEF end
  <2> QED
    BY <1>3, <2>1 DEF More
<1>5. ls[i] = file[i]
  BY <1>1
<1>6. ValueAt(ls, i) = IF ls[i].form = "section" THEN NULL
                       ELSE IF ls[i].form = "value" /\ more # {} THEN JOINED
                       ELSE LineValue(ls[i])
  BY Zenon DEF ValueAt
<1> HIDE DEF more
<1>7. /\ Buffer(i, e).form = IF file[i].form = "value" /\ Commented(i, e) THEN "commented"
                             ELSE file[i].form
      /\ Buffer(i, e).text = IF file[i].form = "value" /\ More(i, e) # {} THEN JOINED
                             ELSE file[i].text
  BY DEF Buffer
<1>8. CASE file[i].form = "section"
  BY <1>5, <1>6, <1>8 DEF EntryValue, ls
<1>9. CASE file[i].form = "value"
  <2>1. Buffer(i, e).form # "quoted"
    BY <1>7, <1>9
  <2>2. LineValue(Buffer(i, e)) = IF More(i, e) # {} THEN JOINED ELSE file[i].text
    BY <1>7, <1>9, <2>1 DEF LineValue
  <2>3. LineValue(ls[i]) = file[i].text
    BY <1>5, <1>9 DEF LineValue
  <2>4. ValueAt(ls, i) = IF More(i, e) # {} THEN JOINED ELSE file[i].text
    BY <1>4, <1>5, <1>6, <1>9, <2>3
  <2> QED
    BY <1>9, <2>2, <2>4 DEF EntryValue, ls
<1>10. CASE file[i].form = "quoted"
  <2>1. Buffer(i, e).form = file[i].form /\ Buffer(i, e).text = file[i].text
    BY <1>7, <1>10
  <2>2. LineValue(Buffer(i, e)) = LineValue(file[i])
    BY <2>1 DEF LineValue
  <2>3. ValueAt(ls, i) = LineValue(file[i])
    BY <1>5, <1>6, <1>10
  <2> QED
    BY <1>10, <2>2, <2>3 DEF EntryValue, ls
<1> QED
  BY <1>8, <1>9, <1>10

\* The dictionary that holds what the lines say of every key is their content.
LEMMA ContentIs ==
    ASSUME file \in Files, NEW p \in 0 .. Len(file), NEW k \in Keys, NEW v, Means(k, v, p)
    PROVE  v = Content(Prefix(p))[k]
<1> DEFINE ls == Prefix(p)
           given == {i \in Starts(ls) : /\ ls[i].form \in {"section", "value", "quoted"}
                                        /\ KeyAt(ls, i) = k}
<1>1. p \in Nat /\ \A j \in 1 .. p : ls[j] = file[j]
  BY PrefixIs
<1>2. \A i : i \in Starts(ls) <=> Complete(i, p)
  BY StartsIs
<1>3. \A i : Complete(i, p) => KeyAt(ls, i) = EntryKey(i)
  BY KeyAtIs
<1>4. Content(ls)[k] = IF given = {} THEN ABSENT ELSE ValueAt(ls, Max(given))
  BY Zenon DEF Content
<1> HIDE DEF ls
<1>5. \A i : Complete(i, p) => i \in 1 .. p
  BY DEF Complete
<1>6. \A i : i \in given <=> Gives(k, i, p)
  BY <1>1, <1>2, <1>3, <1>5 DEF Gives
<1> HIDE DEF given
<1>7. CASE v = ABSENT /\ \A i \in 1 .. p : ~Gives(k, i, p)
  <2>1. given = {}
    BY <1>5, <1>6, <1>7 DEF Gives
  <2> QED
    BY <1>4, <1>7, <2>1 DEF ls
<1>8. CASE \E i, e \in 1 .. p : LastGiven(k, i, p) /\ Entry(i, e) /\ v = EntryValue(i, e)
  <2>1. PICK i \in 1 .. p, e \in 1 .. p :
           LastGiven(k, i, p) /\ Entry(i, e) /\ v = EntryValue(i, e)
    BY <1>8
  <2>2. given \in SUBSET Int
    <3>1. \A j \in given : j \in 1 .. p
      BY <1>5, <1>6 DEF Gives
    <3> QED
      BY <1>1, <3>1
  <2>3. i \in given /\ \A j \in given : j <= i
    BY <1>5, <1>6, <2>1 DEF LastGiven, Gives
  <2>4. Max(given) = i /\ given # {}
    BY <2>2, <2>3, MaxIs
  <2>5. ValueAt(Prefix(p), i) = EntryValue(i, e)
    BY <2>1, ValueAtIs DEF LastGiven, Gives
  <2> QED
    BY <1>4, <2>1, <2>4, <2>5 DEF ls
<1> QED
  BY <1>7, <1>8 DEF Means

\* A prefix is loadable when none of its lines is too long and none of its
\* entries an error.
LEMMA LoadableIs ==
    ASSUME file \in Files, NEW p \in 0 .. Len(file)
    PROVE  Loadable(Prefix(p)) <=>
              /\ \A i \in 1 .. p : file[i].form # "long"
              /\ ~\E i \in 1 .. p : Complete(i, p) /\ file[i].form = "error"
<1>1. DOMAIN Prefix(p) = 1 .. p /\ \A j \in 1 .. p : Prefix(p)[j] = file[j]
  BY PrefixIs
<1>2. \A i : i \in Starts(Prefix(p)) <=> Complete(i, p)
  BY StartsIs
<1>3. \A i : Complete(i, p) => i \in 1 .. p
  BY DEF Complete
<1> QED
  BY <1>1, <1>2, <1>3 DEF Loadable

-----------------------------------------------------------------------------
\* A line that gives no key changes nothing of what the lines say.
LEMMA MeansSame ==
    ASSUME NEW p \in Nat, NEW k, NEW v, Means(k, v, p),
           \A i : Gives(k, i, p + 1) <=> Gives(k, i, p)
    PROVE  Means(k, v, p + 1)
<1>1. \A i : Gives(k, i, p) => i \in 1 .. p
  BY DEF Gives, Complete
<1>2. \A i \in 1 .. p : i \in 1 .. (p + 1)
  OBVIOUS
<1>3. CASE v = ABSENT /\ \A i \in 1 .. p : ~Gives(k, i, p)
  BY <1>1, <1>3 DEF Means
<1>4. CASE \E i, e \in 1 .. p : LastGiven(k, i, p) /\ Entry(i, e) /\ v = EntryValue(i, e)
  <2>1. PICK i \in 1 .. p, e \in 1 .. p :
           LastGiven(k, i, p) /\ Entry(i, e) /\ v = EntryValue(i, e)
    BY <1>4
  <2>2. LastGiven(k, i, p + 1)
    BY <1>1, <2>1 DEF LastGiven
  <2> QED
    BY <1>2, <2>1, <2>2 DEF Means
<1> QED
  BY <1>3, <1>4 DEF Means

\* An entry that has just been completed decides its key.
LEMMA MeansNew ==
    ASSUME NEW p \in Nat, NEW s \in 1 .. (p + 1), Entry(s, p + 1),
           file[s].form \in {"section", "value", "quoted"}
    PROVE  Means(EntryKey(s), EntryValue(s, p + 1), p + 1)
<1>1. \A i : /\ Complete(i, p + 1) <=> Complete(i, p) \/ i = s
             /\ Complete(i, p) => i < s
  BY CompleteOne
<1>2. Gives(EntryKey(s), s, p + 1)
  BY <1>1 DEF Gives
<1>3. \A j \in 1 .. (p + 1) : Complete(j, p + 1) => j <= s
  BY <1>1
<1>4. LastGiven(EntryKey(s), s, p + 1)
  BY <1>2, <1>3 DEF LastGiven, Gives
<1>5. p + 1 \in 1 .. (p + 1)
  OBVIOUS
<1> QED
  BY <1>4, <1>5 DEF Means

\* Which keys the lines give does not change while they are read.
LEMMA SameMeaning ==
    ASSUME file' = file
    PROVE  \A k, v, p : Means(k, v, p)' <=> Means(k, v, p)
<1>1. \A i : EntryKey(i)' = EntryKey(i)
  BY SameFile, Zenon DEF EntryKey
<1>2. \A i, e : EntryValue(i, e)' = EntryValue(i, e)
  BY SameFile DEF EntryValue
<1>3. \A k, i, p : Gives(k, i, p)' <=> Gives(k, i, p)
  BY <1>1, SameFile DEF Gives
<1>4. \A k, i, p : LastGiven(k, i, p)' <=> LastGiven(k, i, p)
  BY <1>3 DEF LastGiven
<1> QED
  BY <1>2, <1>3, <1>4, SameFile DEF Means

\* A line that waits, or that gives no key.
LEMMA PassMeans ==
    ASSUME ~DupMayFail, ReadInv, LoadInv, NEW l, Carry(l) \/ Ignore(l) \/ SyntaxError(l)
    PROVE  \A k \in Keys : Means(k, Lookup(k), Held)'
<1>1. Reading(l) /\ file' = file /\ pos' = pos + 1 /\ UNCHANGED vars
  BY DEF Carry, Ignore, SyntaxError, Reading, SameDict
<1>2. memErr' = memErr
  BY DEF Carry, Ignore, SyntaxError
<1>3. PICK i \in 1 .. (pos + 1) : Reads(i) /\ l = Buffer(i, pos + 1)
  BY <1>1, ReadsOne
<1>4. memErr = FALSE
  BY <1>3 DEF Reads
<1>5. Held = pos /\ Held' = pos'
  BY <1>2, <1>4 DEF Held
<1>6. pos \in Nat /\ Joins(i, pos + 1)
  BY <1>3, Lines DEF Reads, Positions
<1>7. \A k \in Keys : Means(k, Lookup(k), pos)
  BY <1>3, <1>5 DEF Reads, LoadInv
<1>8. \A k, j : Gives(k, j, pos + 1) <=> Gives(k, j, pos)
  <2>1. CASE Carry(l)
    <3>1. file[pos + 1].cont
      BY <1>3, <2>1 DEF Carry, Buffer
    <3> QED
      BY <1>6, <3>1, CompleteSame DEF Gives
  <2>2. CASE Ignore(l) \/ SyntaxError(l)
    <3>1. ~l.cont /\ l.form \in {"empty", "comment", "error"}
      BY <2>2 DEF Ignore, SyntaxError, Whole
    <3>2. Entry(i, pos + 1)
      BY <1>3, <1>6, <3>1 DEF Entry, Buffer
    <3>3. file[i].form \notin {"section", "value", "quoted"}
      BY <1>3, <3>1 DEF Buffer
    <3>4. \A j : Complete(j, pos + 1) <=> Complete(j, pos) \/ j = i
      BY <1>6, <3>2, CompleteOne
    <3> QED
      BY <3>3, <3>4 DEF Gives
  <2> QED
    BY <2>1, <2>2
<1>9. LookupKept
  BY <1>1, SameArrays DEF vars
<1> SUFFICES ASSUME NEW k \in Keys PROVE Means(k, Lookup(k), Held)'
  OBVIOUS
<1>10. Means(k, Lookup(k), pos + 1)
  BY <1>6, <1>7, <1>8, MeansSame
<1>11. Means(k, Lookup(k)', pos')
  BY <1>1, <1>9, <1>10 DEF LookupKept
<1>12. Means(k, Lookup(k)', Held')
  BY <1>5, <1>11
<1> QED
  BY <1>1, <1>12, SameMeaning

\* A line that gives a key, whether dictionary_set succeeds or not.
LEMMA SetMeans ==
    ASSUME ~DupMayFail, IInv, IInv', ReadInv, LoadInv, NEW l, SectionLine(l) \/ ValueLine(l)
    PROVE  \A k \in Keys : Means(k, Lookup(k), Held)'
<1>1. Reading(l) /\ file' = file /\ pos' = pos + 1 /\ ~l.cont
  BY DEF SectionLine, ValueLine, Reading, Whole
<1>2. PICK i \in 1 .. (pos + 1) : Reads(i) /\ l = Buffer(i, pos + 1)
  BY <1>1, ReadsOne
<1>3. memErr = FALSE
  BY <1>2 DEF Reads
<1>4. Held = pos
  BY <1>3 DEF Held
<1>5. /\ pos \in Nat /\ Joins(i, pos + 1) /\ file \in Files /\ pos + 1 \in 1 .. Len(file)
      /\ section = SectionAt(i) /\ section \in SectionsOf(file) /\ file[i] \in FileLine
  <2>1. pos \in Nat /\ file \in Files /\ Joins(i, pos + 1) /\ pos + 1 \in 1 .. Len(file)
    BY <1>2, Lines DEF Reads, Positions
  <2>2. section = SectionAt(i) /\ section \in SectionsOf(file)
    BY <1>2, <1>3 DEF Reads, Positions, SectionHolds
  <2>3. file[i] \in FileLine
    BY <2>1, Lines
  <2> QED
    BY <2>1, <2>2, <2>3
<1>6. \A k \in Keys : Means(k, Lookup(k), pos)
  BY <1>2, <1>4 DEF Reads, LoadInv
<1>7. Entry(i, pos + 1)
  BY <1>1, <1>2, <1>5 DEF Entry, Buffer
<1>8. /\ l.name = file[i].name
      /\ l.form = IF file[i].form = "value" /\ Commented(i, pos + 1) THEN "commented"
                  ELSE file[i].form
  BY <1>2 DEF Buffer
<1>9. /\ SetAndNote(EntryKey(i), EntryValue(i, pos + 1))
      /\ EntryKey(i) \in Keys /\ EntryValue(i, pos + 1) \in ValOrNull
      /\ file[i].form \in {"section", "value", "quoted"}
  <2>1. CASE SectionLine(l)
    <3>1. file[i].form = "section" /\ l.form = "section"
      BY <1>8, <2>1 DEF SectionLine
    <3>2. EntryKey(i) = <<Lower[l.name]>> /\ EntryValue(i, pos + 1) = NULL
      BY <1>8, <3>1 DEF EntryKey, EntryValue
    <3>3. <<Lower[l.name]>> \in Keys
      BY <1>2, <1>5, <3>1, BufferStorable
    <3> QED
      BY <2>1, <3>1, <3>2, <3>3 DEF SectionLine, ValOrNull
  <2>2. CASE ValueLine(l)
    <3>1. IsValue(l)
      BY <2>2 DEF ValueLine
    <3>2. file[i].form \in {"value", "quoted"}
      BY <1>5, <1>8, <3>1 DEF IsValue, FileLine
    <3>3. EntryKey(i) = <<section, Lower[l.name]>> /\ EntryValue(i, pos + 1) = LineValue(l)
      BY <1>2, <1>5, <1>8, <3>2 DEF EntryKey, EntryValue
    <3>4. /\ <<section, Lower[l.name]>> \in Keys
          /\ LineValues(l) = {LineValue(l)} /\ LineValue(l) \in Vals
      BY <1>2, <1>5, <3>1, BufferStorable DEF LineValues
    <3> QED
      BY <2>2, <3>2, <3>3, <3>4 DEF ValueLine, ValOrNull
  <2> QED
    BY <2>1, <2>2
<1> DEFINE k0 == EntryKey(i)
           v0 == EntryValue(i, pos + 1)
<1>10. CASE SetReplace(k0, v0) \/ SetInsert(k0, v0) \/ SetGrow(k0, v0)
  <2>1. Becomes(k0, v0)
    BY <1>9, <1>10, SetIsMapSet
  <2>2. res'.ret = 0
    BY <1>10 DEF SetReplace, SetInsert, SetGrow, Store, Answer
  <2>3. ~memErr'
    <3>1. memErr' = (res'.ret < 0)
      BY <1>9 DEF SetAndNote
    <3>2. ~(res'.ret < 0)
      BY <2>2
    <3> QED
      BY <3>1, <3>2
  <2>4. Held' = pos'
    BY <2>3 DEF Held
  <2> SUFFICES ASSUME NEW k \in Keys PROVE Means(k, Lookup(k), Held)'
    OBVIOUS
  <2>5. Means(k, Lookup(k)', pos + 1)
    <3>1. CASE k = k0
      BY <1>5, <1>7, <1>9, <2>1, <3>1, MeansNew DEF Becomes
    <3>2. CASE k # k0
      <4>1. \A j : Complete(j, pos + 1) <=> Complete(j, pos) \/ j = i
        BY <1>5, <1>7, CompleteOne
      <4>2. \A j : Gives(k, j, pos + 1) <=> Gives(k, j, pos)
        BY <3>2, <4>1 DEF Gives
      <4>3. Means(k, Lookup(k), pos + 1)
        BY <1>5, <1>6, <4>2, MeansSame
      <4> QED
        BY <2>1, <3>2, <4>3 DEF Becomes
    <3> QED
      BY <3>1, <3>2
  <2>6. Means(k, Lookup(k)', Held')
    BY <1>1, <2>4, <2>5
  <2> QED
    BY <1>1, <2>6, SameMeaning
<1>11. CASE SetGrowFails(k0, v0)
  <2>1. LookupKept
    BY <1>11, SameArrays DEF SetGrowFails
  <2>2. res'.ret = -1
    BY <1>11 DEF SetGrowFails, Answer
  <2>3. memErr'
    <3>1. memErr' = (res'.ret < 0)
      BY <1>9 DEF SetAndNote
    <3>2. res'.ret < 0
      BY <2>2
    <3> QED
      BY <3>1, <3>2
  <2>4. Held' = pos' - 1
    BY <2>3 DEF Held
  <2>5. Held' = pos
    BY <1>1, <1>5, <2>4
  <2> SUFFICES ASSUME NEW k \in Keys PROVE Means(k, Lookup(k), Held)'
    OBVIOUS
  <2>6. Means(k, Lookup(k)', Held')
    BY <1>6, <2>1, <2>5 DEF LookupKept
  <2> QED
    BY <1>1, <2>6, SameMeaning
<1> QED
  BY <1>9, <1>10, <1>11 DEF SetAndNote, DictSet

-----------------------------------------------------------------------------
\* The lines held are lines of the file.
LEMMA HeldIn ==
    ASSUME ReadInv, phase = "loading"
    PROVE  file \in Files /\ Held \in 0 .. Len(file) /\ pos \in Nat /\ Held <= pos
<1>1. /\ file \in Files /\ pos \in Nat /\ pos <= Len(file) /\ Len(file) \in Nat
      /\ memErr => pos > 0
  BY Lines DEF ReadInv, Positions
<1>2. CASE memErr
  <2>1. Held = pos - 1 /\ pos > 0
    BY <1>1, <1>2 DEF Held
  <2> QED
    BY <1>1, <2>1
<1>3. CASE ~memErr
  <2>1. Held = pos
    BY <1>3 DEF Held
  <2> QED
    BY <1>1, <2>1
<1> QED
  BY <1>2, <1>3

\* At the end of the loop the dictionary is the content of the lines held ...
LEMMA EndLoads ==
    ASSUME ~DupMayFail, ReadInv, LoadInv, LoadEnd
    PROVE  LoadInv'
<1>1. /\ phase = "loading" /\ phase' = "returned" /\ UNCHANGED <<file, pos>> /\ UNCHANGED vars
  BY DEF LoadEnd, Finished, SameDict
<1>2. ~errs /\ memErr' = memErr
  BY DEF LoadEnd
<1>3. /\ file \in Files /\ Held \in 0 .. Len(file) /\ pos \in Nat /\ Held <= pos
      /\ Held \in Nat
  BY <1>1, HeldIn, Lines
<1>4. Held' = Held
  BY <1>1, <1>2 DEF Held
<1>5. LookupKept
  BY <1>1, SameArrays DEF vars
<1>6. ~\E i \in 1 .. Held : Complete(i, Held) /\ file[i].form = "error"
  BY <1>1, <1>2 DEF ReadInv, ErrorsNoted
<1>7. \A i \in 1 .. Held : file[i].form # "long"
  BY <1>1, <1>3 DEF ReadInv, NoLong
<1>8. Loadable(Prefix(Held))
  BY <1>3, <1>6, <1>7, LoadableIs
<1>9. \A k \in Keys : Lookup(k) = Content(Prefix(Held))[k]
  BY <1>1, <1>3, ContentIs DEF LoadInv
<1>10. SubSeq(file', 1, IF memErr' THEN pos' - 1 ELSE pos') = Prefix(Held)
  BY <1>1, <1>2 DEF Prefix, Held
<1>11. LoadedIsFile'
  BY <1>1, <1>5, <1>8, <1>9, <1>10 DEF LoadedIsFile, LookupKept
<1> QED
  BY <1>1, <1>11 DEF LoadInv

\* ... and a file that is refused has an error or a line that is too long.
LEMMA ErrorsRefuse ==
    ASSUME ~DupMayFail, ReadInv, LoadInv, LoadErrors
    PROVE  LoadInv'
<1>1. phase = "loading" /\ phase' = "refused" /\ UNCHANGED <<file, pos>>
  BY DEF LoadErrors, Finished
<1>2. errs /\ memErr' = memErr
  BY DEF LoadErrors
<1>3. file \in Files /\ Held \in 0 .. Len(file)
  BY <1>1, HeldIn
<1>4. \E i \in 1 .. Held : Complete(i, Held) /\ file[i].form = "error"
  BY <1>1, <1>2 DEF ReadInv, ErrorsNoted
<1>5. ~Loadable(Prefix(Held))
  BY <1>3, <1>4, LoadableIs
<1>6. SubSeq(file', 1, IF memErr' THEN pos' - 1 ELSE pos') = Prefix(Held)
  BY <1>1, <1>2 DEF Prefix, Held
<1>7. LoadedIsFile'
  BY <1>1, <1>5, <1>6 DEF LoadedIsFile
<1> QED
  BY <1>1, <1>7 DEF LoadInv

LEMMA LongRefuses ==
    ASSUME ReadInv, LoadInv, NEW l, TooLong(l)
    PROVE  LoadInv'
<1>1. /\ phase = "loading" /\ phase' = "refused" /\ file' = file /\ pos' = pos + 1
      /\ file[pos + 1].form = "long" /\ pos < Len(file)
  BY DEF TooLong, Reading
<1>2. ~memErr /\ memErr' = memErr
  BY DEF TooLong, Reading
<1>3. file \in Files /\ pos \in Nat /\ Len(file) \in Nat
  BY <1>1, HeldIn, Lines
<1>4. pos + 1 \in 0 .. Len(file) /\ pos + 1 \in 1 .. (pos + 1)
  BY <1>1, <1>3
<1>5. ~Loadable(Prefix(pos + 1))
  BY <1>1, <1>3, <1>4, LoadableIs
<1>6. SubSeq(file', 1, IF memErr' THEN pos' - 1 ELSE pos') = Prefix(pos + 1)
  BY <1>1, <1>2 DEF Prefix
<1>7. LoadedIsFile'
  BY <1>1, <1>5, <1>6 DEF LoadedIsFile
<1> QED
  BY <1>1, <1>7 DEF LoadInv

\* The loop begins with an empty dictionary.
LEMMA BeginLoads ==
    ASSUME ReadInv, LoadInv, LoadBegin
    PROVE  LoadInv'
<1>1. phase = "start" /\ phase' = "loading" /\ pos' = 0
  BY DEF LoadBegin, ReadInv
<1>2. memErr' = FALSE
  BY DEF LoadBegin, ReadInv
<1>3. Held' = pos'
  BY <1>2 DEF Held
<1>4. LookupKept
  BY SameArrays DEF LoadBegin, New
<1>5. \A k \in Keys : Lookup(k)' = ABSENT
  BY <1>1, <1>4 DEF LoadInv, LookupKept
<1>6. \A i \in 1 .. Held' : FALSE
  BY <1>1, <1>3
<1>7. \A k \in Keys : Means(k, Lookup(k), Held)'
  BY <1>5, <1>6 DEF Means
<1>8. LoadedIsFile'
  BY <1>1 DEF LoadedIsFile
<1> QED
  BY <1>1, <1>7, <1>8 DEF LoadInv

LEMMA LoadInvInit == IniInit => LoadInv
<1> SUFFICES ASSUME IniInit PROVE LoadInv
  OBVIOUS
<1>1. Init /\ phase = "start" /\ status = "none"
  BY DEF IniInit, Init
<1>2. \A i \in Slots : key[i] = NULL
  BY <1>1 DEF Init
<1>3. \A k \in Keys : Lookup(k) = ABSENT
  BY <1>1, <1>2, InitIInv, LookupIs, DictAssumption
<1>4. LoadedIsFile
  BY <1>1 DEF LoadedIsFile
<1> QED
  BY <1>1, <1>3, <1>4 DEF LoadInv

LEMMA LoadInvNext ==
    ASSUME ~DupMayFail, IInv, IInv', ReadInv, LoadInv, [IniNext]_<<vars, iniVars>>
    PROVE  LoadInv'
<1>1. ASSUME phase' = "loading", \A k \in Keys : Means(k, Lookup(k), Held)' PROVE LoadInv'
  BY <1>1 DEF LoadInv, LoadedIsFile
<1>2. ASSUME NEW l, Carry(l) \/ Ignore(l) \/ SyntaxError(l) PROVE LoadInv'
  <2>1. phase' = "loading"
    BY <1>2 DEF Carry, Ignore, SyntaxError, Reading
  <2> QED
    BY <1>1, <1>2, <2>1, PassMeans
<1>3. ASSUME NEW l, SectionLine(l) \/ ValueLine(l) PROVE LoadInv'
  <2>1. phase' = "loading"
    BY <1>3 DEF SectionLine, ValueLine, Reading
  <2> QED
    BY <1>1, <1>3, <2>1, SetMeans
<1>4. CASE phase' = "app"
  BY <1>4 DEF LoadInv, LoadedIsFile
<1>5. CASE LoadRefused
  <2>1. phase' = "refused" /\ status' # "freed"
    BY <1>5 DEF LoadRefused, LoadInv, SameDict, vars
  <2> QED
    BY <2>1 DEF LoadInv, LoadedIsFile
<1>6. CASE /\ UNCHANGED iniVars /\ UNCHANGED <<key, val, hash, size>>
           /\ status' = status \/ phase = "loading"
  <2>1. UNCHANGED <<phase, file, pos>> /\ UNCHANGED <<key, val, hash, size>>
    BY <1>6 DEF iniVars
  <2>2. memErr' = memErr
    BY <1>6 DEF iniVars
  <2>3. LookupKept
    BY <2>1, SameArrays
  <2>4. Held' = Held
    BY <2>1, <2>2 DEF Held
  <2>5. phase = "loading" => \A k \in Keys : Means(k, Lookup(k)', Held')
    BY <2>3, <2>4 DEF LoadInv, LookupKept
  <2>6. phase' = "loading" => \A k \in Keys : Means(k, Lookup(k), Held)'
    BY <2>1, <2>5, SameMeaning
  <2>7. SubSeq(file', 1, IF memErr' THEN pos' - 1 ELSE pos') =
           SubSeq(file, 1, IF memErr THEN pos - 1 ELSE pos)
    BY <2>1, <2>2
  <2>8. LoadedIsFile'
    BY <1>6, <2>1, <2>3, <2>7 DEF LoadInv, LoadedIsFile, LookupKept
  <2> QED
    BY <1>6, <2>1, <2>3, <2>6, <2>8 DEF LoadInv, LookupKept
<1>7. CASE LoadBegin \/ LoadEnd \/ LoadErrors
  BY <1>7, BeginLoads, EndLoads, ErrorsRefuse
<1>8. ASSUME NEW l, TooLong(l) PROVE LoadInv'
  BY <1>8, LongRefuses
<1>9. ASSUME NEW l, LineDies(l) PROVE LoadInv'
  BY <1>6, <1>9 DEF LineDies, UseNoKeys
<1>10. CASE ErrorsDie
  BY <1>6, <1>10 DEF ErrorsDie, Finished, UseNoKeys
<1>11. CASE UNCHANGED <<vars, iniVars>>
  BY <1>6, <1>11 DEF vars
<1> QED
  BY <1>2, <1>3, <1>4, <1>5, <1>7, <1>8, <1>9, <1>10, <1>11
     DEF IniNext, Load, iniparser_set, iniparser_unset, iniparser_getstring,
         iniparser_freedict, iniparser_dies, Forget, Refused

\* iniparser_load returns what the file says and refuses a file only for a
\* syntax error or an overlong line, for every file, hash function, size of
\* the dictionary and failure of dictionary_grow, as long as xstrdup does not
\* fail.
THEOREM LoadsTheFile == ASSUME ~DupMayFail PROVE IniSpec => []LoadedIsFile
<1>1. IniSpec => []IInv
  BY ParserUsesDictionary, Inductive, PTL
<1>2. IInv /\ IInv' /\ ReadInv /\ LoadInv /\ [IniNext]_<<vars, iniVars>> => LoadInv'
  BY LoadInvNext
<1>3. LoadInv => LoadedIsFile
  BY DEF LoadInv
<1> QED
  BY <1>1, <1>2, <1>3, ReadInvInit, ReadInvNext, LoadInvInit, PTL DEF IniSpec
=============================================================================
