---------------------------- MODULE JsonTreeProofs ----------------------------
(***************************************************************************)
(* That the trees of cJSON.c stay trees: for any number of items and any   *)
(* sequence of calls, every item that is not freed is owned in exactly one *)
(* place, and no call of cJSON_Delete meets an item that is freed.         *)
(*                                                                         *)
(* A heap h is read as a graph: Succ(h) leads from an item to those it     *)
(* owns.  Reachability is a least closed set, so that what a loop over the *)
(* links visits is reasoned about without counting its rounds.             *)
(***************************************************************************)
EXTENDS JsonTree, FiniteSetTheorems, SequenceTheorems, TLAPS

\* An item whose links stay below n.
Cell(n) == [type : {"null"} \cup Containers, next : 0 .. n, prev : 0 .. n,
            child : 0 .. n, ref : BOOLEAN]

HeapOf(n) == [Items -> Cell(n)]

Heap == HeapOf(MaxItems)

\* What an item owns, by next and by child.
Linked(h, L) ==
    /\ \A j \in L : h[j].next # NIL => h[j].next \in L /\ h[h[j].next].prev = j
    /\ \A j \in L : ~h[j].ref /\ h[j].child # NIL =>
                       h[j].child \in L /\ h[h[j].child].prev = NIL
    /\ \A j, k \in L :
          ~h[j].ref /\ ~h[k].ref /\ h[j].child # NIL /\ h[j].child = h[k].child => j = k

\* The roots are the items that nothing owns, and are in no list.
Rooted(h, L, O) ==
    /\ O \subseteq L
    /\ \A i \in L : i \in O <=> \A j \in L : i \notin Succ(h)[j]
    /\ \A i \in O : h[i].next = NIL

\* No set of items that are all owned from within: no cycle, no orphans.
Founded(h, L) ==
    \A D \in SUBSET L : (\A i \in D : \E j \in D : i \in Succ(h)[j]) => D = {}

\* What two heaps have in common.
SamePrev(g, h, S) == \A i \in S : g[i].prev = h[i].prev
SameRefs(g, h, S) == \A i \in S : g[i].ref = h[i].ref
SameItems(g, h, S) == \A i \in S : g[i] = h[i]

\* An item that is no reference.
NoRef(h, i) == ~h[i].ref

\* The items of S have none before them.
NilPrev(h, S) == \A i \in S : h[i].prev = NIL

\* The items of L form trees with the roots O.
Forest(h, L, O) == L \subseteq Items /\ Linked(h, L) /\ Rooted(h, L, O) /\ Founded(h, L)

-----------------------------------------------------------------------------
(* Reachability.                                                           *)

\* The closure holds S, is closed, and is the least such set; what is in it is
\* in S or was reached from within.
LEMMA ClosureFacts ==
  ASSUME NEW S \in SUBSET Items, NEW succ \in [Items -> SUBSET Items]
  PROVE  /\ Closure(S, succ) \subseteq Items
         /\ S \subseteq Closure(S, succ)
         /\ \A j \in Closure(S, succ) : succ[j] \subseteq Closure(S, succ)
         /\ \A C \in SUBSET Items :
               S \subseteq C /\ (\A j \in C : succ[j] \subseteq C) => Closure(S, succ) \subseteq C
         /\ \A i \in Closure(S, succ) : i \in S \/ \E j \in Closure(S, succ) : i \in succ[j]
<1> DEFINE R == Closure(S, succ)
<1>1. R \subseteq Items /\ S \subseteq R
  BY DEF Closure
<1>2. \A j \in R : succ[j] \subseteq R
  BY DEF Closure
<1>3. \A C \in SUBSET Items :
         S \subseteq C /\ (\A j \in C : succ[j] \subseteq C) => R \subseteq C
  BY DEF Closure
<1>4. ASSUME NEW i \in R, i \notin S, \A j \in R : i \notin succ[j]
      PROVE  FALSE
  <2>1. S \subseteq R \ {i} /\ \A j \in R \ {i} : succ[j] \subseteq R \ {i}
    BY <1>1, <1>2, <1>4
  <2> HIDE DEF R
  <2>2. R \subseteq R \ {i}
    BY <2>1, <1>1, <1>3
  <2> QED
    BY <2>2, <1>4
<1> QED
  BY <1>1, <1>2, <1>3, <1>4

\* The edges of a heap.
LEMMA SuccFacts ==
  ASSUME NEW h \in Heap
  PROVE  /\ Succ(h) \in [Items -> SUBSET Items]
         /\ \A j \in Items, i \in Items :
               i \in Succ(h)[j] <=> h[j].next = i \/ (~h[j].ref /\ h[j].child = i)
<1>1. \A j \in Items : h[j].next \in 0 .. MaxItems /\ h[j].child \in 0 .. MaxItems
  BY DEF Heap, HeapOf, Cell
<1>2. \A j \in Items : Succ(h)[j] = Nexts(h, j) \cup Children(h, j)
  BY DEF Succ
<1>3. ASSUME NEW j \in Items PROVE Nexts(h, j) \cup Children(h, j) \in SUBSET Items
  BY <1>1, JsonAssumption DEF Nexts, Children, Items, NIL
<1>4. Succ(h) \in [Items -> SUBSET Items]
  BY <1>3 DEF Succ
<1>5. ASSUME NEW j \in Items, NEW i \in Items
      PROVE  i \in Succ(h)[j] <=> h[j].next = i \/ (~h[j].ref /\ h[j].child = i)
  <2>1. i # NIL
    BY JsonAssumption DEF Items, NIL
  <2> QED
    BY ONLY <2>1, <1>2, j \in Items DEF Nexts, Children
<1> QED
  BY <1>4, <1>5

\* What an item of L owns is in L.
LEMMA OwnedIn ==
  ASSUME NEW h \in Heap, NEW L \in SUBSET Items, Linked(h, L),
         NEW j \in L, NEW i \in Succ(h)[j]
  PROVE  i \in L
<1>1. i \in Items /\ (h[j].next = i \/ (~h[j].ref /\ h[j].child = i))
  BY SuccFacts
<1>2. i # NIL
  BY <1>1, JsonAssumption DEF Items, NIL
<1> QED
  BY <1>1, <1>2 DEF Linked

\* An item is owned by one other, which owns it by one link.
LEMMA OneOwner ==
  ASSUME NEW h \in Heap, NEW L \in SUBSET Items, Linked(h, L),
         NEW i \in L, NEW j \in L, NEW k \in L, i \in Succ(h)[j], i \in Succ(h)[k]
  PROVE  j = k /\ ~(h[j].next = i /\ ~h[j].ref /\ h[j].child = i)
<1>1. (h[j].next = i \/ (~h[j].ref /\ h[j].child = i)) /\ (h[k].next = i \/ (~h[k].ref /\ h[k].child = i))
  BY SuccFacts
<1>2. i # NIL /\ j # NIL /\ k # NIL
  BY DEF Items, NIL
<1> QED
  BY <1>1, <1>2 DEF Linked

\* In particular by next or by child, not by both.
LEMMA OneLink ==
  ASSUME NEW h \in Heap, NEW L \in SUBSET Items, Linked(h, L), NEW j \in L,
         h[j].next \in L, ~h[j].ref
  PROVE  h[j].child # h[j].next
<1>1. j # NIL /\ h[j].next # NIL
  BY JsonAssumption DEF Items, NIL
<1> QED
  BY <1>1 DEF Linked

\* In a forest whatever is not reached from the roots would be owned from
\* within, so everything is reached.
LEMMA AllReached ==
  ASSUME NEW h \in Heap, NEW L, NEW O, Forest(h, L, O)
  PROVE  L \subseteq Closure(O, Succ(h))
<1> DEFINE R == Closure(O, Succ(h))
           D == L \ R
<1>1. O \subseteq R /\ \A j \in R : Succ(h)[j] \subseteq R
  BY SuccFacts, ClosureFacts DEF Forest, Rooted
<1>2. ASSUME NEW i \in D PROVE \E j \in D : i \in Succ(h)[j]
  BY <1>1, <1>2 DEF Forest, Rooted
<1> HIDE DEF R
<1>3. D = {}
  BY <1>2 DEF Forest, Founded
<1> QED
  BY <1>3 DEF R

\* The converse: when everything is reached there is no cycle and no orphan.
LEMMA ReachedFounded ==
  ASSUME NEW h \in Heap, NEW L \in SUBSET Items, NEW O \in SUBSET L,
         Linked(h, L), \A i \in O : \A j \in L : i \notin Succ(h)[j],
         L \subseteq Closure(O, Succ(h))
  PROVE  Founded(h, L)
<1> SUFFICES ASSUME NEW D \in SUBSET L, \A i \in D : \E j \in D : i \in Succ(h)[j]
             PROVE  D = {}
  BY DEF Founded
<1> DEFINE C == L \ D
<1>1. O \subseteq C
  OBVIOUS
<1>2. ASSUME NEW j \in C, NEW i \in Succ(h)[j] PROVE i \in C
  <2>1. i \in L
    BY <1>2, OwnedIn
  <2>2. CASE i \in D
    <3>1. PICK k \in D : i \in Succ(h)[k]
      BY <2>2
    <3>2. j = k
      BY <3>1, <1>2, <2>1, OneOwner
    <3> QED
      BY <3>1, <3>2
  <2> QED
    BY <2>1, <2>2
<1>3. C \in SUBSET Items /\ \A j \in C : Succ(h)[j] \subseteq C
  BY <1>2
<1> HIDE DEF C
<1>4. Closure(O, Succ(h)) \subseteq C
  BY <1>1, <1>3, SuccFacts, ClosureFacts
<1> QED
  BY <1>4 DEF C

-----------------------------------------------------------------------------
(* Forests put side by side.                                               *)

\* Whether items are trees depends on their links alone.
LEMMA SameForest ==
  ASSUME NEW h \in Heap, NEW g \in Heap, NEW L, NEW O, Forest(h, L, O),
         \A i \in L : /\ g[i].next = h[i].next /\ g[i].prev = h[i].prev
                      /\ g[i].child = h[i].child /\ g[i].ref = h[i].ref
  PROVE  Forest(g, L, O)
<1>1. L \subseteq Items /\ O \subseteq L
  BY DEF Forest, Rooted
<1>2. \A j \in L : Succ(g)[j] = Succ(h)[j]
  BY <1>1 DEF Succ, Nexts, Children
<1>3. Linked(g, L)
  BY DEF Forest, Linked
<1>4. Rooted(g, L, O)
  BY <1>1, <1>2 DEF Forest, Rooted
<1>5. Founded(g, L)
  BY <1>2 DEF Forest, Founded
<1> QED
  BY <1>1, <1>3, <1>4, <1>5 DEF Forest

\* Two forests that share no item are one forest.
LEMMA ForestUnion ==
  ASSUME NEW h \in Heap, NEW L, NEW O, NEW M, NEW P,
         Forest(h, L, O), Forest(h, M, P), L \cap M = {}
  PROVE  Forest(h, L \cup M, O \cup P)
<1>1. L \subseteq Items /\ M \subseteq Items /\ O \subseteq L /\ P \subseteq M
  BY DEF Forest, Rooted
<1>2. /\ \A j \in L : \A i \in Succ(h)[j] : i \in L
      /\ \A j \in M : \A i \in Succ(h)[j] : i \in M
  BY <1>1, OwnedIn DEF Forest
<1>3. Linked(h, L \cup M)
  <2>1. \A j, k \in L \cup M :
          ~h[j].ref /\ ~h[k].ref /\ h[j].child # NIL /\ h[j].child = h[k].child => j = k
    BY DEF Forest, Linked
  <2> QED
    BY <2>1 DEF Forest, Linked
<1>4. Rooted(h, L \cup M, O \cup P)
  BY <1>1, <1>2 DEF Forest, Rooted
<1>5. ASSUME NEW D \in SUBSET (L \cup M), \A i \in D : \E j \in D : i \in Succ(h)[j]
      PROVE  D = {}
  <2>1. \A i \in D \cap L : \E j \in D \cap L : i \in Succ(h)[j]
    BY <1>2, <1>5
  <2>2. \A i \in D \cap M : \E j \in D \cap M : i \in Succ(h)[j]
    BY <1>2, <1>5
  <2>3. D \cap L = {} /\ D \cap M = {}
    BY <2>1, <2>2 DEF Forest, Founded
  <2> QED
    BY <2>3
<1> QED
  BY <1>1, <1>3, <1>4, <1>5 DEF Forest, Founded

\* An item that owns nothing is a tree.
LEMMA SingleForest ==
  ASSUME NEW h \in Heap, NEW x \in Items, h[x].next = NIL, h[x].ref \/ h[x].child = NIL
  PROVE  Forest(h, {x}, {x})
<1>1. Succ(h)[x] = {}
  BY DEF Succ, Nexts, Children
<1> QED
  BY <1>1 DEF Forest, Linked, Rooted, Founded

-----------------------------------------------------------------------------
(* Trees and lists.                                                        *)

\* The tree at a root is what cJSON_Delete frees: closed, owned from within,
\* with no other root in it.
LEMMA TreeFacts ==
  ASSUME NEW h \in Heap, NEW L, NEW O, Forest(h, L, O), NEW r \in O
  PROVE  /\ r \in Tree(h, r) /\ Tree(h, r) \subseteq L
         /\ Deleted(h, r) = Tree(h, r)
         /\ \A j \in Tree(h, r) : Succ(h)[j] \subseteq Tree(h, r)
         /\ \A i \in Tree(h, r), j \in L : i \in Succ(h)[j] => j \in Tree(h, r)
         /\ Tree(h, r) \cap O = {r}
         /\ \A C \in SUBSET Items :
               r \in C /\ (\A j \in C : Succ(h)[j] \subseteq C) => Tree(h, r) \subseteq C
<1> DEFINE K == Children(h, r)
           U == Closure(K, Succ(h))
           T == Tree(h, r)
           X == Deleted(h, r)
<1>0. T = {r} \cup U /\ X = Closure({r}, Succ(h))
  BY DEF Tree, Deleted
<1>1. L \subseteq Items /\ O \subseteq L /\ r \in Items
  BY DEF Forest, Rooted
<1>2. Succ(h)[r] = K
  BY <1>1 DEF Succ, Nexts, Children, Forest, Rooted
<1>3. K \in SUBSET Items /\ Succ(h) \in [Items -> SUBSET Items]
  BY <1>1, <1>2, SuccFacts
<1>4. \A j \in L : Succ(h)[j] \subseteq L
  BY <1>1, OwnedIn DEF Forest
<1> HIDE DEF K, T, X
<1>5. /\ U \subseteq Items /\ K \subseteq U
      /\ \A j \in U : Succ(h)[j] \subseteq U
      /\ \A C \in SUBSET Items :
            K \subseteq C /\ (\A j \in C : Succ(h)[j] \subseteq C) => U \subseteq C
      /\ \A i \in U : i \in K \/ \E j \in U : i \in Succ(h)[j]
  BY <1>3, ClosureFacts
<1>6. /\ r \in X /\ X \subseteq Items
      /\ \A j \in X : Succ(h)[j] \subseteq X
      /\ \A C \in SUBSET Items :
            r \in C /\ (\A j \in C : Succ(h)[j] \subseteq C) => X \subseteq C
  <2>1. {r} \in SUBSET Items
    BY <1>1
  <2>2. /\ X \subseteq Items /\ {r} \subseteq X
        /\ \A j \in X : Succ(h)[j] \subseteq X
        /\ \A C \in SUBSET Items :
              {r} \subseteq C /\ (\A j \in C : Succ(h)[j] \subseteq C) => X \subseteq C
    BY ONLY <1>0, <1>3, <2>1, ClosureFacts
  <2> QED
    BY <2>2
<1> HIDE DEF U
<1>7. r \in T /\ T \subseteq L
  BY <1>0, <1>1, <1>2, <1>4, <1>5
<1>8. \A j \in T : Succ(h)[j] \subseteq T
  BY <1>0, <1>2, <1>5
<1>9. \A C \in SUBSET Items : r \in C /\ (\A j \in C : Succ(h)[j] \subseteq C) => T \subseteq C
  BY <1>0, <1>2, <1>5
<1>10. X = T
  BY <1>1, <1>6, <1>7, <1>8, <1>9
<1>11. \A i \in T \ {r} : \E j \in T : i \in Succ(h)[j]
  BY <1>0, <1>2, <1>5
<1>12. T \cap O = {r}
  BY <1>1, <1>7, <1>11 DEF Forest, Rooted
<1>13. ASSUME NEW i \in T, NEW j \in L, i \in Succ(h)[j] PROVE j \in T
  <2>1. i # r
    BY <1>13 DEF Forest, Rooted
  <2>2. PICK k \in T : i \in Succ(h)[k]
    BY <2>1, <1>11
  <2>3. j = k
    BY <1>1, <1>7, <1>13, <2>2, OneOwner DEF Forest
  <2> QED
    BY <2>2, <2>3
<1> QED
  BY <1>7, <1>8, <1>9, <1>10, <1>12, <1>13 DEF T, X

\* The list of a container: linked both ways from its first item on, and inside
\* every closed set that the container is in.
LEMMA ListFacts ==
  ASSUME NEW h \in Heap, NEW L, NEW O, Forest(h, L, O), NEW a \in L, ~h[a].ref
  PROVE  /\ List(h, a) \subseteq L
         /\ h[a].child # NIL => h[a].child \in List(h, a)
         /\ \A c \in List(h, a) : h[c].next # NIL => h[c].next \in List(h, a)
         /\ \A c \in List(h, a) :
               IF c = h[a].child THEN h[c].prev = NIL
               ELSE h[c].prev \in List(h, a) /\ h[h[c].prev].next = c
         /\ \A C \in SUBSET Items :
               a \in C /\ (\A j \in C : Succ(h)[j] \subseteq C) => List(h, a) \subseteq C
<1> DEFINE F == {h[a].child} \ {NIL}
           N == [i \in Items |-> Nexts(h, i)]
           S == Closure(F, N)
<1>1. L \subseteq Items /\ Linked(h, L)
  BY DEF Forest
<1>2. F \in SUBSET Items /\ N \in [Items -> SUBSET Items]
  <2>1. \A i \in Items : h[i].child \in 0 .. MaxItems /\ h[i].next \in 0 .. MaxItems
    BY DEF Heap, HeapOf, Cell
  <2>2. F \in SUBSET Items
    BY <2>1, <1>1, JsonAssumption DEF Items, NIL
  <2>3. \A i \in Items : Nexts(h, i) \subseteq Items
    BY <2>1, JsonAssumption DEF Items, NIL, Nexts
  <2> QED
    BY <2>2, <2>3
<1>3. \A i \in Items : N[i] = {h[i].next} \ {NIL}
  BY DEF Nexts
<1>4. F \subseteq L /\ F \subseteq Succ(h)[a] /\ \A j \in Items : N[j] \subseteq Succ(h)[j]
  BY <1>1, <1>3 DEF Linked, Succ, Children
<1>5. \A j \in L : N[j] \subseteq L
  BY <1>1, <1>3 DEF Linked
<1> HIDE DEF N, F
<1>6. /\ S \subseteq Items /\ F \subseteq S
      /\ \A j \in S : N[j] \subseteq S
      /\ \A C \in SUBSET Items :
            F \subseteq C /\ (\A j \in C : N[j] \subseteq C) => S \subseteq C
      /\ \A i \in S : i \in F \/ \E j \in S : i \in N[j]
  BY <1>2, ClosureFacts
<1> HIDE DEF S
<1>7. S = List(h, a)
  BY DEF S, F, N, List
<1>8. S \subseteq L
  BY <1>1, <1>4, <1>5, <1>6
<1>9. h[a].child # NIL => h[a].child \in S
  BY <1>6 DEF F
<1>10. \A c \in S : h[c].next # NIL => h[c].next \in S
  BY <1>3, <1>6
<1>11. ASSUME NEW c \in S
       PROVE  IF c = h[a].child THEN h[c].prev = NIL ELSE h[c].prev \in S /\ h[h[c].prev].next = c
  <2>1. c # NIL
    BY <1>6 DEF Items, NIL
  <2>2. CASE c = h[a].child
    BY <2>1, <2>2, <1>1 DEF Linked
  <2>3. CASE c # h[a].child
    <3>1. PICK j \in S : c \in N[j]
      BY <2>3, <1>6 DEF F
    <3>2. h[j].next = c /\ j \in L
      BY <3>1, <1>3, <1>6, <1>8
    <3> QED
      BY <3>2, <2>1, <2>3, <1>1 DEF Linked
  <2> QED
    BY <2>2, <2>3
<1>12. ASSUME NEW C \in SUBSET Items, a \in C, \A j \in C : Succ(h)[j] \subseteq C
       PROVE  S \subseteq C
  <2>1. F \subseteq C
    BY <1>4, <1>12
  <2>2. \A j \in C : N[j] \subseteq C
    BY <1>4, <1>12
  <2> QED
    BY <2>1, <2>2, <1>6
<1> QED
  BY <1>7, <1>8, <1>9, <1>10, <1>11, <1>12

\* The loop to the end of a list ends: were every item followed by another, the
\* items would have more successors among themselves than the first leaves over.
LEMMA LastExists ==
  ASSUME NEW h \in Heap, NEW L, NEW O, Forest(h, L, O), NEW a \in L, ~h[a].ref,
         h[a].child # NIL
  PROVE  LastItem(h, a) \in List(h, a) /\ h[LastItem(h, a)].next = NIL
<1> DEFINE S == List(h, a)
           b == h[a].child
           f == [i \in S |-> h[i].next]
<1>1. S \subseteq L /\ L \subseteq Items /\ b \in S /\ h[b].prev = NIL
  BY ListFacts DEF Forest
<1>2. SUFFICES ASSUME \A c \in S : h[c].next # NIL PROVE FALSE
  BY DEF LastItem
<1>3. \A c \in S : h[c].next \in S /\ h[h[c].next].prev = c /\ c # NIL
  <2>1. \A c \in S : h[c].next \in S
    BY <1>2, ListFacts
  <2>2. \A c \in L : c # NIL
    BY <1>1, JsonAssumption DEF Items, NIL
  <2> QED
    BY <1>1, <1>2, <2>1, <2>2 DEF Forest, Linked
<1> HIDE DEF S, b
<1>4. f \in [S -> S \ {b}]
  BY <1>1, <1>3
<1>5. \A c, d \in S : f[c] = f[d] => c = d
  BY <1>3
<1>6. IsFiniteSet(S)
  <2>1. IsFiniteSet(Items)
    BY JsonAssumption, FS_Interval DEF Items
  <2> QED
    BY <1>1, <2>1, FS_Subset
<1>7. IsFiniteSet(S \ {b}) /\ Cardinality(S \ {b}) = Cardinality(S) - 1
  BY <1>1, <1>6, FS_RemoveElement
<1>8. Cardinality(S \ {b}) < Cardinality(S)
  BY <1>6, <1>7, FS_CardinalityType
<1> HIDE DEF f
<1> QED
  BY <1>4, <1>5, <1>6, <1>7, <1>8, FS_PigeonHole

-----------------------------------------------------------------------------
(* The list surgery keeps a forest a forest.                               *)

\* A heap with few items is a heap.
LEMMA HeapOfHeap ==
  ASSUME NEW n \in 0 .. MaxItems, NEW h \in HeapOf(n)
  PROVE  h \in Heap
<1>1. Cell(n) \subseteq Cell(MaxItems)
  BY JsonAssumption DEF Cell
<1> QED
  BY <1>1 DEF Heap, HeapOf

\* An edge from q, which some tree other than x's holds, to the root x makes x
\* a part of that tree.
LEMMA JoinForest ==
  ASSUME NEW h \in Heap, NEW g \in Heap, NEW L, NEW O, Forest(h, L, O),
         NEW x \in O, NEW r \in O \ {x}, NEW q \in Tree(h, r),
         \A j \in Items, i \in Items :
            i \in Succ(g)[j] <=> i \in Succ(h)[j] \/ (j = q /\ i = x),
         Linked(g, L), \A i \in O \ {x} : g[i].next = NIL
  PROVE  Forest(g, L, O \ {x})
<1>1. L \subseteq Items /\ O \subseteq L /\ q \in L /\ Linked(h, L)
  <2>1. L \subseteq Items /\ O \subseteq L /\ Linked(h, L)
    BY DEF Forest, Rooted
  <2>2. Tree(h, r) \subseteq L
    BY TreeFacts, Zenon
  <2> QED
    BY <2>1, <2>2
<1>2. Rooted(g, L, O \ {x})
  <2>1. \A i \in L : i \in O <=> \A j \in L : i \notin Succ(h)[j]
    BY DEF Forest, Rooted
  <2> QED
    BY <1>1, <2>1 DEF Rooted
<1> DEFINE R == Closure(O \ {x}, Succ(g))
<1>3. Succ(g) \in [Items -> SUBSET Items] /\ Succ(h) \in [Items -> SUBSET Items]
  BY SuccFacts
<1>4. R \subseteq Items /\ O \ {x} \subseteq R /\ \A j \in R : Succ(g)[j] \subseteq R
  <2> DEFINE S == O \ {x}
             E == Succ(g)
  <2>1. S \in SUBSET Items /\ E \in [Items -> SUBSET Items]
    BY <1>1, <1>3
  <2> HIDE DEF S, E
  <2>2. /\ Closure(S, E) \subseteq Items /\ S \subseteq Closure(S, E)
        /\ \A j \in Closure(S, E) : E[j] \subseteq Closure(S, E)
    BY ONLY <2>1, ClosureFacts
  <2> QED
    BY <2>2 DEF S, E
<1> HIDE DEF R
<1>5. \A j \in R : Succ(h)[j] \subseteq R
  BY <1>3, <1>4
<1>6. q \in R
  BY <1>4, <1>5, TreeFacts
<1>7. x \in R
  BY <1>1, <1>4, <1>6
<1>8. Closure(O, Succ(h)) \subseteq R
  BY <1>1, <1>3, <1>4, <1>5, <1>7, ClosureFacts
<1>9. L \subseteq Closure(O \ {x}, Succ(g))
  BY <1>8, AllReached DEF R
<1>10. Founded(g, L)
  BY <1>1, <1>2, <1>9, ReachedFounded DEF Rooted
<1> QED
  BY <1>1, <1>2, <1>10 DEF Forest

\* cJSON_AddItemToArray.
LEMMA AppendedForest ==
  ASSUME NEW n \in 0 .. MaxItems, NEW h \in HeapOf(n), NEW L, NEW O, Forest(h, L, O),
         L \subseteq 1 .. n, NEW x \in O, h[x].prev = NIL,
         NEW r \in O \ {x}, NEW a \in Tree(h, r), ~h[a].ref
  PROVE  /\ Appended(h, a, x) \in HeapOf(n)
         /\ Forest(Appended(h, a, x), L, O \ {x})
         /\ SamePrev(Appended(h, a, x), h, Items \ {x})
         /\ SameRefs(Appended(h, a, x), h, Items)
<1> DEFINE g == Appended(h, a, x)
<1>1. h \in Heap
  BY HeapOfHeap
<1>2. L \subseteq Items /\ O \subseteq L /\ a \in L /\ Linked(h, L)
  <2>1. L \subseteq Items /\ O \subseteq L /\ Linked(h, L)
    BY DEF Forest, Rooted
  <2>2. Tree(h, r) \subseteq L
    BY <1>1, TreeFacts, Zenon
  <2> QED
    BY <2>1, <2>2
<1>3. x \in 1 .. n /\ a \in 1 .. n /\ x # NIL
  <2>1. x \in L /\ a \in L
    BY <1>2
  <2> QED
    BY ONLY <2>1, n \in 0 .. MaxItems, L \subseteq 1 .. n, JsonAssumption DEF NIL
<1>4. \A j \in L : x \notin Succ(h)[j]
  BY <1>2 DEF Forest, Rooted
<1>5. CASE h[a].child = NIL
  <2>1. g = [h EXCEPT ![a].child = x]
    BY <1>5 DEF Appended
  <2>2. g \in HeapOf(n)
    BY <2>1, <1>2, <1>3 DEF HeapOf, Cell
  <2>3. /\ \A i \in Items : /\ g[i].next = h[i].next /\ g[i].prev = h[i].prev
                            /\ g[i].ref = h[i].ref
                            /\ g[i].child = IF i = a THEN x ELSE h[i].child
    BY <2>1, <1>2 DEF HeapOf, Cell
  <2>4. g \in Heap
    BY <2>2, HeapOfHeap
  <2> HIDE DEF g
  <2>5. \A j \in Items, i \in Items :
            i \in Succ(g)[j] <=> i \in Succ(h)[j] \/ (j = a /\ i = x)
    <3>1. \A i \in Items : i # NIL
      BY DEF Items, NIL
    <3> QED
      BY <1>1, <2>3, <2>4, <1>5, <3>1, SuccFacts
  <2>6. Linked(g, L)
    <3>1. \A j \in L : ~h[j].ref => h[j].child # x
      BY <1>1, <1>2, <1>4, SuccFacts
    <3>2. ASSUME NEW j \in L, g[j].next # NIL
          PROVE  g[j].next \in L /\ g[g[j].next].prev = j
      <4>1. h[j].next \in L /\ h[h[j].next].prev = j
        BY <2>3, <1>2, <3>2 DEF Linked
      <4> QED
        BY <2>3, <1>2, <4>1
    <3>3. ASSUME NEW j \in L, ~g[j].ref, g[j].child # NIL
          PROVE  g[j].child \in L /\ g[g[j].child].prev = NIL
      <4>1. j # a => h[j].child \in L /\ h[h[j].child].prev = NIL
        BY <2>3, <1>2, <3>3 DEF Linked
      <4> QED
        BY <2>3, <1>2, <4>1
    <3>4. \A j, k \in L :
            ~g[j].ref /\ ~g[k].ref /\ g[j].child # NIL /\ g[j].child = g[k].child => j = k
      BY <2>3, <1>2, <3>1 DEF Linked
    <3> QED
      BY <3>2, <3>3, <3>4 DEF Linked
  <2>7. Forest(g, L, O \ {x})
    <3>1. \A i \in O \ {x} : g[i].next = NIL
      BY <2>3, <1>2 DEF Forest, Rooted
    <3> QED
      BY <1>1, <2>4, <2>5, <2>6, <3>1, JoinForest
  <2> QED
    BY <2>2, <2>3, <2>7 DEF g, SamePrev, SameRefs
<1>6. CASE h[a].child # NIL
  <2> DEFINE l == LastItem(h, a)
  <2>1. g = [h EXCEPT ![l].next = x, ![x].prev = l]
    BY <1>6 DEF Appended
  <2>2. l \in List(h, a) /\ h[l].next = NIL
    BY <1>1, <1>2, <1>6, LastExists
  <2>3. l \in L /\ \E j \in L : l \in Succ(h)[j]
    <3>1. l \in L /\ (l = h[a].child \/ (h[l].prev \in L /\ h[h[l].prev].next = l))
      BY <2>2, <1>1, <1>2, ListFacts
    <3> QED
      BY <3>1, <1>1, <1>2, SuccFacts
  <2>4. l \notin O /\ l # x
    BY <2>3, <1>4 DEF Forest, Rooted
  <2>5. l \in Tree(h, r)
    BY <2>2, <1>1, <1>2, ListFacts, TreeFacts
  <2> HIDE DEF l
  <2>6. g \in HeapOf(n)
    BY <2>1, <2>3, <1>2, <1>3 DEF HeapOf, Cell
  <2>7. \A i \in Items : /\ g[i].next = IF i = l THEN x ELSE h[i].next
                         /\ g[i].prev = IF i = x THEN l ELSE h[i].prev
                         /\ g[i].ref = h[i].ref /\ g[i].child = h[i].child
    BY <2>1, <2>3, <2>4, <1>2 DEF HeapOf, Cell
  <2>8. g \in Heap
    BY <2>6, HeapOfHeap
  <2> HIDE DEF g
  <2>9. \A j \in Items, i \in Items :
            i \in Succ(g)[j] <=> i \in Succ(h)[j] \/ (j = l /\ i = x)
    <3>1. \A i \in Items : i # NIL
      BY DEF Items, NIL
    <3> QED
      BY <1>1, <2>2, <2>7, <2>8, <3>1, SuccFacts
  <2>10. Linked(g, L)
    <3>1. \A j \in L : (~h[j].ref => h[j].child # x) /\ h[j].next # x
      BY <1>1, <1>2, <1>4, SuccFacts
    <3>2. ASSUME NEW j \in L, g[j].next # NIL
          PROVE  g[j].next \in L /\ g[g[j].next].prev = j
      <4>1. j # l => h[j].next \in L /\ h[h[j].next].prev = j /\ h[j].next # x
        BY <2>7, <1>2, <3>1, <3>2 DEF Linked
      <4> QED
        BY <2>7, <1>2, <4>1
    <3>3. ASSUME NEW j \in L, ~g[j].ref, g[j].child # NIL
          PROVE  g[j].child \in L /\ g[g[j].child].prev = NIL
      <4>1. h[j].child \in L /\ h[h[j].child].prev = NIL /\ h[j].child # x
        BY <2>7, <1>2, <3>1, <3>3 DEF Linked
      <4> QED
        BY <2>7, <1>2, <4>1
    <3>4. ASSUME NEW j \in L, NEW k \in L, ~g[j].ref, ~g[k].ref, g[j].child # NIL,
                 g[j].child = g[k].child
          PROVE  j = k
      <4>1. ~h[j].ref /\ ~h[k].ref /\ h[j].child # NIL /\ h[j].child = h[k].child
        BY <2>7, <1>2, <3>4
      <4> QED
        BY <4>1, <1>2 DEF Linked
    <3> QED
      BY <3>2, <3>3, <3>4 DEF Linked
  <2>11. Forest(g, L, O \ {x})
    <3>1. \A i \in O \ {x} : g[i].next = NIL
      BY <2>4, <2>7, <1>2 DEF Forest, Rooted
    <3> QED
      BY <1>1, <2>5, <2>8, <2>9, <2>10, <3>1, JoinForest
  <2> QED
    BY <2>6, <2>7, <2>11 DEF g, SamePrev, SameRefs
<1> QED
  BY <1>5, <1>6

\* The owner of an item of a list: its container when it is the first, else the
\* item before it; and neither is the item itself.
LEMMA ListOwner ==
  ASSUME NEW h \in Heap, NEW L, NEW O, Forest(h, L, O), NEW a \in L, ~h[a].ref,
         NEW c \in List(h, a), NEW q, q = IF c = h[a].child THEN a ELSE h[c].prev
  PROVE  /\ c \in L /\ q \in L /\ c \in Succ(h)[q] /\ c \notin O /\ q # c
         /\ \A j \in L : c \in Succ(h)[j] => j = q
         /\ c = h[a].child => h[c].prev = NIL
         /\ c # h[a].child => h[q].next = c
         /\ h[c].next # c /\ \A k \in L : h[k].next # k
         /\ \A C \in SUBSET Items :
               a \in C /\ (\A j \in C : Succ(h)[j] \subseteq C) => c \in C
<1>1. L \subseteq Items /\ Linked(h, L) /\ Founded(h, L)
  BY DEF Forest
<1>2. /\ c \in L
      /\ IF c = h[a].child THEN h[c].prev = NIL ELSE h[c].prev \in L /\ h[h[c].prev].next = c
      /\ \A C \in SUBSET Items :
               a \in C /\ (\A j \in C : Succ(h)[j] \subseteq C) => c \in C
  BY ListFacts
<1>3. q \in L /\ c \in Succ(h)[q]
  BY <1>1, <1>2, SuccFacts
<1>4. c \notin O
  BY <1>2, <1>3 DEF Forest, Rooted
<1>5. ASSUME NEW j \in L PROVE j \notin Succ(h)[j]
  <2>1. (\A i \in {j} : \E k \in {j} : i \in Succ(h)[k]) => {j} = {}
    BY <1>1 DEF Founded
  <2> QED
    BY <2>1
<1>6. \A k \in L : h[k].next # k
  BY <1>1, <1>5, SuccFacts
<1>7. \A j \in L : c \in Succ(h)[j] => j = q
  BY <1>1, <1>2, <1>3, OneOwner
<1> QED
  BY <1>2, <1>3, <1>4, <1>5, <1>6, <1>7

\* A pointer into the first n items, or a null pointer.
Pointer(n) == 0 .. n

\* One assignment through a pointer.
SetNext(h, x, v) == [h EXCEPT ![x].next = v]
SetPrev(h, x, v) == [h EXCEPT ![x].prev = v]
SetChild(h, x, v) == [h EXCEPT ![x].child = v]

\* It changes the one field of the one item.
LEMMA SetNextFacts ==
  ASSUME NEW n \in 0 .. MaxItems, NEW h \in HeapOf(n), NEW x \in Items, NEW v \in Pointer(n)
  PROVE  /\ SetNext(h, x, v) \in HeapOf(n)
         /\ \A i \in Items : /\ SetNext(h, x, v)[i].next = IF i = x THEN v ELSE h[i].next
                             /\ SetNext(h, x, v)[i].prev = h[i].prev
                             /\ SetNext(h, x, v)[i].child = h[i].child
                             /\ SetNext(h, x, v)[i].ref = h[i].ref
  BY DEF SetNext, HeapOf, Cell, Pointer

\* Likewise prev.
LEMMA SetPrevFacts ==
  ASSUME NEW n \in 0 .. MaxItems, NEW h \in HeapOf(n), NEW x \in Items, NEW v \in Pointer(n)
  PROVE  /\ SetPrev(h, x, v) \in HeapOf(n)
         /\ \A i \in Items : /\ SetPrev(h, x, v)[i].prev = IF i = x THEN v ELSE h[i].prev
                             /\ SetPrev(h, x, v)[i].next = h[i].next
                             /\ SetPrev(h, x, v)[i].child = h[i].child
                             /\ SetPrev(h, x, v)[i].ref = h[i].ref
  BY DEF SetPrev, HeapOf, Cell, Pointer

\* Likewise child.
LEMMA SetChildFacts ==
  ASSUME NEW n \in 0 .. MaxItems, NEW h \in HeapOf(n), NEW x \in Items, NEW v \in Pointer(n)
  PROVE  /\ SetChild(h, x, v) \in HeapOf(n)
         /\ \A i \in Items : /\ SetChild(h, x, v)[i].child = IF i = x THEN v ELSE h[i].child
                             /\ SetChild(h, x, v)[i].next = h[i].next
                             /\ SetChild(h, x, v)[i].prev = h[i].prev
                             /\ SetChild(h, x, v)[i].ref = h[i].ref
  BY DEF SetChild, HeapOf, Cell, Pointer

\* cJSON_DetachItemFromArray for the first item, or for one that is the last:
\* the item becomes a root.
LEMMA DetachedForest ==
  ASSUME NEW n \in 0 .. MaxItems, NEW h \in HeapOf(n), NEW L, NEW O, Forest(h, L, O),
         L \subseteq 1 .. n, NEW a \in L, ~h[a].ref, NEW c \in List(h, a),
         c = h[a].child \/ h[c].next = NIL
  PROVE  /\ Detached(h, a, c) \in HeapOf(n)
         /\ Forest(Detached(h, a, c), L, O \cup {c})
         /\ NilPrev(h, O) => NilPrev(Detached(h, a, c), O)
         /\ c = h[a].child => Detached(h, a, c)[c].prev = NIL
<1> DEFINE g == Detached(h, a, c)
           m == h[c].next
           q == IF c = h[a].child THEN a ELSE h[c].prev
<1>1. h \in Heap /\ \A i \in Items : i # NIL
  BY HeapOfHeap, JsonAssumption DEF Items, NIL
<1>2. /\ L \subseteq Items /\ O \subseteq L /\ Linked(h, L) /\ Founded(h, L)
      /\ \A i \in L : i \in O <=> \A j \in L : i \notin Succ(h)[j]
      /\ \A i \in O : h[i].next = NIL
  BY DEF Forest, Rooted
<1>3. /\ c \in L /\ q \in L /\ c \in Succ(h)[q] /\ c \notin O /\ q # c
      /\ \A j \in L : c \in Succ(h)[j] => j = q
      /\ c = h[a].child => h[c].prev = NIL
      /\ c # h[a].child => h[q].next = c
      /\ h[c].next # c
  BY <1>1, ListOwner
<1>4. m # NIL => m \in L /\ h[m].prev = c /\ m # c
  BY <1>2, <1>3 DEF Linked
<1>5. m \in 0 .. n
  BY <1>2, <1>3 DEF HeapOf, Cell
<1>6. /\ g \in HeapOf(n)
      /\ \A i \in Items :
           /\ g[i].next = IF i = c THEN NIL
                          ELSE IF i = q /\ c # h[a].child THEN NIL ELSE h[i].next
           /\ g[i].prev = IF i = c /\ c = h[a].child THEN NIL
                          ELSE IF i = m THEN NIL ELSE h[i].prev
           /\ g[i].child = IF i = a /\ c = h[a].child THEN m ELSE h[i].child
           /\ g[i].ref = h[i].ref
  <2>1. CASE c = h[a].child /\ m # NIL
    <3>1. g = [[h EXCEPT ![m].prev = NIL] EXCEPT ![a].child = m, ![c].prev = NIL, ![c].next = NIL]
      BY <2>1, <1>3 DEF Detached, NIL
    <3> DEFINE e == [h EXCEPT ![m].prev = NIL]
    <3>0. a # c
      BY <2>1, <1>3
    <3> HIDE DEF g, m, q
    <3>2. m \in Items /\ c \in Items /\ a \in Items /\ m # c
      BY <2>1, <1>2, <1>3, <1>4
    <3>3. /\ e \in HeapOf(n)
          /\ \A i \in Items : /\ e[i].prev = IF i = m THEN NIL ELSE h[i].prev
                              /\ e[i].next = h[i].next /\ e[i].child = h[i].child
                              /\ e[i].ref = h[i].ref
      BY <3>2, JsonAssumption DEF HeapOf, Cell, NIL
    <3>4. g = [e EXCEPT ![a].child = m, ![c].prev = NIL, ![c].next = NIL]
      BY <3>1
    <3> HIDE DEF e
    <3>5. g \in HeapOf(n)
      <4>1. [e[a] EXCEPT !.child = m] \in Cell(n)
        BY <3>2, <3>3, <1>5 DEF HeapOf, Cell
      <4> DEFINE b == [e[c] EXCEPT !.prev = NIL]
      <4>0. b \in Cell(n)
        BY <3>2, <3>3, JsonAssumption DEF HeapOf, Cell, NIL
      <4>2. [b EXCEPT !.next = NIL] \in Cell(n)
        <5> HIDE DEF b
        <5> QED
          BY <4>0, JsonAssumption DEF Cell, NIL
      <4>3. g = [e EXCEPT ![a] = [e[a] EXCEPT !.child = m],
                          ![c] = [[e[c] EXCEPT !.prev = NIL] EXCEPT !.next = NIL]]
        BY <3>0, <3>2, <3>3, <3>4 DEF HeapOf
      <4> QED
        BY <4>1, <4>2, <4>3, <3>2, <3>3 DEF HeapOf
    <3>6. \A i \in Items :
           /\ g[i].next = IF i = c THEN NIL ELSE e[i].next
           /\ g[i].prev = IF i = c THEN NIL ELSE e[i].prev
           /\ g[i].child = IF i = a THEN m ELSE e[i].child
           /\ g[i].ref = e[i].ref
      BY <3>2, <3>3, <3>4 DEF HeapOf, Cell
    <3> QED
      BY <3>3, <3>5, <3>6, <2>1
  <2>2. CASE c = h[a].child /\ m = NIL
    <3> DEFINE e1 == SetChild(h, a, m)
               e2 == SetPrev(e1, c, NIL)
               e3 == SetNext(e2, c, NIL)
    <3>1. g = e3
      BY <2>2, <1>3 DEF Detached, NIL, SetNext, SetPrev, SetChild
    <3>2. /\ a \in Items /\ c \in Items /\ a # c /\ q = a
          /\ m \in Pointer(n) /\ NIL \in Pointer(n)
      BY <2>2, <1>2, <1>3, <1>5, JsonAssumption DEF Pointer, NIL
    <3>3. \A i \in Items : i # NIL
      BY JsonAssumption DEF Items, NIL
    <3> HIDE DEF g, m, q
    <3>4. e1 \in HeapOf(n) /\ \A i \in Items :
            /\ e1[i].child = IF i = a THEN m ELSE h[i].child
            /\ e1[i].next = h[i].next /\ e1[i].prev = h[i].prev /\ e1[i].ref = h[i].ref
      BY <3>2, SetChildFacts
    <3> HIDE DEF e1
    <3>5. e2 \in HeapOf(n) /\ \A i \in Items :
            /\ e2[i].prev = IF i = c THEN NIL ELSE e1[i].prev
            /\ e2[i].next = e1[i].next /\ e2[i].child = e1[i].child /\ e2[i].ref = e1[i].ref
      BY <3>2, <3>4, SetPrevFacts
    <3> HIDE DEF e2
    <3>6. e3 \in HeapOf(n) /\ \A i \in Items :
            /\ e3[i].next = IF i = c THEN NIL ELSE e2[i].next
            /\ e3[i].prev = e2[i].prev /\ e3[i].child = e2[i].child /\ e3[i].ref = e2[i].ref
      BY <3>2, <3>5, SetNextFacts
    <3> HIDE DEF e3
    <3> QED
      BY <3>1, <3>3, <3>4, <3>5, <3>6, <2>2
  <2>3. CASE c # h[a].child
    <3>1. m = NIL /\ q = h[c].prev /\ q # NIL
      BY <2>3, <1>1, <1>2, <1>3
    <3>2. g = [h EXCEPT ![q].next = NIL]
      BY <3>1, <2>3 DEF Detached
    <3>3. q \in Items /\ c \in Items /\ q # c /\ h[c].next = NIL
      BY <3>1, <1>2, <1>3
    <3>4. g \in HeapOf(n)
      BY <3>2, <3>3, JsonAssumption DEF HeapOf, Cell, NIL
    <3>5. \A i \in Items : /\ g[i].next = IF i = q THEN NIL ELSE h[i].next
                           /\ g[i].prev = h[i].prev /\ g[i].child = h[i].child
                           /\ g[i].ref = h[i].ref
      BY <3>2, <3>3 DEF HeapOf, Cell
    <3> HIDE DEF g, m, q
    <3> QED
      BY <3>1, <3>3, <3>4, <3>5, <2>3, <1>1
  <2> QED
    BY <2>1, <2>2, <2>3
<1>7. g \in Heap
  BY <1>6, HeapOfHeap
<1> HIDE DEF g, m, q
<1>8. \A j \in L, i \in L :
         i \in Succ(g)[j] <=> \/ i \in Succ(h)[j] /\ ~(j = q /\ i = c) /\ ~(j = c /\ i = m)
                              \/ j = q /\ i = m
  <2>1. \A j \in L, i \in L :
          /\ i \in Succ(g)[j] <=> g[j].next = i \/ (~g[j].ref /\ g[j].child = i)
          /\ i \in Succ(h)[j] <=> h[j].next = i \/ (~h[j].ref /\ h[j].child = i)
          /\ i # NIL
    BY <1>1, <1>2, <1>7, SuccFacts
  <2>2. m = h[c].next
    BY DEF m
  <2>3. c = h[a].child => q = a
    BY DEF q
  <2>4. ~(h[c].next = m /\ m # NIL /\ ~h[c].ref /\ h[c].child = m)
    BY <2>1, <2>2, <1>1, <1>2, <1>3, <1>4, OneOwner
  <2>5. h[q].next = c => ~(~h[q].ref /\ h[q].child = c)
    <3>1. ASSUME h[q].next = c, ~h[q].ref PROVE h[q].child # c
      <4>1. q \in L /\ h[q].next \in L /\ L \in SUBSET Items
        BY <3>1, <1>2, <1>3
      <4>2. h[q].child # h[q].next
        BY <4>1, <3>1, <1>1, <1>2, OneLink, Zenon
      <4> QED
        BY <3>1, <4>2
    <3> QED
      BY <3>1
  <2>6. CASE c = h[a].child
    <3>1. q = a /\ a # c /\ a \in Items /\ c \in Items /\ ~h[a].ref /\ m # c
      BY <2>3, <2>6, <1>2, <1>3, <2>2
    <3>2. \A j \in L : /\ g[j].next = IF j = c THEN NIL ELSE h[j].next
                       /\ g[j].child = IF j = a THEN m ELSE h[j].child
                       /\ g[j].ref = h[j].ref
      BY <2>6, <1>2, <1>6
    <3>3. h[a].next # c
      BY <2>5, <2>6, <3>1
    <3> QED
      BY <3>1, <3>2, <3>3, <2>1, <2>2, <2>4, <2>6
  <2>7. CASE c # h[a].child
    <3>1. m = NIL /\ h[q].next = c
      BY <2>2, <2>7, <1>3
    <3>2. \A j \in L : /\ g[j].next = IF j = c \/ j = q THEN NIL ELSE h[j].next
                       /\ g[j].child = h[j].child
                       /\ g[j].ref = h[j].ref
      BY <2>7, <1>2, <1>6
    <3> QED
      BY <3>1, <3>2, <2>1, <2>2, <2>5, <1>3
  <2> QED
    BY <2>6, <2>7
<1>0. \A j \in L : c \notin Succ(g)[j]
  <2>1. m # c
    BY <1>1, <1>2, <1>3, <1>4
  <2> QED
    BY <2>1, <1>3, <1>8
<1>9. Linked(g, L)
  <2>0. m = h[c].next /\ (c = h[a].child => q = a)
    BY DEF m, q
  <2>1. ASSUME NEW j \in L, g[j].next # NIL
        PROVE  g[j].next \in L /\ g[g[j].next].prev = j
    <3>1. j # c /\ g[j].next = h[j].next /\ h[j].next \in L /\ h[h[j].next].prev = j
      BY <2>1, <1>2, <1>6 DEF Linked
    <3>2. h[j].next # m
      BY <3>1, <2>1, <1>4
    <3>3. h[j].next = c => c # h[a].child
      BY <3>1, <1>1, <1>2, <1>3
    <3> QED
      BY <3>1, <3>2, <3>3, <1>2, <1>6
  <2>2. ASSUME NEW j \in L, ~g[j].ref, g[j].child # NIL
        PROVE  g[j].child \in L /\ g[g[j].child].prev = NIL
    <3>1. CASE j = a /\ c = h[a].child
      BY <3>1, <2>2, <1>2, <1>4, <1>6
    <3>2. CASE ~(j = a /\ c = h[a].child)
      <4>1. g[j].child = h[j].child /\ h[j].child \in L /\ h[h[j].child].prev = NIL
        BY <3>2, <2>2, <1>2, <1>6 DEF Linked
      <4> QED
        BY <4>1, <1>2, <1>6
    <3> QED
      BY <3>1, <3>2
  <2>3. ASSUME NEW j \in L, NEW k \in L, ~g[j].ref, ~g[k].ref, g[j].child # NIL,
               g[j].child = g[k].child
        PROVE  j = k
    <3>1. ASSUME NEW i \in L, ~h[i].ref, h[i].child = m, m # NIL PROVE FALSE
      <4>1. h[m].prev = NIL
        BY <3>1, <1>2 DEF Linked
      <4> QED
        BY <4>1, <3>1, <1>1, <1>2, <1>3, <1>4
    <3> QED
      BY <3>1, <2>3, <1>2, <1>6 DEF Linked
  <2> QED
    BY <2>1, <2>2, <2>3 DEF Linked
<1>10. Rooted(g, L, O \cup {c})
  <2>1. \A i \in L : i \in O \cup {c} <=> \A j \in L : i \notin Succ(g)[j]
    <3>2. ASSUME NEW i \in L \ {c} PROVE i \in O <=> \A j \in L : i \notin Succ(g)[j]
      <4>1. CASE i = m
        <5>1. i \in Succ(h)[c]
          BY <4>1, <1>1, <1>2, <1>3, SuccFacts DEF m
        <5> QED
          BY <5>1, <4>1, <1>2, <1>3, <1>8
      <4>2. CASE i # m
        BY <4>2, <3>2, <1>2, <1>8
      <4> QED
        BY <4>1, <4>2
    <3> QED
      BY <3>2, <1>0
  <2>2. \A i \in O \cup {c} : g[i].next = NIL
    BY <1>2, <1>3, <1>6
  <2> QED
    BY <2>1, <2>2, <1>2, <1>3 DEF Rooted
<1>11. Founded(g, L)
  <2> SUFFICES ASSUME NEW D \in SUBSET L, \A i \in D : \E j \in D : i \in Succ(g)[j]
               PROVE  D = {}
    BY DEF Founded
  <2>1. c \notin D
    BY <1>0
  <2>2. CASE m \notin D
    <3>1. \A i \in D : \E j \in D : i \in Succ(h)[j]
      BY <2>2, <1>8
    <3> QED
      BY <3>1, <1>2 DEF Founded
  <2>3. CASE m \in D
    <3>1. m \in Succ(h)[c]
      <4>1. m \in Items /\ c \in Items /\ h[c].next = m
        BY <2>3, <1>2, <1>3 DEF m
      <4> QED
        BY <4>1, <1>1, SuccFacts
    <3>2. q \in D
      <4>1. PICK j \in D : m \in Succ(g)[j]
        BY <2>3
      <4>2. j # c
        BY <4>1, <2>1
      <4>3. m \in Succ(h)[j] => j = c
        BY <3>1, <1>1, <1>2, <1>3, <2>3, OneOwner
      <4> QED
        BY <4>1, <4>2, <4>3, <2>3, <1>8
    <3>3. \A i \in D \cup {c} : \E j \in D \cup {c} : i \in Succ(h)[j]
      <4>1. ASSUME NEW i \in D, i # m PROVE \E j \in D : i \in Succ(h)[j]
        BY <4>1, <1>8
      <4> QED
        BY <4>1, <3>1, <3>2, <1>3
    <3>4. D \cup {c} = {}
      <4>1. D \cup {c} \in SUBSET L
        BY <1>3
      <4> QED
        BY <4>1, <3>3, <1>2 DEF Founded
    <3> QED
      BY <3>4
  <2> QED
    BY <2>2, <2>3
<1>12. \A i \in O : h[i].prev = NIL => g[i].prev = NIL
  BY <1>2, <1>6
<1>13. c = h[a].child => g[c].prev = NIL
  BY <1>2, <1>3, <1>6
<1> QED
  BY <1>2, <1>6, <1>9, <1>10, <1>11, <1>12, <1>13 DEF Forest, NilPrev, g

\* What cJSON_InsertItemInArray assigns.
LEMMA InsertedFields ==
  ASSUME NEW n \in 0 .. MaxItems, NEW h \in HeapOf(n), NEW a \in Items, NEW c \in Items,
         NEW x \in Items, c \in Pointer(n), x \in Pointer(n), x # c,
         c # h[a].child => h[c].prev \in Items
  PROVE  /\ Inserted(h, a, c, x) \in HeapOf(n)
         /\ \A i \in Items :
              /\ Inserted(h, a, c, x)[i].next =
                   IF c # h[a].child /\ i = h[c].prev THEN x ELSE IF i = x THEN c ELSE h[i].next
              /\ Inserted(h, a, c, x)[i].prev =
                   IF i = c THEN x ELSE IF i = x THEN h[c].prev ELSE h[i].prev
              /\ Inserted(h, a, c, x)[i].child =
                   IF c = h[a].child /\ i = a THEN x ELSE h[i].child
              /\ Inserted(h, a, c, x)[i].ref = h[i].ref
<1> DEFINE p == h[c].prev
           e1 == SetNext(h, x, c)
           e2 == SetPrev(e1, x, p)
           e3 == SetPrev(e2, c, x)
           e4 == IF c = h[a].child THEN SetChild(e3, a, x) ELSE SetNext(e3, p, x)
<1>1. Inserted(h, a, c, x) = e4
  BY DEF Inserted, SetNext, SetPrev, SetChild
<1>2. p \in Pointer(n) /\ x \in Pointer(n) /\ c \in Pointer(n)
  BY JsonAssumption DEF HeapOf, Cell, Items, Pointer
<1> HIDE DEF p
<1>3. e1 \in HeapOf(n) /\ \A i \in Items :
        /\ e1[i].next = IF i = x THEN c ELSE h[i].next
        /\ e1[i].prev = h[i].prev /\ e1[i].child = h[i].child /\ e1[i].ref = h[i].ref
  BY <1>2, SetNextFacts
<1> HIDE DEF e1
<1>4. e2 \in HeapOf(n) /\ \A i \in Items :
        /\ e2[i].prev = IF i = x THEN p ELSE e1[i].prev
        /\ e2[i].next = e1[i].next /\ e2[i].child = e1[i].child /\ e2[i].ref = e1[i].ref
  BY <1>2, <1>3, SetPrevFacts
<1> HIDE DEF e2
<1>5. e3 \in HeapOf(n) /\ \A i \in Items :
        /\ e3[i].prev = IF i = c THEN x ELSE e2[i].prev
        /\ e3[i].next = e2[i].next /\ e3[i].child = e2[i].child /\ e3[i].ref = e2[i].ref
  BY <1>2, <1>4, SetPrevFacts
<1> HIDE DEF e3
<1>6. /\ e4 \in HeapOf(n)
      /\ \A i \in Items :
           /\ e4[i].child = IF c = h[a].child /\ i = a THEN x ELSE e3[i].child
           /\ e4[i].next = IF c # h[a].child /\ i = p THEN x ELSE e3[i].next
           /\ e4[i].prev = e3[i].prev /\ e4[i].ref = e3[i].ref
  <2>1. CASE c = h[a].child
    BY <2>1, <1>2, <1>5, SetChildFacts
  <2>2. CASE c # h[a].child
    <3>1. p \in Items
      BY <2>2 DEF p
    <3> QED
      BY <2>2, <3>1, <1>2, <1>5, SetNextFacts
  <2> QED
    BY <2>1, <2>2
<1> HIDE DEF e4
<1> QED
  BY <1>1, <1>3, <1>4, <1>5, <1>6 DEF p

\* What cJSON_ReplaceItemInArray assigns before it deletes.
LEMMA ReplacedFields ==
  ASSUME NEW n \in 0 .. MaxItems, NEW h \in HeapOf(n), NEW a \in Items, NEW c \in Items,
         NEW x \in Items, c \in Pointer(n), x \in Pointer(n), x # c,
         h[c].next # x, h[c].next # c,
         h[c].next # NIL => h[c].next \in Items,
         c # h[a].child => h[c].prev \in Items /\ h[c].prev # c
  PROVE  /\ Replaced(h, a, c, x) \in HeapOf(n)
         /\ \A i \in Items :
              /\ Replaced(h, a, c, x)[i].next =
                   IF i = c THEN NIL ELSE IF c # h[a].child /\ i = h[c].prev THEN x
                   ELSE IF i = x THEN h[c].next ELSE h[i].next
              /\ Replaced(h, a, c, x)[i].prev =
                   IF i = c THEN NIL ELSE IF i = h[c].next THEN x
                   ELSE IF i = x THEN h[c].prev ELSE h[i].prev
              /\ Replaced(h, a, c, x)[i].child =
                   IF c = h[a].child /\ i = a THEN x ELSE h[i].child
              /\ Replaced(h, a, c, x)[i].ref = h[i].ref
<1> DEFINE p == h[c].prev
           m == h[c].next
           e1 == SetNext(h, x, m)
           e2 == SetPrev(e1, x, p)
           e3 == IF m # NIL THEN SetPrev(e2, m, x) ELSE e2
           e4 == IF c = h[a].child THEN SetChild(e3, a, x) ELSE SetNext(e3, p, x)
           e5 == SetNext(e4, c, NIL)
           e6 == SetPrev(e5, c, NIL)
<1>1. Replaced(h, a, c, x) = e6
  BY DEF Replaced, SetNext, SetPrev, SetChild
<1>2. /\ p \in Pointer(n) /\ m \in Pointer(n) /\ x \in Pointer(n) /\ c \in Pointer(n)
      /\ NIL \in Pointer(n)
  <2>1. h[c] \in Cell(n)
    BY DEF HeapOf
  <2>2. NIL \in 0 .. n
    BY JsonAssumption DEF NIL
  <2> QED
    BY <2>1, <2>2 DEF Cell, Pointer
<1>3. \A i \in Items : i # NIL
  BY JsonAssumption DEF Items, NIL
<1>4. (m # NIL => m \in Items) /\ m # x /\ m # c /\ (c # h[a].child => p \in Items /\ p # c)
  OBVIOUS
<1> HIDE DEF p, m
<1>5. e1 \in HeapOf(n) /\ \A i \in Items :
        /\ e1[i].next = IF i = x THEN m ELSE h[i].next
        /\ e1[i].prev = h[i].prev /\ e1[i].child = h[i].child /\ e1[i].ref = h[i].ref
  BY <1>2, SetNextFacts
<1> HIDE DEF e1
<1>6. e2 \in HeapOf(n) /\ \A i \in Items :
        /\ e2[i].prev = IF i = x THEN p ELSE e1[i].prev
        /\ e2[i].next = e1[i].next /\ e2[i].child = e1[i].child /\ e2[i].ref = e1[i].ref
  BY <1>2, <1>5, SetPrevFacts
<1> HIDE DEF e2
<1>7. e3 \in HeapOf(n) /\ \A i \in Items :
        /\ e3[i].prev = IF i = m THEN x ELSE e2[i].prev
        /\ e3[i].next = e2[i].next /\ e3[i].child = e2[i].child /\ e3[i].ref = e2[i].ref
  <2>1. CASE m = NIL
    BY <2>1, <1>3, <1>6
  <2>2. CASE m # NIL
    BY <2>2, <1>2, <1>4, <1>6, SetPrevFacts
  <2> QED
    BY <2>1, <2>2
<1> HIDE DEF e3
<1>8. e4 \in HeapOf(n) /\ \A i \in Items :
        /\ e4[i].child = IF c = h[a].child /\ i = a THEN x ELSE e3[i].child
        /\ e4[i].next = IF c # h[a].child /\ i = p THEN x ELSE e3[i].next
        /\ e4[i].prev = e3[i].prev /\ e4[i].ref = e3[i].ref
  <2>1. CASE c = h[a].child
    BY <2>1, <1>2, <1>7, SetChildFacts
  <2>2. CASE c # h[a].child
    BY <2>2, <1>2, <1>4, <1>7, SetNextFacts
  <2> QED
    BY <2>1, <2>2
<1> HIDE DEF e4
<1>9. e5 \in HeapOf(n) /\ \A i \in Items :
        /\ e5[i].next = IF i = c THEN NIL ELSE e4[i].next
        /\ e5[i].prev = e4[i].prev /\ e5[i].child = e4[i].child /\ e5[i].ref = e4[i].ref
  BY <1>2, <1>8, SetNextFacts
<1> HIDE DEF e5
<1>10. e6 \in HeapOf(n) /\ \A i \in Items :
        /\ e6[i].prev = IF i = c THEN NIL ELSE e5[i].prev
        /\ e6[i].next = e5[i].next /\ e6[i].child = e5[i].child /\ e6[i].ref = e5[i].ref
  BY <1>2, <1>9, SetPrevFacts
<1> HIDE DEF e6
<1> QED
  BY <1>1, <1>4, <1>5, <1>6, <1>7, <1>8, <1>9, <1>10 DEF p, m

\* The links that lead to an item of a list, and to a root: one and none.
LEMMA LinksTo ==
  ASSUME NEW h \in Heap, NEW L, NEW O, Forest(h, L, O), NEW a \in L, ~h[a].ref,
         NEW c \in List(h, a)
  PROVE  /\ \A j \in L : h[j].next = c <=> c # h[a].child /\ j = h[c].prev
         /\ \A j \in L : ~h[j].ref /\ h[j].child = c <=> c = h[a].child /\ j = a
         /\ \A j \in L, x \in O : h[j].next # x /\ (~h[j].ref => h[j].child # x)
<1>1. L \subseteq Items /\ O \subseteq L /\ Linked(h, L) /\ \A i \in L : i # NIL
  BY JsonAssumption DEF Forest, Rooted, Items, NIL
<1>2. /\ c \in L
      /\ c = h[a].child => h[c].prev = NIL
      /\ c # h[a].child => h[c].prev \in L /\ h[h[c].prev].next = c
  BY ListFacts
<1>3. \A j \in L : h[j].next = c <=> c # h[a].child /\ j = h[c].prev
  BY <1>1, <1>2 DEF Linked
<1>4. \A j \in L : ~h[j].ref /\ h[j].child = c <=> c = h[a].child /\ j = a
  BY <1>1, <1>2 DEF Linked
<1>5. \A j \in L, x \in O : h[j].next # x /\ (~h[j].ref => h[j].child # x)
  BY <1>1, SuccFacts DEF Forest, Rooted
<1> QED
  BY <1>3, <1>4, <1>5

\* cJSON_InsertItemInArray before an item of the list.
LEMMA InsertedForest ==
  ASSUME NEW n \in 0 .. MaxItems, NEW h \in HeapOf(n), NEW L, NEW O, Forest(h, L, O),
         L \subseteq 1 .. n, NEW x \in O, h[x].prev = NIL,
         NEW r \in O \ {x}, NEW a \in Tree(h, r), ~h[a].ref, NEW c \in List(h, a)
  PROVE  /\ Inserted(h, a, c, x) \in HeapOf(n)
         /\ Forest(Inserted(h, a, c, x), L, O \ {x})
         /\ SamePrev(Inserted(h, a, c, x), h, O \ {x})
<1> DEFINE g == Inserted(h, a, c, x)
           p == h[c].prev
           first == c = h[a].child
           q == IF first THEN a ELSE p
           T == Tree(h, r)
<1>1. h \in Heap /\ \A i \in Items : i # NIL
  BY HeapOfHeap, JsonAssumption DEF Items, NIL
<1>2. /\ L \subseteq Items /\ O \subseteq L /\ Linked(h, L) /\ Founded(h, L)
      /\ \A i \in L : i \in O <=> \A j \in L : i \notin Succ(h)[j]
      /\ \A i \in O : h[i].next = NIL
  BY DEF Forest, Rooted
<1>3. /\ T \subseteq L /\ T \cap O = {r}
      /\ \A j \in T : Succ(h)[j] \subseteq T
      /\ \A i \in T, j \in L : i \in Succ(h)[j] => j \in T
  BY <1>1, TreeFacts
<1>4. /\ c \in L /\ q \in L /\ c \in Succ(h)[q] /\ c \notin O /\ q # c
      /\ \A j \in L : c \in Succ(h)[j] => j = q
      /\ first => p = NIL
      /\ ~first => h[p].next = c
  BY <1>1, <1>3, ListOwner
<1>5. c \in T /\ q \in T /\ x \notin T /\ x # c /\ x # q /\ x # a
  <2>1. c \in T
    <3>1. T \in SUBSET Items /\ a \in T
      BY <1>2, <1>3
    <3> HIDE DEF T
    <3> QED
      BY <3>1, <1>1, <1>2, <1>3, ListFacts
  <2>2. q \in T
    BY <2>1, <1>3, <1>4
  <2> QED
    BY <2>1, <2>2, <1>3
<1>6. /\ \A j \in L : h[j].next = c <=> ~first /\ j = p
      /\ \A j \in L : ~h[j].ref /\ h[j].child = c <=> first /\ j = a
      /\ \A j \in L : h[j].next # x /\ (~h[j].ref => h[j].child # x)
  BY <1>1, <1>3, LinksTo
<1>7. ~first => p \in L
  BY <1>4
<1>8. a \in L /\ x \in L /\ c \in L /\ x \in Pointer(n) /\ c \in Pointer(n)
  <2>1. a \in L /\ x \in L /\ c \in L
    BY <1>2, <1>3, <1>4
  <2> QED
    BY <2>1, JsonAssumption DEF Pointer
<1>9. /\ g \in HeapOf(n)
      /\ \A i \in Items :
           /\ g[i].next = IF ~first /\ i = p THEN x ELSE IF i = x THEN c ELSE h[i].next
           /\ g[i].prev = IF i = c THEN x ELSE IF i = x THEN p ELSE h[i].prev
           /\ g[i].child = IF first /\ i = a THEN x ELSE h[i].child
           /\ g[i].ref = h[i].ref
  <2>1. a \in Items /\ c \in Items /\ x \in Items /\ (c # h[a].child => h[c].prev \in Items)
    BY <1>2, <1>7, <1>8
  <2>2. c \in Pointer(n) /\ x \in Pointer(n) /\ x # c
    BY <1>5, <1>8
  <2> QED
    BY <2>1, <2>2, InsertedFields
<1>10. g \in Heap
  BY <1>9, HeapOfHeap
<1>11. (first => q = a) /\ (~first => q = p)
  OBVIOUS
<1> HIDE DEF g, p, first, q, T
<1>12. \A j \in L, i \in L :
          i \in Succ(g)[j] <=> \/ i \in Succ(h)[j] /\ ~(j = q /\ i = c)
                               \/ j = q /\ i = x
                               \/ j = x /\ i = c
  <2>1. \A j \in L, i \in L :
          /\ i \in Succ(g)[j] <=> g[j].next = i \/ (~g[j].ref /\ g[j].child = i)
          /\ i \in Succ(h)[j] <=> h[j].next = i \/ (~h[j].ref /\ h[j].child = i)
          /\ i # NIL
    BY <1>1, <1>2, <1>10, SuccFacts
  <2>2. h[x].next = NIL
    BY <1>2
  <2>3. \A j \in L :
           /\ g[j].next = IF ~first /\ j = p THEN x ELSE IF j = x THEN c ELSE h[j].next
           /\ g[j].child = IF first /\ j = a THEN x ELSE h[j].child
           /\ g[j].ref = h[j].ref
    BY <1>2, <1>9
  <2>4. CASE first
    <3>1. q = a /\ ~h[a].ref /\ h[a].child = c /\ a \in L /\ x # a /\ x # c
      BY <2>4, <1>5, <1>8, <1>11 DEF first
    <3>2. \A j \in L : h[j].next # c /\ (~h[j].ref /\ h[j].child = c => j = a)
      BY <2>4, <1>6
    <3>3. \A j \in L : /\ g[j].next = IF j = x THEN c ELSE h[j].next
                       /\ g[j].child = IF j = a THEN x ELSE h[j].child
                       /\ g[j].ref = h[j].ref
      BY <2>3, <2>4
    <3> SUFFICES ASSUME NEW j \in L, NEW i \in L
                 PROVE  i \in Succ(g)[j] <=> \/ i \in Succ(h)[j] /\ ~(j = a /\ i = c)
                                             \/ j = a /\ i = x
                                             \/ j = x /\ i = c
      BY <3>1
    <3>4. CASE j = a
      <4>1. g[a].next = h[a].next /\ g[a].child = x /\ ~g[a].ref /\ h[a].next # c
        BY <3>1, <3>2, <3>3
      <4>2. /\ i \in Succ(g)[a] <=> g[a].next = i \/ g[a].child = i
            /\ i \in Succ(h)[a] <=> h[a].next = i \/ h[a].child = i
        BY <2>1, <3>1, <4>1
      <4> QED
        BY <3>1, <3>4, <4>1, <4>2
    <3>5. CASE j = x
      <4>1. g[x].next = c /\ g[x].child = h[x].child /\ g[x].ref = h[x].ref
        BY <3>1, <3>3, <1>8
      <4>2. /\ i \in Succ(g)[x] <=> g[x].next = i \/ (~g[x].ref /\ g[x].child = i)
            /\ i \in Succ(h)[x] <=> h[x].next = i \/ (~h[x].ref /\ h[x].child = i)
            /\ i # NIL
        BY <2>1, <1>8
      <4> QED
        BY <3>1, <3>5, <4>1, <4>2, <2>2
    <3>6. CASE j # a /\ j # x
      BY <3>6, <2>1, <3>3
    <3> QED
      BY <3>4, <3>5, <3>6
  <2>5. CASE ~first
    BY <2>1, <2>2, <2>3, <2>5, <1>5, <1>6, <1>8, <1>11
  <2> QED
    BY <2>4, <2>5
<1>13. Linked(g, L)
  <2>1. ASSUME NEW j \in L, g[j].next # NIL
        PROVE  g[j].next \in L /\ g[g[j].next].prev = j
    <3>1. CASE ~first /\ j = p
      BY <3>1, <1>2, <1>5, <1>8, <1>9
    <3>2. CASE ~(~first /\ j = p) /\ j = x
      BY <3>2, <1>2, <1>8, <1>9
    <3>3. CASE ~(~first /\ j = p) /\ j # x
      <4>1. g[j].next = h[j].next /\ h[j].next \in L /\ h[h[j].next].prev = j
        <5>1. g[j].next = h[j].next
          BY <3>3, <1>2, <1>9
        <5> QED
          BY <5>1, <2>1, <1>2 DEF Linked
      <4>2. h[j].next # c /\ h[j].next # x
        BY <3>3, <1>6
      <4> QED
        BY <4>1, <4>2, <1>2, <1>9
    <3> QED
      BY <3>1, <3>2, <3>3
  <2>2. ASSUME NEW j \in L, ~g[j].ref, g[j].child # NIL
        PROVE  g[j].child \in L /\ g[g[j].child].prev = NIL
    <3>1. CASE first /\ j = a
      BY <3>1, <1>2, <1>4, <1>5, <1>8, <1>9
    <3>2. CASE ~(first /\ j = a)
      <4>1. ~h[j].ref /\ g[j].child = h[j].child /\ h[j].child \in L /\ h[h[j].child].prev = NIL
        BY <3>2, <2>2, <1>2, <1>9 DEF Linked
      <4>2. h[j].child # c /\ h[j].child # x
        BY <4>1, <3>2, <1>6
      <4>3. h[j].child \in Items
        BY <4>1, <1>2
      <4>4. g[h[j].child].prev = h[h[j].child].prev
        BY <4>2, <4>3, <1>9
      <4> QED
        BY <4>1, <4>4
    <3> QED
      BY <3>1, <3>2
  <2>3. ASSUME NEW j \in L, NEW k \in L, ~g[j].ref, ~g[k].ref, g[j].child # NIL,
               g[j].child = g[k].child
        PROVE  j = k
    BY <2>3, <1>2, <1>6, <1>9 DEF Linked
  <2> QED
    BY <2>1, <2>2, <2>3 DEF Linked
<1>14. Rooted(g, L, O \ {x})
  <2>1. \A i \in L : i \in O \ {x} <=> \A j \in L : i \notin Succ(g)[j]
    <3>1. x \in Succ(g)[q] /\ c \in Succ(g)[x]
      BY <1>4, <1>8, <1>12
    <3>2. \A i \in L \ {x, c} : \A j \in L : i \in Succ(g)[j] <=> i \in Succ(h)[j]
      BY <1>12
    <3>3. \A i \in L \ {x, c} : i \in O \ {x} <=> \A j \in L : i \notin Succ(g)[j]
      BY <3>2, <1>2
    <3> QED
      BY <3>1, <3>3, <1>4, <1>8
  <2>2. \A i \in O \ {x} : g[i].next = NIL
    <3>1. ~first => p \notin O
      BY <1>1, <1>2, <1>4
    <3> QED
      BY <3>1, <1>2, <1>9
  <2> QED
    BY <2>1, <2>2, <1>2 DEF Rooted
<1>15. Founded(g, L)
  <2> SUFFICES ASSUME NEW D \in SUBSET L, \A i \in D : \E j \in D : i \in Succ(g)[j]
               PROVE  D = {}
    BY DEF Founded
  <2>1. x \in D => q \in D
    BY <1>2, <1>5, <1>8, <1>12
  <2>2. ASSUME c \in D PROVE x \in D
    <3>1. PICK j \in D : c \in Succ(g)[j]
      BY <2>2
    <3> QED
      BY <3>1, <1>4, <1>5, <1>12
  <2>3. \A i \in D \ {x, c} : \E j \in D : i \in Succ(h)[j]
    BY <1>12
  <2>4. ASSUME NEW i \in D \cap T PROVE \E j \in D \cap T : i \in Succ(h)[j]
    <3>1. CASE i = c
      BY <3>1, <2>1, <2>2, <1>4, <1>5
    <3>2. CASE i # c
      <4>1. PICK j \in D : i \in Succ(h)[j]
        BY <3>2, <2>3, <1>5
      <4> QED
        BY <4>1, <1>3
    <3> QED
      BY <3>1, <3>2
  <2>5. D \cap T = {}
    <3>1. D \cap T \in SUBSET L
      OBVIOUS
    <3> QED
      BY <3>1, <2>4, <1>2 DEF Founded
  <2>6. q \notin D /\ x \notin D /\ c \notin D
    BY <2>1, <2>2, <2>5, <1>5
  <2>7. \A i \in D : \E j \in D : i \in Succ(h)[j]
    BY <2>3, <2>6
  <2> QED
    BY <2>7, <1>2 DEF Founded
<1>16. \A i \in O \ {x} : g[i].prev = h[i].prev
  BY <1>2, <1>4, <1>9
<1> QED
  BY <1>2, <1>9, <1>13, <1>14, <1>15, <1>16 DEF Forest, SamePrev, g

\* cJSON_ReplaceItemInArray before it deletes: the new item hangs where the old
\* one did, and the old one is a root.
LEMMA ReplacedForest ==
  ASSUME NEW n \in 0 .. MaxItems, NEW h \in HeapOf(n), NEW L, NEW O, Forest(h, L, O),
         L \subseteq 1 .. n, NEW x \in O, h[x].prev = NIL,
         NEW r \in O \ {x}, NEW a \in Tree(h, r), ~h[a].ref, NEW c \in List(h, a)
  PROVE  /\ Replaced(h, a, c, x) \in HeapOf(n)
         /\ Forest(Replaced(h, a, c, x), L, (O \ {x}) \cup {c})
         /\ SamePrev(Replaced(h, a, c, x), h, O \ {x})
         /\ c \notin O
<1> DEFINE g == Replaced(h, a, c, x)
           p == h[c].prev
           m == h[c].next
           first == c = h[a].child
           q == IF first THEN a ELSE p
           T == Tree(h, r)
<1>1. h \in Heap /\ \A i \in Items : i # NIL
  BY HeapOfHeap, JsonAssumption DEF Items, NIL
<1>2. /\ L \subseteq Items /\ O \subseteq L /\ Linked(h, L) /\ Founded(h, L)
      /\ \A i \in L : i \in O <=> \A j \in L : i \notin Succ(h)[j]
      /\ \A i \in O : h[i].next = NIL
  BY DEF Forest, Rooted
<1>3. /\ T \subseteq L /\ T \cap O = {r}
      /\ \A j \in T : Succ(h)[j] \subseteq T
      /\ \A i \in T, j \in L : i \in Succ(h)[j] => j \in T
  BY <1>1, TreeFacts
<1>4. /\ c \in L /\ q \in L /\ c \in Succ(h)[q] /\ c \notin O /\ q # c
      /\ \A j \in L : c \in Succ(h)[j] => j = q
      /\ first => p = NIL
      /\ ~first => h[p].next = c
      /\ m # c
  BY <1>1, <1>3, ListOwner
<1>5. c \in T /\ q \in T /\ x \notin T /\ x # c /\ x # q /\ x # a
  <2>1. c \in T
    <3>1. T \in SUBSET Items /\ a \in T
      BY <1>2, <1>3
    <3> HIDE DEF T
    <3> QED
      BY <3>1, <1>1, <1>2, <1>3, ListFacts
  <2>2. q \in T
    BY <2>1, <1>3, <1>4
  <2> QED
    BY <2>1, <2>2, <1>3
<1>6. /\ \A j \in L : h[j].next = c <=> ~first /\ j = p
      /\ \A j \in L : ~h[j].ref /\ h[j].child = c <=> first /\ j = a
      /\ \A j \in L : h[j].next # x /\ (~h[j].ref => h[j].child # x)
  BY <1>1, <1>3, LinksTo
<1>7. (~first => p \in L /\ p # c) /\ (first => q = a) /\ (~first => q = p)
  BY <1>4
<1>8. a \in L /\ x \in L /\ c \in L /\ x \in Pointer(n) /\ c \in Pointer(n)
  <2>1. a \in L /\ x \in L /\ c \in L
    BY <1>2, <1>3, <1>4
  <2> QED
    BY <2>1, JsonAssumption DEF Pointer
<1>9. /\ m # x /\ m # c
      /\ m # NIL => /\ m \in L /\ h[m].prev = c /\ m \notin O
                    /\ m \in Succ(h)[c] /\ \A j \in L : m \in Succ(h)[j] => j = c
      /\ m # NIL /\ ~h[c].ref => h[c].child # m
  <2>1. m # x /\ m # c
    BY <1>4, <1>6, <1>8
  <2>2. ASSUME m # NIL PROVE m \in L /\ h[m].prev = c
    BY <2>2, <1>2, <1>8 DEF Linked
  <2>3. ASSUME m # NIL
        PROVE  m \notin O /\ m \in Succ(h)[c] /\ \A j \in L : m \in Succ(h)[j] => j = c
    <3>1. m \in Succ(h)[c]
      BY <2>2, <2>3, <1>1, <1>2, <1>8, SuccFacts
    <3>2. m \in L /\ c \in L
      BY <2>2, <2>3, <1>8
    <3> HIDE DEF m
    <3>3. ASSUME NEW j \in L, m \in Succ(h)[j] PROVE j = c
      BY ONLY <3>1, <3>2, <3>3, <1>1, <1>2, OneOwner
    <3> QED
      BY <3>1, <3>2, <3>3, <1>2
  <2>4. m # NIL /\ ~h[c].ref => h[c].child # m
    BY <2>2, <1>1, <1>2, <1>8, OneLink
  <2> QED
    BY <2>1, <2>2, <2>3, <2>4
<1>10. /\ g \in HeapOf(n)
      /\ \A i \in Items :
           /\ g[i].next = IF i = c THEN NIL ELSE IF ~first /\ i = p THEN x
                          ELSE IF i = x THEN m ELSE h[i].next
           /\ g[i].prev = IF i = c THEN NIL ELSE IF i = m THEN x
                          ELSE IF i = x THEN p ELSE h[i].prev
           /\ g[i].child = IF first /\ i = a THEN x ELSE h[i].child
           /\ g[i].ref = h[i].ref
  <2>1. /\ a \in Items /\ c \in Items /\ x \in Items
        /\ c # h[a].child => h[c].prev \in Items /\ h[c].prev # c
        /\ h[c].next # NIL => h[c].next \in Items
    BY <1>2, <1>7, <1>8, <1>9
  <2>2. c \in Pointer(n) /\ x \in Pointer(n) /\ x # c /\ h[c].next # x /\ h[c].next # c
    BY <1>5, <1>8, <1>9
  <2> QED
    BY <2>1, <2>2, ReplacedFields
<1>11. g \in Heap
  BY <1>10, HeapOfHeap
<1>12. h[c].next = m /\ (first => h[a].child = c)
  OBVIOUS
<1> HIDE DEF g, p, m, first, q, T
<1>13. ASSUME NEW j \in L, NEW i \in L
       PROVE  i \in Succ(g)[j] <=>
                 \/ i \in Succ(h)[j] /\ ~(j = q /\ i = c) /\ ~(j = c /\ i = m)
                 \/ j = q /\ i = x
                 \/ j = x /\ i = m
  <2>1. /\ i \in Succ(g)[j] <=> g[j].next = i \/ (~g[j].ref /\ g[j].child = i)
        /\ i \in Succ(h)[j] <=> h[j].next = i \/ (~h[j].ref /\ h[j].child = i)
        /\ i # NIL
    BY <1>1, <1>2, <1>11, SuccFacts
  <2>2. /\ g[j].next = IF j = c THEN NIL ELSE IF ~first /\ j = p THEN x
                       ELSE IF j = x THEN m ELSE h[j].next
        /\ g[j].child = IF first /\ j = a THEN x ELSE h[j].child
        /\ g[j].ref = h[j].ref
    BY <1>2, <1>10
  <2>3. CASE j = c
    <3>1. g[c].next = NIL /\ g[c].child = h[c].child /\ j # x /\ j # q /\ ~(first /\ c = a)
      BY <2>2, <2>3, <1>4, <1>5, <1>7
    <3> QED
      BY <3>1, <2>1, <2>2, <2>3, <1>9, <1>12
  <2>4. CASE j = x
    <3>1. g[x].next = m /\ g[x].child = h[x].child /\ h[x].next = NIL
      BY <2>2, <2>4, <1>2, <1>5, <1>7
    <3> QED
      BY <3>1, <2>1, <2>2, <2>4, <1>5
  <2>5. CASE j = q
    <3>1. CASE first
      <4>1. j = a /\ ~h[a].ref /\ g[a].next = h[a].next /\ g[a].child = x /\ h[a].child = c
        BY <3>1, <2>2, <2>5, <1>4, <1>5, <1>7, <1>12
      <4>2. h[a].next # c
        BY <3>1, <1>6, <1>8
      <4> QED
        BY <4>1, <4>2, <2>1, <2>2, <2>5, <1>4, <1>5
    <3>2. CASE ~first
      <4>1. j = p /\ h[p].next = c /\ g[p].next = x /\ g[p].child = h[p].child
        BY <3>2, <2>2, <2>5, <1>4, <1>7
      <4>2. ~h[p].ref => h[p].child # c
        BY <3>2, <1>6, <1>7
      <4> QED
        BY <4>1, <4>2, <2>1, <2>2, <2>5, <1>4, <1>5
    <3> QED
      BY <3>1, <3>2
  <2>6. CASE j # c /\ j # x /\ j # q
    BY <2>1, <2>2, <2>6, <1>7
  <2> QED
    BY <2>3, <2>4, <2>5, <2>6
<1>14. Linked(g, L)
  <2>1. ASSUME NEW j \in L, g[j].next # NIL
        PROVE  g[j].next \in L /\ g[g[j].next].prev = j
    <3>0. j # c
      BY <2>1, <1>2, <1>10
    <3>1. CASE ~first /\ j = p
      BY <3>0, <3>1, <1>2, <1>5, <1>8, <1>9, <1>10
    <3>2. CASE ~(~first /\ j = p) /\ j = x
      <4>1. g[j].next = m /\ m # NIL
        BY <3>0, <3>2, <2>1, <1>2, <1>10
      <4> QED
        BY <4>1, <3>2, <1>2, <1>9, <1>10
    <3>3. CASE ~(~first /\ j = p) /\ j # x
      <4>1. g[j].next = h[j].next /\ h[j].next \in L /\ h[h[j].next].prev = j
        <5>1. g[j].next = h[j].next
          BY <3>0, <3>3, <1>2, <1>10
        <5> QED
          BY <5>1, <2>1, <1>2 DEF Linked
      <4>2. h[j].next # c /\ h[j].next # x /\ h[j].next # m
        BY <3>0, <3>3, <4>1, <2>1, <1>6, <1>9
      <4>3. h[j].next \in Items
        BY <4>1, <1>2
      <4>4. g[h[j].next].prev = h[h[j].next].prev
        BY ONLY <4>2, <4>3, <1>10
      <4> QED
        BY <4>1, <4>4
    <3> QED
      BY <3>1, <3>2, <3>3
  <2>2. ASSUME NEW j \in L, ~g[j].ref, g[j].child # NIL
        PROVE  g[j].child \in L /\ g[g[j].child].prev = NIL
    <3>1. CASE first /\ j = a
      BY <3>1, <1>2, <1>4, <1>5, <1>8, <1>9, <1>10
    <3>2. CASE ~(first /\ j = a)
      <4>1. ~h[j].ref /\ g[j].child = h[j].child /\ h[j].child \in L /\ h[h[j].child].prev = NIL
        BY <3>2, <2>2, <1>2, <1>10 DEF Linked
      <4>2. h[j].child # c /\ h[j].child # x
        BY <4>1, <3>2, <1>6
      <4>3. h[j].child # m
        BY <4>1, <1>1, <1>2, <1>8, <1>9
      <4> QED
        BY <4>1, <4>2, <4>3, <1>2, <1>10
    <3> QED
      BY <3>1, <3>2
  <2>3. ASSUME NEW j \in L, NEW k \in L, ~g[j].ref, ~g[k].ref, g[j].child # NIL,
               g[j].child = g[k].child
        PROVE  j = k
    BY <2>3, <1>2, <1>6, <1>10 DEF Linked
  <2> QED
    BY <2>1, <2>2, <2>3 DEF Linked
<1>15. Rooted(g, L, (O \ {x}) \cup {c})
  <2>1. \A j \in L : c \notin Succ(g)[j]
    BY <1>4, <1>5, <1>9, <1>13
  <2>2. x \in Succ(g)[q]
    BY <1>4, <1>8, <1>13
  <2>3. m # NIL => m \in Succ(g)[x]
    BY <1>8, <1>9, <1>13
  <2>4. ASSUME NEW i \in L \ {x, c, m}
        PROVE  i \in (O \ {x}) \cup {c} <=> \A j \in L : i \notin Succ(g)[j]
    <3>1. \A j \in L : i \in Succ(g)[j] <=> i \in Succ(h)[j]
      BY <1>13
    <3> QED
      BY <3>1, <1>2
  <2>5. \A i \in L : i \in (O \ {x}) \cup {c} <=> \A j \in L : i \notin Succ(g)[j]
    <3>1. m \in L => m # NIL
      BY <1>1, <1>2
    <3> QED
      BY <3>1, <2>1, <2>2, <2>3, <2>4, <1>4, <1>5, <1>8, <1>9
  <2>6. \A i \in (O \ {x}) \cup {c} : g[i].next = NIL
    <3>1. ~first => p \notin O
      BY <1>1, <1>2, <1>4
    <3> QED
      BY <3>1, <1>2, <1>8, <1>10
  <2> QED
    BY <2>5, <2>6, <1>2, <1>8 DEF Rooted
<1>16. Founded(g, L)
  <2> SUFFICES ASSUME NEW D \in SUBSET L, \A i \in D : \E j \in D : i \in Succ(g)[j]
               PROVE  D = {}
    BY DEF Founded
  <2>1. ASSUME x \in D PROVE q \in D
    <3>1. PICK j \in D : x \in Succ(g)[j]
      BY <2>1
    <3> QED
      BY <3>1, <1>2, <1>8, <1>9, <1>13
  <2>2. c \notin D
    BY <1>15, <1>8 DEF Rooted
  <2>3. ASSUME m \in D PROVE x \in D
    <3>1. PICK j \in D : m \in Succ(g)[j]
      BY <2>3
    <3>2. m # NIL
      BY <2>3, <1>1, <1>2
    <3> QED
      BY <3>1, <3>2, <2>2, <1>9, <1>13
  <2>4. \A i \in D \ {x, m} : \E j \in D : i \in Succ(h)[j]
    BY <1>13
  <2>5. ASSUME NEW i \in D \cap T, i # m PROVE \E j \in D \cap T : i \in Succ(h)[j]
    <3>1. PICK j \in D : i \in Succ(h)[j]
      BY <2>4, <2>5, <1>5
    <3> QED
      BY <3>1, <1>3
  <2>6. D \cap T = {}
    <3>1. CASE m \in D \cap T
      <4>1. q \in D \cap T /\ m \in Succ(h)[c]
        BY <3>1, <2>1, <2>3, <1>1, <1>2, <1>5, <1>9
      <4>2. \A i \in (D \cap T) \cup {c} : \E j \in (D \cap T) \cup {c} : i \in Succ(h)[j]
        BY <4>1, <2>5, <1>4
      <4>3. (D \cap T) \cup {c} \in SUBSET L
        BY <1>8
      <4>4. (D \cap T) \cup {c} = {}
        BY <4>2, <4>3, <1>2 DEF Founded
      <4> QED
        BY <4>4
    <3>2. CASE m \notin D \cap T
      <4>1. \A i \in D \cap T : \E j \in D \cap T : i \in Succ(h)[j]
        BY <3>2, <2>5
      <4>2. D \cap T \in SUBSET L
        OBVIOUS
      <4> QED
        BY <4>1, <4>2, <1>2 DEF Founded
    <3> QED
      BY <3>1, <3>2
  <2>7. x \notin D /\ m \notin D
    BY <2>1, <2>3, <2>6, <1>5
  <2>8. \A i \in D : \E j \in D : i \in Succ(h)[j]
    BY <2>4, <2>7
  <2> QED
    BY <2>8, <1>2 DEF Founded
<1>17. \A i \in O \ {x} : g[i].prev = h[i].prev
  <2>1. m \notin O
    BY <1>1, <1>2, <1>9
  <2> QED
    BY <2>1, <1>2, <1>4, <1>10
<1> QED
  BY <1>2, <1>4, <1>10, <1>14, <1>15, <1>16, <1>17 DEF Forest, SamePrev, g

\* cJSON_Delete of a root frees its tree and leaves the others as they were.
LEMMA DeletedForest ==
  ASSUME NEW n \in 0 .. MaxItems, NEW h \in HeapOf(n), NEW L, NEW O, Forest(h, L, O),
         NEW c \in O
  PROVE  /\ Deleted(h, c) \subseteq L /\ Deleted(h, c) \cap O = {c}
         /\ Without(h, Deleted(h, c)) \in HeapOf(n)
         /\ Forest(Without(h, Deleted(h, c)), L \ Deleted(h, c), O \ {c})
         /\ \A i \in Items \ Deleted(h, c) : Without(h, Deleted(h, c))[i] = h[i]
<1> DEFINE D == Deleted(h, c)
           g == Without(h, D)
           M == L \ D
<1>1. h \in Heap
  BY HeapOfHeap
<1>2. /\ D \subseteq L /\ D \cap O = {c}
      /\ \A j \in D : Succ(h)[j] \subseteq D
      /\ \A i \in D, j \in L : i \in Succ(h)[j] => j \in D
  BY <1>1, TreeFacts
<1>3. L \subseteq Items /\ O \subseteq L /\ Linked(h, L)
  BY DEF Forest, Rooted
<1>4. g \in HeapOf(n)
  BY DEF Without, HeapOf, Cell, Blank, NIL
<1>5. \A i \in Items \ D : g[i] = h[i]
  BY DEF Without
<1> HIDE DEF D, g
<1>6. \A i \in M : g[i] = h[i]
  BY <1>3, <1>5
<1>7. \A j \in M : Succ(g)[j] = Succ(h)[j]
  BY <1>3, <1>6 DEF Succ, Nexts, Children
<1>8. \A j \in M : \A i \in Succ(h)[j] : i \in M
  BY <1>1, <1>2, <1>3, OwnedIn
<1>9. Linked(g, M)
  <2>1. ASSUME NEW j \in M, h[j].next # NIL PROVE h[j].next \in M /\ h[h[j].next].prev = j
    <3>1. h[j].next \in L /\ h[h[j].next].prev = j
      BY <2>1, <1>3 DEF Linked
    <3>2. h[j].next \in Succ(h)[j]
      BY <3>1, <1>1, <1>3, SuccFacts
    <3> QED
      BY <3>1, <3>2, <1>8
  <2>2. ASSUME NEW j \in M, ~h[j].ref, h[j].child # NIL
        PROVE  h[j].child \in M /\ h[h[j].child].prev = NIL
    <3>1. h[j].child \in L /\ h[h[j].child].prev = NIL
      BY <2>2, <1>3 DEF Linked
    <3>2. h[j].child \in Succ(h)[j]
      BY <2>2, <3>1, <1>1, <1>3, SuccFacts
    <3> QED
      BY <3>1, <3>2, <1>8
  <2>3. \A j, k \in M :
           ~h[j].ref /\ ~h[k].ref /\ h[j].child # NIL /\ h[j].child = h[k].child => j = k
    BY <1>3 DEF Linked
  <2> HIDE DEF M
  <2> QED
    BY <2>1, <2>2, <2>3, <1>6 DEF Linked
<1>10. Rooted(g, M, O \ {c})
  <2>1. \A i \in M : i \in O \ {c} <=> \A j \in M : i \notin Succ(g)[j]
    <3>1. \A i \in M : i \in O \ {c} <=> i \in O
      BY <1>2
    <3>2. \A i \in M : (\A j \in M : i \notin Succ(g)[j]) <=> \A j \in L : i \notin Succ(h)[j]
      BY <1>2, <1>7
    <3> QED
      BY <3>1, <3>2 DEF Forest, Rooted
  <2>2. O \ {c} \subseteq M /\ \A i \in O \ {c} : g[i].next = NIL
    BY <1>2, <1>3, <1>6 DEF Forest, Rooted
  <2> QED
    BY <2>1, <2>2 DEF Rooted
<1>11. Founded(g, M)
  BY <1>7 DEF Forest, Founded
<1> QED
  BY <1>2, <1>3, <1>4, <1>5, <1>9, <1>10, <1>11 DEF Forest, D, g
-----------------------------------------------------------------------------
(* The invariant.                                                          *)

\* u items are allocated, f of them freed, and the rest are trees with the
\* roots O, none of which has a link to a neighbour.
Good(u, h, f, O) ==
    /\ u \in 0 .. MaxItems /\ h \in HeapOf(u) /\ f \subseteq 1 .. u
    /\ Forest(h, (1 .. u) \ f, O)
    /\ \A i \in O : h[i].prev = NIL

\* The items of the parse_value calls under way are in the tree that is built,
\* which the application does not hold yet.
Parsing(h, L, R, s) ==
    /\ s \in Seq([it : Items, at : {"value", "list", "end"}])
    /\ s # <<>> => s[1].it \notin R
    /\ \A k \in 1 .. Len(s) : /\ s[k].it \in L /\ ~h[s[k].it].ref
                              /\ s[k].at = "end" => Len(s) = 1

\* The inductive invariant.  Once something is broken only the lack of a parse
\* under way is known.
JsonInv ==
    /\ broken \in {"no", "links", "crash"}
    /\ broken # "no" => stack = <<>>
    /\ broken = "no" => Good(used, item, freed, Owned) /\ Parsing(item, Live, roots, stack)

-----------------------------------------------------------------------------
(* What the calls do to good heaps.                                        *)

\* A pointer that stays below n stays below any larger bound.
LEMMA HeapGrows ==
  ASSUME NEW n \in 0 .. MaxItems, NEW m \in n .. MaxItems, NEW c \in Cell(n)
  PROVE  c \in Cell(m)
<1>1. 0 .. n \subseteq 0 .. m
  BY JsonAssumption
<1> QED
  BY <1>1 DEF Cell

\* The roots of a good heap are among its items, whose links are in range.
LEMMA GoodFacts ==
  ASSUME NEW u, NEW h, NEW f, NEW O, Good(u, h, f, O)
  PROVE  /\ u \in 0 .. MaxItems /\ h \in HeapOf(u) /\ h \in Heap
         /\ O \subseteq (1 .. u) \ f /\ (1 .. u) \ f \subseteq Items
         /\ Forest(h, (1 .. u) \ f, O)
<1>1. u \in 0 .. MaxItems /\ h \in HeapOf(u) /\ Forest(h, (1 .. u) \ f, O)
  BY DEF Good
<1> QED
  BY <1>1, HeapOfHeap DEF Forest, Rooted

\* Every item that is not freed is in the tree of a root.
LEMMA InSomeTree ==
  ASSUME NEW u, NEW h, NEW f, NEW O, Good(u, h, f, O), NEW a \in (1 .. u) \ f
  PROVE  \E r \in O : a \in Tree(h, r)
<1> DEFINE L == (1 .. u) \ f
           C == UNION {Tree(h, r) : r \in O}
<1>1. h \in Heap /\ Forest(h, L, O) /\ L \subseteq Items /\ O \subseteq L
  BY GoodFacts
<1>2. \A r \in O : /\ r \in Tree(h, r) /\ Tree(h, r) \subseteq L
                   /\ \A j \in Tree(h, r) : Succ(h)[j] \subseteq Tree(h, r)
  BY <1>1, TreeFacts
<1>3. O \subseteq C /\ C \in SUBSET Items /\ \A j \in C : Succ(h)[j] \subseteq C
  <2> HIDE DEF L
  <2> QED
    BY <1>1, <1>2
<1>4. Closure(O, Succ(h)) \subseteq C
  <2>1. O \in SUBSET Items
    BY <1>1
  <2> HIDE DEF C, L
  <2> QED
    BY <2>1, <1>1, <1>3, SuccFacts, ClosureFacts
<1>5. L \subseteq Closure(O, Succ(h))
  <2> HIDE DEF L
  <2> QED
    BY <1>1, AllReached
<1> QED
  BY <1>4, <1>5

\* Items allocated together and linked among themselves are trees beside the
\* ones there were.
LEMMA GrowGood ==
  ASSUME NEW u, NEW h, NEW f, NEW O, Good(u, h, f, O),
         NEW v \in u .. MaxItems, NEW g \in HeapOf(v), NEW P,
         \A i \in 1 .. u : g[i] = h[i],
         Forest(g, (u + 1) .. v, P), \A i \in P : g[i].prev = NIL
  PROVE  Good(v, g, f, O \cup P)
<1> DEFINE L == (1 .. u) \ f
           M == (u + 1) .. v
<1>1. /\ u \in 0 .. MaxItems /\ v \in 0 .. MaxItems /\ f \subseteq 1 .. u
      /\ h \in Heap /\ g \in Heap /\ Forest(h, L, O)
      /\ O \subseteq L /\ \A i \in O : h[i].prev = NIL
  <2>1. u \in 0 .. MaxItems /\ v \in 0 .. MaxItems
    BY JsonAssumption DEF Good
  <2>2. f \subseteq 1 .. u /\ \A i \in O : h[i].prev = NIL
    BY DEF Good
  <2>3. h \in Heap /\ Forest(h, L, O) /\ O \subseteq L
    BY GoodFacts
  <2>4. g \in Heap
    BY <2>1, HeapOfHeap
  <2> QED
    BY <2>1, <2>2, <2>3, <2>4
<1>2. L \cap M = {} /\ L \cup M = (1 .. v) \ f /\ \A i \in L : g[i] = h[i]
  BY <1>1
<1>3. Forest(g, L, O)
  <2> HIDE DEF L
  <2> QED
    BY <1>1, <1>2, SameForest
<1>4. Forest(g, M, P)
  OBVIOUS
<1>5. Forest(g, L \cup M, O \cup P)
  <2> HIDE DEF L, M
  <2> QED
    BY <1>1, <1>2, <1>3, <1>4, ForestUnion
<1>6. \A i \in O \cup P : g[i].prev = NIL
  BY <1>1, <1>2
<1>7. f \subseteq 1 .. v
  BY <1>1
<1> QED
  BY <1>1, <1>2, <1>5, <1>6, <1>7 DEF Good

\* One new item that owns nothing.
LEMMA NewGood ==
  ASSUME NEW u, NEW h, NEW f, NEW O, Good(u, h, f, O), u + 1 <= MaxItems,
         NEW c \in Cell(u), c.next = NIL, c.prev = NIL, c.ref \/ c.child = NIL
  PROVE  /\ Good(u + 1, [h EXCEPT ![u + 1] = c], f, O \cup {u + 1})
         /\ [h EXCEPT ![u + 1] = c][u + 1] = c
         /\ SameItems([h EXCEPT ![u + 1] = c], h, 1 .. u)
<1> DEFINE g == [h EXCEPT ![u + 1] = c]
           v == u + 1
<1>1. /\ u \in 0 .. MaxItems /\ v \in u .. MaxItems /\ v \in 0 .. MaxItems
      /\ v \in Items /\ v \notin 1 .. u /\ 1 .. u \subseteq Items
  <2>1. u \in 0 .. MaxItems
    BY GoodFacts
  <2> QED
    BY <2>1, JsonAssumption DEF Items
<1>2. h \in HeapOf(u)
  BY GoodFacts
<1>3. \A d \in Cell(u) : d \in Cell(v)
  <2> HIDE DEF v
  <2> QED
    BY <1>1, HeapGrows
<1>4. g \in HeapOf(v) /\ g[v] = c /\ \A i \in 1 .. u : g[i] = h[i]
  <2> HIDE DEF v
  <2>1. \A i \in Items : g[i] = IF i = v THEN c ELSE h[i]
    BY <1>2 DEF v, HeapOf
  <2>2. g \in HeapOf(v)
    BY <1>2, <1>3 DEF v, HeapOf
  <2> QED
    BY <2>1, <2>2, <1>1
<1>5. Forest(g, {v}, {v})
  <2> HIDE DEF g, v
  <2> QED
    BY <1>1, <1>4, HeapOfHeap, SingleForest
<1>6. (u + 1) .. v = {v}
  BY <1>1
<1>7. Good(v, g, f, O \cup {v})
  <2> HIDE DEF g, v
  <2> QED
    <3> DEFINE P == {v}
    <3>1. Forest(g, (u + 1) .. v, P) /\ \A i \in P : g[i].prev = NIL
      BY <1>4, <1>5, <1>6
    <3> HIDE DEF P
    <3>2. Good(v, g, f, O \cup P)
      BY ONLY <1>1, <1>4, <3>1, Good(u, h, f, O), GrowGood
    <3> QED
      BY <3>2 DEF P
<1> QED
  BY <1>4, <1>7 DEF SameItems

\* The type of an item has no part in this.
LEMMA RetypeGood ==
  ASSUME NEW u, NEW h, NEW f, NEW O, Good(u, h, f, O), NEW x \in (1 .. u) \ f,
         NEW t \in {"null"} \cup Containers
  PROVE  /\ Good(u, [h EXCEPT ![x].type = t], f, O)
         /\ \A i \in Items : [h EXCEPT ![x].type = t][i].ref = h[i].ref
<1> DEFINE g == [h EXCEPT ![x].type = t]
           L == (1 .. u) \ f
<1>1. u \in 0 .. MaxItems /\ h \in HeapOf(u) /\ h \in Heap /\ O \subseteq L /\ L \subseteq Items
  BY GoodFacts
<1>2. g \in HeapOf(u)
  BY <1>1 DEF HeapOf, Cell
<1>3. \A i \in Items : /\ g[i].next = h[i].next /\ g[i].prev = h[i].prev
                       /\ g[i].child = h[i].child /\ g[i].ref = h[i].ref
  BY <1>1 DEF HeapOf, Cell
<1>4. Forest(g, L, O)
  <2> HIDE DEF g, L
  <2> QED
    BY <1>1, <1>2, <1>3, HeapOfHeap, GoodFacts, SameForest DEF L
<1> HIDE DEF g
<1>5. \A i \in O : g[i].prev = NIL
  BY <1>1, <1>3 DEF Good
<1> QED
  BY <1>1, <1>2, <1>3, <1>4, <1>5 DEF Good, g

\* cJSON_AddItemToArray.
LEMMA AppendGood ==
  ASSUME NEW u \in 0 .. MaxItems, NEW h, NEW f, NEW O, Good(u, h, f, O),
         NEW x \in O, NEW r \in O \ {x}, NEW a \in Tree(h, r), ~h[a].ref
  PROVE  Good(u, Appended(h, a, x), f, O \ {x}) /\ SameRefs(Appended(h, a, x), h, Items)
<1> DEFINE g == Appended(h, a, x)
           L == (1 .. u) \ f
<1>1. /\ u \in 0 .. MaxItems /\ h \in HeapOf(u) /\ Forest(h, L, O) /\ L \subseteq 1 .. u
      /\ L \subseteq Items /\ O \subseteq L
  BY GoodFacts
<1>2. f \subseteq 1 .. u /\ \A i \in O : h[i].prev = NIL
  BY DEF Good
<1> HIDE DEF g, L
<1>3. /\ g \in HeapOf(u) /\ Forest(g, L, O \ {x})
      /\ SamePrev(g, h, Items \ {x}) /\ SameRefs(g, h, Items)
  <2>1. h[x].prev = NIL
    BY <1>2
  <2>2. g \in HeapOf(u)
    BY <1>1, <2>1, AppendedForest, Zenon DEF g
  <2>3. Forest(g, L, O \ {x})
    BY <1>1, <2>1, AppendedForest, Zenon DEF g
  <2>4. SamePrev(g, h, Items \ {x})
    BY <1>1, <2>1, AppendedForest, Zenon DEF g
  <2>5. SameRefs(g, h, Items)
    BY <1>1, <2>1, AppendedForest, Zenon DEF g
  <2> QED
    BY <2>2, <2>3, <2>4, <2>5
<1>4. \A i \in O \ {x} : g[i].prev = NIL
  BY <1>1, <1>2, <1>3 DEF SamePrev
<1> QED
  BY <1>1, <1>2, <1>3, <1>4 DEF Good, g, L

\* cJSON_InsertItemInArray.
LEMMA InsertGood ==
  ASSUME NEW u \in 0 .. MaxItems, NEW h, NEW f, NEW O, Good(u, h, f, O),
         NEW x \in O, NEW r \in O \ {x}, NEW a \in Tree(h, r), ~h[a].ref,
         NEW c \in List(h, a)
  PROVE  Good(u, Inserted(h, a, c, x), f, O \ {x})
<1> DEFINE g == Inserted(h, a, c, x)
           L == (1 .. u) \ f
<1>1. /\ u \in 0 .. MaxItems /\ h \in HeapOf(u) /\ Forest(h, L, O) /\ L \subseteq 1 .. u
      /\ L \subseteq Items /\ O \subseteq L
  BY GoodFacts
<1>2. f \subseteq 1 .. u /\ \A i \in O : h[i].prev = NIL
  BY DEF Good
<1> HIDE DEF g, L
<1>3. /\ g \in HeapOf(u) /\ Forest(g, L, O \ {x})
      /\ \A i \in O \ {x} : g[i].prev = h[i].prev
  <2>1. h[x].prev = NIL
    BY <1>2
  <2>2. g \in HeapOf(u)
    BY <1>1, <2>1, InsertedForest, Zenon DEF g
  <2>3. Forest(g, L, O \ {x})
    BY <1>1, <2>1, InsertedForest, Zenon DEF g
  <2>4. SamePrev(g, h, O \ {x})
    BY <1>1, <2>1, InsertedForest, Zenon DEF g
  <2> QED
    BY <2>2, <2>3, <2>4 DEF SamePrev
<1>4. \A i \in O \ {x} : g[i].prev = NIL
  BY <1>2, <1>3
<1> QED
  BY <1>1, <1>2, <1>3, <1>4 DEF Good, g, L

\* cJSON_Delete of the root c of a forest whose other roots O have no neighbour:
\* it meets no freed item.
LEMMA DeleteGood ==
  ASSUME NEW u \in 0 .. MaxItems, NEW h \in HeapOf(u), NEW f \in SUBSET (1 .. u),
         NEW O, NEW c, c \notin O, Forest(h, (1 .. u) \ f, O \cup {c}),
         \A i \in O : h[i].prev = NIL
  PROVE  /\ Good(u, Without(h, Deleted(h, c)), f \cup Deleted(h, c), O)
         /\ Deleted(h, c) \cap f = {}
<1> DEFINE D == Deleted(h, c)
           g == Without(h, D)
           L == (1 .. u) \ f
           P == O \cup {c}
<1>1. c \in P /\ P \ {c} = O /\ L \subseteq 1 .. u /\ L \cap f = {}
  OBVIOUS
<1>2. Forest(h, L, P)
  OBVIOUS
<1>3. L \subseteq Items /\ P \subseteq L
  BY DEF Forest, Rooted
<1> HIDE DEF D, g, L, P
<1>4. /\ D \subseteq L /\ D \cap P = {c} /\ g \in HeapOf(u) /\ Forest(g, L \ D, P \ {c})
      /\ \A i \in Items \ D : g[i] = h[i]
  BY <1>1, <1>2, DeletedForest DEF D, g
<1>5. \A i \in O : g[i].prev = NIL
  <2>1. O \subseteq P /\ O \subseteq L /\ O \cap D = {}
    BY <1>1, <1>3, <1>4
  <2> QED
    BY <2>1, <1>3, <1>4
<1>6. (1 .. u) \ (f \cup D) = L \ D /\ f \cup D \subseteq 1 .. u /\ D \cap f = {}
  BY <1>1, <1>4 DEF L
<1> QED
  BY <1>1, <1>4, <1>5, <1>6 DEF Good, D, g

\* cJSON_ReplaceItemInArray, with the cJSON_Delete it ends in.
LEMMA ReplaceGood ==
  ASSUME NEW u \in 0 .. MaxItems, NEW h, NEW f, NEW O, Good(u, h, f, O),
         NEW x \in O, NEW r \in O \ {x}, NEW a \in Tree(h, r), ~h[a].ref,
         NEW c \in List(h, a), NEW g, g = Replaced(h, a, c, x)
  PROVE  /\ Good(u, Without(g, Deleted(g, c)), f \cup Deleted(g, c), O \ {x})
         /\ Deleted(g, c) \cap f = {}
<1> DEFINE L == (1 .. u) \ f
<1>1. /\ u \in 0 .. MaxItems /\ h \in HeapOf(u) /\ Forest(h, L, O) /\ L \subseteq 1 .. u
  BY GoodFacts
<1>2. f \in SUBSET (1 .. u) /\ \A i \in O : h[i].prev = NIL
  BY DEF Good
<1> HIDE DEF L
<1>3. /\ g \in HeapOf(u) /\ Forest(g, L, (O \ {x}) \cup {c})
      /\ \A i \in O \ {x} : g[i].prev = h[i].prev
      /\ c \notin O
  <2>1. h[x].prev = NIL
    BY <1>2
  <2>2. g \in HeapOf(u)
    BY <1>1, <2>1, ReplacedForest, Zenon
  <2>3. Forest(g, L, (O \ {x}) \cup {c})
    BY <1>1, <2>1, ReplacedForest, Zenon
  <2>4. SamePrev(g, h, O \ {x})
    BY <1>1, <2>1, ReplacedForest, Zenon
  <2>5. c \notin O
    BY <1>1, <2>1, ReplacedForest, Zenon
  <2> QED
    BY <2>2, <2>3, <2>4, <2>5 DEF SamePrev
<1>4. c \notin O \ {x} /\ \A i \in O \ {x} : g[i].prev = NIL
  BY <1>2, <1>3
<1> QED
  BY <1>1, <1>2, <1>3, <1>4, DeleteGood DEF L

\* cJSON_DetachItemFromArray of the first item of a list, or a detach that is to
\* be followed by the cJSON_Delete of an item that is the last.
LEMMA DetachGood ==
  ASSUME NEW u \in 0 .. MaxItems, NEW h, NEW f, NEW O, Good(u, h, f, O),
         NEW r \in O, NEW a \in Tree(h, r), ~h[a].ref, NEW c \in List(h, a),
         NEW g, g = Detached(h, a, c), g[c].next = NIL
  PROVE  /\ g[c].prev = NIL => Good(u, g, f, O \cup {c})
         /\ Good(u, Without(g, Deleted(g, c)), f \cup Deleted(g, c), O)
<1> DEFINE L == (1 .. u) \ f
<1>1. /\ u \in 0 .. MaxItems /\ h \in HeapOf(u) /\ h \in Heap /\ Forest(h, L, O)
      /\ L \subseteq 1 .. u /\ L \subseteq Items
  BY GoodFacts
<1>2. f \in SUBSET (1 .. u) /\ \A i \in O : h[i].prev = NIL
  BY DEF Good
<1> HIDE DEF L
<1>3. a \in L
  BY <1>1, TreeFacts
<1>4. c \in L /\ c \notin O /\ h[c].next # c
  BY <1>1, <1>3, ListOwner
<1>5. c = h[a].child \/ h[c].next = NIL
  <2> SUFFICES ASSUME c # h[a].child, h[c].next # NIL PROVE FALSE
    OBVIOUS
  <2>1. h[c].prev \in Items /\ h[h[c].prev].next = c
    <3>1. /\ List(h, a) \subseteq L
          /\ \A d \in List(h, a) : IF d = h[a].child THEN h[d].prev = NIL
                                  ELSE h[d].prev \in List(h, a) /\ h[h[d].prev].next = d
      BY <1>1, <1>3, ListFacts
    <3> QED
      BY <3>1, <1>1
  <2>2. h[c].prev # c /\ h[c].next \in Items
    <3>1. h[c].prev # c
      BY <2>1, <1>4
    <3>2. h[c].next \in Items
      BY <1>1, <1>4 DEF Forest, Linked
    <3> QED
      BY <3>1, <3>2
  <2>3. g[c].next = h[c].next
    <3> DEFINE p == h[c].prev
               m == h[c].next
               one == IF p # NIL THEN [h EXCEPT ![p].next = m] ELSE h
               two == IF m # NIL THEN [one EXCEPT ![m].prev = p] ELSE one
    <3>1. g = two
      BY DEF Detached
    <3>2. one \in [Items -> Cell(MaxItems)] /\ one[c].next = h[c].next
      BY <1>1, <1>4, <2>1, <2>2 DEF Heap, HeapOf, Cell
    <3> HIDE DEF one
    <3>3. two[c].next = one[c].next
      BY <3>2, <1>1, <1>4, <2>2 DEF Cell
    <3> QED
      BY <3>1, <3>2, <3>3
  <2> QED
    BY <2>3
<1>6. /\ g \in HeapOf(u) /\ Forest(g, L, O \cup {c})
      /\ \A i \in O : g[i].prev = NIL
  <2>1. g \in HeapOf(u)
    BY <1>1, <1>3, <1>5, DetachedForest, Zenon
  <2>2. Forest(g, L, O \cup {c})
    BY <1>1, <1>3, <1>5, DetachedForest, Zenon
  <2>3. NilPrev(h, O) => NilPrev(g, O)
    BY <1>1, <1>3, <1>5, DetachedForest, Zenon
  <2> QED
    BY <2>1, <2>2, <2>3, <1>2 DEF NilPrev
<1>7. Good(u, Without(g, Deleted(g, c)), f \cup Deleted(g, c), O)
  BY <1>1, <1>2, <1>4, <1>6, DeleteGood DEF L
<1>8. ASSUME g[c].prev = NIL PROVE Good(u, g, f, O \cup {c})
  BY <1>1, <1>2, <1>6, <1>8 DEF Good, L
<1> QED
  BY <1>7, <1>8

\* A set of naturals that is not empty has a least member.
LEMMA LeastExists ==
  ASSUME NEW D \in SUBSET Nat, D # {}
  PROVE  \E m \in D : \A y \in D : m <= y
<1>1. PICK m \in D : \A y \in D : ~ (<<y, m>> \in OpToRel(<, Nat))
  BY WFMin, NatLessThanWellFounded
<1>2. \A y \in D : ~ (y < m)
  BY <1>1 DEF OpToRel
<1> QED
  BY <1>2

\* An array a with n cells behind it.
ArrayCells(g, a, n) ==
    /\ g[a].next = NIL /\ g[a].prev = NIL /\ g[a].child = a + 1 /\ ~g[a].ref
    /\ \A i \in (a + 1) .. (a + n) :
         /\ g[i].next = IF i = a + n THEN NIL ELSE i + 1
         /\ g[i].prev = IF i = a + 1 THEN NIL ELSE i - 1
         /\ g[i].child = NIL

\* cJSON_CreateIntArray and its siblings link the cells as they make them: each
\* item of the new tree owns the one made after it.
LEMMA ArrayGood ==
  ASSUME NEW u \in 0 .. MaxItems, NEW h, NEW f, NEW O, Good(u, h, f, O),
         NEW n \in 1 .. MaxItems,
         u + n + 1 <= MaxItems, NEW g \in HeapOf(u + n + 1),
         SameItems(g, h, 1 .. u), NEW a, a = u + 1,
         ArrayCells(g, a, n)
  PROVE  Good(u + n + 1, g, f, O \cup {a})
<1> DEFINE v == u + n + 1
           M == (u + 1) .. v
<1>1. /\ v \in u .. MaxItems /\ v \in 0 .. MaxItems /\ M \subseteq Items
      /\ a \in M /\ a + 1 \in M /\ a \in Nat /\ NIL \notin M /\ M \subseteq Nat
      /\ \A i \in M : i >= a /\ (i # a => i \in (a + 1) .. (a + n))
      /\ \A i \in M : i = a + n <=> i = v
      /\ \A i \in M : i # v => i + 1 \in M /\ i + 1 # a
      /\ \A i \in M : i # a => i - 1 \in M
  BY JsonAssumption DEF Items, NIL
<1>2. g \in HeapOf(v)
  OBVIOUS
<1>3. g \in Heap
  <2> HIDE DEF v
  <2> QED
    BY <1>1, <1>2, HeapOfHeap
<1>4. /\ g[a].next = NIL /\ g[a].prev = NIL /\ g[a].child = a + 1 /\ ~g[a].ref
      /\ \A i \in M : i # a =>
            /\ g[i].next = IF i = v THEN NIL ELSE i + 1
            /\ g[i].prev = IF i = a + 1 THEN NIL ELSE i - 1
            /\ g[i].child = NIL
  BY <1>1 DEF ArrayCells
<1> HIDE DEF v, M
<1>5. \A j \in M, i \in M : i \in Succ(g)[j] => i = j + 1
  <2>1. \A j \in M, i \in M :
            i # NIL /\ (i \in Succ(g)[j] <=> g[j].next = i \/ (~g[j].ref /\ g[j].child = i))
    BY <1>1, <1>3, SuccFacts
  <2>2. ASSUME NEW i \in M, i \in Succ(g)[a] PROVE i = a + 1
    BY <2>1, <2>2, <1>1, <1>4
  <2>3. ASSUME NEW j \in M, j # a, NEW i \in M, i \in Succ(g)[j] PROVE i = j + 1
    <3>1. i # NIL /\ g[j].child = NIL /\ (g[j].next = NIL \/ g[j].next = j + 1)
      BY <2>1, <2>3, <1>4
    <3> QED
      BY <2>1, <2>3, <3>1
  <2> QED
    BY <2>2, <2>3
<1>6. \A j \in M : j # v => j + 1 \in Succ(g)[j]
  <2>1. \A j \in M, i \in M :
            i \in Succ(g)[j] <=> g[j].next = i \/ (~g[j].ref /\ g[j].child = i)
    BY <1>1, <1>3, SuccFacts
  <2> QED
    BY <2>1, <1>1, <1>4
<1>7. Linked(g, M)
  <2>1. ASSUME NEW j \in M, g[j].next # NIL
        PROVE  g[j].next \in M /\ g[g[j].next].prev = j
    <3>1. j # a /\ j # v /\ g[j].next = j + 1
      BY <2>1, <1>4
    <3>2. j + 1 \in M /\ j + 1 # a /\ j + 1 # a + 1 /\ (j + 1) - 1 = j
      BY <3>1, <1>1
    <3> QED
      BY <3>1, <3>2, <1>4
  <2>2. ASSUME NEW j \in M, g[j].child # NIL PROVE j = a
    BY <2>2, <1>4
  <2>3. a + 1 \in M /\ g[a + 1].prev = NIL
    BY <1>1, <1>4
  <2> QED
    BY <2>1, <2>2, <2>3, <1>4 DEF Linked
<1>8. Rooted(g, M, {a})
  <2>1. ASSUME NEW j \in M, a \in Succ(g)[j] PROVE FALSE
    <3>1. a = j + 1 /\ j >= a /\ j \in Nat
      BY <2>1, <1>1, <1>5
    <3> QED
      BY ONLY <3>1
  <2>2. ASSUME NEW i \in M, i # a PROVE \E j \in M : i \in Succ(g)[j]
    <3>1. i - 1 \in M /\ i - 1 # v /\ (i - 1) + 1 = i
      BY <2>2, <1>1 DEF M
    <3> QED
      BY <3>1, <1>6
  <2>3. \A i \in M : i \in {a} <=> \A j \in M : i \notin Succ(g)[j]
    BY <2>1, <2>2
  <2>4. {a} \subseteq M /\ \A i \in {a} : g[i].next = NIL
    BY <1>1, <1>4
  <2> QED
    BY <2>3, <2>4, Zenon DEF Rooted
<1>9. Founded(g, M)
  <2> SUFFICES ASSUME NEW D \in SUBSET M, \A i \in D : \E j \in D : i \in Succ(g)[j],
                      D # {}
               PROVE  FALSE
    BY DEF Founded
  <2>1. PICK m \in D : \A y \in D : m <= y
    BY <1>1, LeastExists
  <2>2. PICK j \in D : m \in Succ(g)[j]
    OBVIOUS
  <2>3. m = j + 1 /\ m <= j /\ j \in Nat
    BY <2>1, <2>2, <1>1, <1>5
  <2> QED
    BY ONLY <2>3
<1>10. Forest(g, M, {a})
  BY <1>1, <1>7, <1>8, <1>9 DEF Forest
<1>11. Good(v, g, f, O \cup {a})
  <2>1. Forest(g, (u + 1) .. v, {a}) /\ \A i \in {a} : g[i].prev = NIL
    BY <1>4, <1>10 DEF M
  <2>2. /\ Good(u, h, f, O) /\ v \in u .. MaxItems /\ g \in HeapOf(v)
        /\ \A i \in 1 .. u : g[i] = h[i]
    BY <1>1, <1>2 DEF SameItems
  <2> DEFINE P == {a}
  <2>3. Forest(g, (u + 1) .. v, P) /\ \A i \in P : g[i].prev = NIL
    BY <2>1
  <2> HIDE DEF P
  <2>4. Good(v, g, f, O \cup P)
    BY ONLY <2>2, <2>3, GrowGood
  <2> QED
    BY <2>4 DEF P
<1> QED
  BY <1>11 DEF v

-----------------------------------------------------------------------------
(* cJSON_Duplicate.                                                        *)

\* The copies are numbered as the originals are ordered, without a gap.
LEMMA Ranks ==
  ASSUME NEW D \in SUBSET Items, NEW u \in Nat,
         NEW R, R = [i \in D |-> u + Cardinality({j \in D : j <= i})]
  PROVE  /\ Cardinality(D) \in Nat
         /\ R \in [D -> (u + 1) .. (u + Cardinality(D))]
         /\ \A i, j \in D : R[i] = R[j] => i = j
         /\ \A k \in (u + 1) .. (u + Cardinality(D)) : \E i \in D : R[i] = k
<1> DEFINE B(i) == {j \in D : j <= i}
           N == Cardinality(D)
           M == (u + 1) .. (u + N)
<1>1. Items \subseteq Int /\ IsFiniteSet(D)
  <2>1. IsFiniteSet(Items)
    <3>1. 1 \in Int /\ MaxItems \in Int
      BY JsonAssumption
    <3> QED
      BY <3>1, FS_Interval DEF Items
  <2>2. IsFiniteSet(D)
    BY <2>1, FS_Subset
  <2> QED
    BY <2>2 DEF Items
<1>2. N \in Nat
  BY <1>1, FS_CardinalityType
<1>3. ASSUME NEW i \in D
      PROVE  IsFiniteSet(B(i)) /\ Cardinality(B(i)) \in 1 .. N
  <2>1. B(i) \in SUBSET D /\ i \in B(i)
    BY <1>1
  <2>2. IsFiniteSet(B(i)) /\ Cardinality(B(i)) <= N
    BY <2>1, <1>1, FS_Subset
  <2>3. Cardinality(B(i)) \in Nat /\ Cardinality(B(i)) # 0
    <3> HIDE DEF B
    <3>1. Cardinality(B(i)) \in Nat
      BY <2>2, FS_CardinalityType
    <3>2. Cardinality(B(i)) # 0
      BY <2>1, <2>2, FS_EmptySet
    <3> QED
      BY <3>1, <3>2
  <2> QED
    BY <2>2, <2>3, <1>2
<1>4. ASSUME NEW i \in D, NEW j \in D, i < j
      PROVE  Cardinality(B(i)) # Cardinality(B(j))
  <2>1. B(i) \in SUBSET B(j) /\ j \in B(j) /\ j \notin B(i)
    <3>1. i \in Int /\ j \in Int /\ \A k \in D : k \in Int
      BY <1>1
    <3>2. ASSUME NEW k \in D, k <= i PROVE k <= j
      BY <3>1, <3>2, <1>4
    <3>3. j <= j /\ ~(j <= i)
      BY <3>1, <1>4
    <3> QED
      BY <3>2, <3>3
  <2> HIDE DEF B
  <2>2. B(i) # B(j)
    BY <2>1
  <2>3. IsFiniteSet(B(j))
    BY <1>3
  <2> QED
    BY ONLY <2>1, <2>2, <2>3, FS_Subset
<1>5. \A i \in D : R[i] = u + Cardinality(B(i))
  OBVIOUS
<1>6. R \in [D -> M]
  <2> HIDE DEF B, N
  <2>1. \A i \in D : u + Cardinality(B(i)) \in M
    BY <1>2, <1>3
  <2> QED
    BY <2>1 DEF B
<1>7. ASSUME NEW i \in D, NEW j \in D, R[i] = R[j] PROVE i = j
  <2> HIDE DEF B, N
  <2>1. Cardinality(B(i)) \in Nat /\ Cardinality(B(j)) \in Nat
    BY <1>2, <1>3
  <2>2. Cardinality(B(i)) = Cardinality(B(j))
    BY <2>1, <1>5, <1>7
  <2>3. ~(i < j) /\ ~(j < i)
    BY <2>2, <1>4
  <2> QED
    BY <2>3, <1>1
<1>8. IsFiniteSet(M) /\ Cardinality(M) = N
  <2>1. u + 1 \in Int /\ u + N \in Int
    BY <1>2
  <2> DEFINE p == u + 1
             q == u + N
  <2>2. IsFiniteSet(p .. q) /\ Cardinality(p .. q) = IF p > q THEN 0 ELSE q - p + 1
    <3>1. p \in Int /\ q \in Int
      BY <2>1
    <3> HIDE DEF p, q
    <3> QED
      BY <3>1, FS_Interval
  <2> QED
    BY <2>2, <1>2
<1>9. R \in Surjection(D, M)
  <2>1. R \in Injection(D, M)
    <3> HIDE DEF M
    <3> QED
      BY <1>6, <1>7 DEF Injection, IsInjective
  <2>2. Cardinality(D) = Cardinality(M) /\ IsFiniteSet(M)
    BY <1>8
  <2> HIDE DEF M
  <2> QED
    BY <2>1, <2>2, FS_Injection
<1> QED
  <2>1. \A k \in M : \E i \in D : R[i] = k
    BY <1>9 DEF Surjection
  <2> QED
    BY <2>1, <1>2, <1>6, <1>7

\* R maps x and what lies under it (U) one to one to M, where g has copies with
\* the links of h; every original but x is linked to once.
Copied(h, g, M, x, U, D, R) ==
    /\ \A i, j \in D : R[i] = R[j] => i = j
    /\ \A k \in M : \E i \in D : R[i] = k
    /\ h[x].child # NIL => h[x].child \in U
    /\ \A i \in U : /\ h[i].child # NIL => h[i].child \in U
                    /\ h[i].next # NIL => h[i].next \in U
    /\ \A C \in SUBSET U :
          /\ h[x].child # NIL => h[x].child \in C
          /\ \A i \in C : /\ h[i].child # NIL => h[i].child \in C
                          /\ h[i].next # NIL => h[i].next \in C
          => U \subseteq C
    /\ \A i \in U : \E j \in D : h[j].child = i \/ (j # x /\ h[j].next = i)
    /\ \A i \in U, j \in D, k \in D : h[j].child = i /\ h[k].child = i => j = k
    /\ \A i \in U, j \in D, k \in U : ~(h[j].child = i /\ h[k].next = i)
    /\ \A i \in D : /\ ~g[R[i]].ref
                    /\ g[R[i]].child = IF h[i].child = NIL THEN NIL ELSE R[h[i].child]
                    /\ g[R[i]].next = IF i = x \/ h[i].next = NIL THEN NIL
                                      ELSE R[h[i].next]
                    /\ (\A k \in U : h[k].next # i) => g[R[i]].prev = NIL
    /\ \A i \in U, k \in U : h[k].next = i => g[R[i]].prev = R[k]

\* The copies of x and of what lies under it, linked as the originals are, form a
\* tree when every original but x is linked to once.
LEMMA CopyForest ==
  ASSUME NEW h, NEW x \in Items, NEW U \in SUBSET Items, x \notin U,
         NEW g \in Heap, NEW M \in SUBSET Items,
         NEW D, D = {x} \cup U, NEW R \in [D -> M],
         Copied(h, g, M, x, U, D, R)
  PROVE  Forest(g, M, {R[x]}) /\ g[R[x]].prev = NIL
<1> USE DEF Copied
<1>1. /\ x \in D /\ U \subseteq D /\ R[x] \in M /\ \A i \in D : R[i] \in M
      /\ \A i \in U : i # x
      /\ \A i \in D : h[i].child # NIL => h[i].child \in U
      /\ \A i \in D : i = x \/ i \in U
      /\ \A i \in M : i # NIL
      /\ \A i \in D : i # NIL
  BY JsonAssumption DEF Items, NIL
<1>2. ASSUME NEW i \in D, NEW k \in D
      PROVE  R[i] \in Succ(g)[R[k]] <=> h[k].child = i \/ (k # x /\ h[k].next = i)
  <2>1. R[i] \in Succ(g)[R[k]] <=> g[R[k]].next = R[i] \/ g[R[k]].child = R[i]
    BY <1>1, SuccFacts
  <2>2. g[R[k]].child = R[i] <=> h[k].child = i
    BY <1>1
  <2>3. g[R[k]].next = R[i] <=> k # x /\ h[k].next = i
    BY <1>1
  <2> QED
    BY <2>1, <2>2, <2>3
<1>3. Linked(g, M)
  <2>1. ASSUME NEW j \in M, g[j].next # NIL
        PROVE  g[j].next \in M /\ g[g[j].next].prev = j
    <3>1. PICK k \in D : R[k] = j
      OBVIOUS
    <3>2. k \in U /\ h[k].next \in U /\ g[j].next = R[h[k].next]
      BY <3>1, <2>1, <1>1
    <3> QED
      BY <3>1, <3>2, <1>1
  <2>2. ASSUME NEW j \in M, ~g[j].ref, g[j].child # NIL
        PROVE  g[j].child \in M /\ g[g[j].child].prev = NIL
    <3>1. PICK k \in D : R[k] = j
      OBVIOUS
    <3>2. h[k].child \in U /\ g[j].child = R[h[k].child]
      BY <3>1, <2>2, <1>1
    <3>3. \A l \in U : h[l].next # h[k].child
      BY <3>2
    <3> QED
      BY <3>2, <3>3, <1>1
  <2>3. ASSUME NEW j \in M, NEW k \in M, g[j].child # NIL, g[j].child = g[k].child
        PROVE  j = k
    <3>1. PICK p \in D : R[p] = j
      OBVIOUS
    <3>2. PICK q \in D : R[q] = k
      OBVIOUS
    <3>3. h[p].child \in U /\ h[q].child \in U /\ R[h[p].child] = R[h[q].child]
      BY <3>1, <3>2, <2>3, <1>1
    <3>4. h[p].child = h[q].child
      BY <3>3, <1>1
    <3>5. p = q
      BY <3>3, <3>4
    <3> QED
      BY <3>1, <3>2, <3>5
  <2> QED
    BY <2>1, <2>2, <2>3 DEF Linked
<1>4. \A j \in M : R[x] \notin Succ(g)[j]
  <2> SUFFICES ASSUME NEW k \in D, R[x] \in Succ(g)[R[k]] PROVE FALSE
    OBVIOUS
  <2>1. h[k].child = x \/ (k # x /\ h[k].next = x)
    BY <1>1, <1>2
  <2>2. x # NIL /\ x \notin U
    BY <1>1
  <2> QED
    BY <2>1, <2>2, <1>1
<1>5. Rooted(g, M, {R[x]})
  <2>1. ASSUME NEW i \in M, i # R[x] PROVE \E j \in M : i \in Succ(g)[j]
    <3>1. PICK k \in D : R[k] = i
      OBVIOUS
    <3>2. k \in U
      BY <3>1, <2>1, <1>1
    <3>3. PICK j \in D : h[j].child = k \/ (j # x /\ h[j].next = k)
      BY <3>2
    <3>4. R[k] \in Succ(g)[R[j]]
      BY <3>3, <1>2
    <3> QED
      BY <3>1, <3>4, <1>1
  <2>2. g[R[x]].next = NIL
    BY <1>1
  <2> QED
    BY <2>1, <2>2, <1>1, <1>4 DEF Rooted
<1>6. M \subseteq Closure({R[x]}, Succ(g))
  <2> DEFINE K == Closure({R[x]}, Succ(g))
             C == {i \in U : R[i] \in K}
  <2>1. R[x] \in K /\ \A j \in K : Succ(g)[j] \subseteq K
    <3>1. {R[x]} \in SUBSET Items /\ Succ(g) \in [Items -> SUBSET Items]
      BY <1>1, SuccFacts
    <3>2. {R[x]} \subseteq K /\ \A j \in K : Succ(g)[j] \subseteq K
      <4> DEFINE S == {R[x]}
                 E == Succ(g)
      <4>1. S \in SUBSET Items /\ E \in [Items -> SUBSET Items]
        BY <3>1
      <4> HIDE DEF S, E
      <4>2. /\ S \subseteq Closure(S, E)
            /\ \A j \in Closure(S, E) : E[j] \subseteq Closure(S, E)
        BY ONLY <4>1, ClosureFacts
      <4> QED
        BY <4>2 DEF S, E
    <3> QED
      BY <3>2
  <2> HIDE DEF K
  <2>2. h[x].child # NIL => h[x].child \in C
    BY <2>1, <1>1, <1>2
  <2>3. ASSUME NEW i \in C
        PROVE  /\ h[i].child # NIL => h[i].child \in C
               /\ h[i].next # NIL => h[i].next \in C
    BY <2>1, <1>1, <1>2
  <2>4. C \in SUBSET U
    OBVIOUS
  <2> HIDE DEF C
  <2>5. U \subseteq C
    BY <2>2, <2>3, <2>4
  <2>6. \A i \in D : R[i] \in K
    BY <2>1, <2>5, <1>1 DEF C
  <2>7. ASSUME NEW k \in M PROVE k \in K
    <3>1. PICK i \in D : R[i] = k
      OBVIOUS
    <3> QED
      BY <3>1, <2>6
  <2> QED
    BY <2>7 DEF K
<1>7. Founded(g, M)
  <2> DEFINE P == {R[x]}
  <2>1. P \in SUBSET M /\ \A i \in P : \A j \in M : i \notin Succ(g)[j]
    BY <1>1, <1>4
  <2>2. M \subseteq Closure(P, Succ(g))
    BY <1>6
  <2> HIDE DEF P
  <2> QED
    BY ONLY g \in Heap, M \in SUBSET Items, <2>1, <2>2, <1>3, ReachedFounded
<1>8. g[R[x]].prev = NIL
  <2>1. \A k \in U : h[k].next # x
    BY <1>1
  <2> QED
    BY <2>1, <1>1
<1> QED
  BY <1>3, <1>5, <1>7, <1>8 DEF Forest

-----------------------------------------------------------------------------
(* The actions keep the invariant.                                         *)

\* Between two calls the roots are what the application holds.
LEMMA CalmFacts ==
  ASSUME JsonInv, Calm
  PROVE  /\ Good(used, item, freed, roots) /\ used \in 0 .. MaxItems
         /\ item \in HeapOf(used) /\ stack = <<>> /\ broken = "no"
<1>1. stack = <<>> /\ broken = "no"
  BY DEF Calm
<1>2. Good(used, item, freed, roots)
  <2>1. Owned = roots
    BY <1>1 DEF Owned
  <2> QED
    BY <1>1, <2>1 DEF JsonInv
<1> QED
  BY <1>1, <1>2 DEF Good

\* It is enough that the heap is good after the call.
LEMMA CalmAgain ==
  ASSUME Good(used', item', freed', roots'), stack' = <<>>, broken' = "no"
  PROVE  JsonInv'
<1>1. Owned' = roots'
  BY DEF Owned
<1>2. Parsing(item', Live', roots', stack')
  BY DEF Parsing
<1> QED
  BY <1>1, <1>2 DEF JsonInv

\* A new item.
LEMMA CreateStep ==
  ASSUME JsonInv, NEW t \in {"null"} \cup Containers, Create(t)
  PROVE  JsonInv'
<1>1. Calm /\ used + 1 <= MaxItems
  BY DEF Create, CanAlloc
<1>2. Good(used, item, freed, roots) /\ used \in 0 .. MaxItems
  BY <1>1, CalmFacts
<1> DEFINE c == [Blank EXCEPT !.type = t]
<1>3. c \in Cell(used) /\ c.next = NIL /\ c.prev = NIL /\ c.child = NIL
  <2>1. NIL \in 0 .. used
    BY <1>2, JsonAssumption DEF NIL
  <2>2. c \in Cell(used)
    BY <2>1 DEF Blank, Cell
  <2>3. c.next = NIL /\ c.prev = NIL /\ c.child = NIL
    BY DEF Blank
  <2> QED
    BY <2>2, <2>3
<1> HIDE DEF c
<1>4. Good(used + 1, [item EXCEPT ![used + 1] = c], freed, roots \cup {used + 1})
  BY <1>1, <1>2, <1>3, NewGood, Zenon
<1>5. Good(used', item', freed', roots')
  BY <1>4 DEF Create, c
<1> QED
  BY <1>5, CalmAgain, <1>1 DEF Create, Calm

\* The array constructors.
LEMMA CreateArrayStep ==
  ASSUME JsonInv, NEW n \in 1 .. MaxItems, CreateArrayOf(n) \/ CreateArrayFails(n)
  PROVE  JsonInv'
<1>1. CASE CreateArrayFails(n)
  BY <1>1 DEF CreateArrayFails, Calm, JsonInv
<1>2. CASE CreateArrayOf(n)
  <2>1. Calm /\ used + n + 1 <= MaxItems
    <3>1. Calm /\ used + (n + 1) <= MaxItems
      BY <1>2 DEF CreateArrayOf, CanAlloc
    <3>2. used \in 0 .. MaxItems
      BY <3>1, CalmFacts
    <3> QED
      BY <3>1, <3>2, JsonAssumption
  <2>2. /\ Good(used, item, freed, roots) /\ used \in 0 .. MaxItems /\ item \in HeapOf(used)
        /\ stack = <<>> /\ broken = "no"
    BY <2>1, CalmFacts
  <2> DEFINE a == used + 1
             v == used + n + 1
             g == item'
  <2>3. g = [i \in Items |->
               IF i = a THEN [Blank EXCEPT !.type = "array", !.child = a + 1]
               ELSE IF i \in (a + 1) .. (a + n)
                    THEN [Blank EXCEPT !.prev = IF i = a + 1 THEN NIL ELSE i - 1,
                                       !.next = IF i = a + n THEN NIL ELSE i + 1]
                    ELSE item[i]]
    BY <1>2 DEF CreateArrayOf
  <2>4. /\ a \in Items /\ a \in 0 .. v /\ a + 1 \in 0 .. v /\ v \in used .. MaxItems
        /\ (a + 1) .. (a + n) \subseteq Items /\ 1 .. used \subseteq Items
        /\ \A i \in (a + 1) .. (a + n) : i # a /\ i - 1 \in 0 .. v
        /\ \A i \in (a + 1) .. (a + n) : i # a + n => i + 1 \in 0 .. v
        /\ \A i \in 1 .. used : i # a /\ i \notin (a + 1) .. (a + n)
        /\ NIL \in 0 .. v
    BY <2>1, <2>2, JsonAssumption DEF Items, NIL
  <2>5. g \in HeapOf(v)
    <3>1. \A i \in Items : item[i] \in Cell(v)
      <4> HIDE DEF v
      <4> QED
        BY <2>2, <2>4, HeapGrows DEF HeapOf
    <3>2. [Blank EXCEPT !.type = "array", !.child = a + 1] \in Cell(v)
      <4> HIDE DEF a, v
      <4> QED
        BY <2>4 DEF Blank, Cell, Containers
    <3>3. ASSUME NEW i \in (a + 1) .. (a + n)
          PROVE  [Blank EXCEPT !.prev = IF i = a + 1 THEN NIL ELSE i - 1,
                               !.next = IF i = a + n THEN NIL ELSE i + 1] \in Cell(v)
      <4>1. /\ (IF i = a + 1 THEN NIL ELSE i - 1) \in 0 .. v
            /\ (IF i = a + n THEN NIL ELSE i + 1) \in 0 .. v
        BY <2>4
      <4> HIDE DEF a, v
      <4> QED
        BY <2>4, <4>1 DEF Blank, Cell
    <3> HIDE DEF a, v
    <3> QED
      BY <2>3, <3>1, <3>2, <3>3 DEF HeapOf
  <2>6. /\ g[a] = [Blank EXCEPT !.type = "array", !.child = a + 1]
        /\ \A i \in 1 .. used : g[i] = item[i]
        /\ \A i \in (a + 1) .. (a + n) :
             g[i] = [Blank EXCEPT !.prev = IF i = a + 1 THEN NIL ELSE i - 1,
                                  !.next = IF i = a + n THEN NIL ELSE i + 1]
    <3> HIDE DEF a, v, g
    <3> QED
      BY <2>3, <2>4
  <2>7. /\ g[a].next = NIL /\ g[a].prev = NIL /\ g[a].child = a + 1 /\ ~g[a].ref
        /\ \A i \in (a + 1) .. (a + n) :
             /\ g[i].next = IF i = a + n THEN NIL ELSE i + 1
             /\ g[i].prev = IF i = a + 1 THEN NIL ELSE i - 1
             /\ g[i].child = NIL
    <3>1. g[a].next = NIL /\ g[a].prev = NIL /\ g[a].child = a + 1 /\ ~g[a].ref
      <4> HIDE DEF a, v, g
      <4> QED
        BY <2>6 DEF Blank
    <3>2. ASSUME NEW i \in (a + 1) .. (a + n)
          PROVE  /\ g[i].next = IF i = a + n THEN NIL ELSE i + 1
                 /\ g[i].prev = IF i = a + 1 THEN NIL ELSE i - 1
                 /\ g[i].child = NIL
      <4> DEFINE p == IF i = a + 1 THEN NIL ELSE i - 1
                 m == IF i = a + n THEN NIL ELSE i + 1
      <4>1. g[i] = [Blank EXCEPT !.prev = p, !.next = m]
        BY <2>6
      <4> HIDE DEF a, v, g, p, m
      <4>2. g[i].next = m /\ g[i].prev = p /\ g[i].child = NIL
        BY <4>1 DEF Blank
      <4> QED
        BY <4>2 DEF p, m
    <3> QED
      BY <3>1, <3>2
  <2>8. Good(used + n + 1, g, freed, roots \cup {a})
    <3>1. g \in HeapOf(used + n + 1) /\ a = used + 1
      BY <2>5
    <3>2. SameItems(g, item, 1 .. used) /\ ArrayCells(g, a, n)
      BY <2>6, <2>7 DEF SameItems, ArrayCells
    <3> HIDE DEF a, g
    <3> QED
      BY ONLY <2>1, <2>2, <3>1, <3>2, n \in 1 .. MaxItems, ArrayGood, Zenon
  <2>9. Good(used', item', freed', roots')
    BY <2>8, <1>2 DEF CreateArrayOf
  <2> QED
    BY <2>2, <2>9, <1>2, CalmAgain DEF CreateArrayOf
<1> QED
  BY <1>1, <1>2

\* What a call that edits the tree at r works on.
LEMMA EditFacts ==
  ASSUME JsonInv, Calm, NEW r \in roots, NEW a \in Editable(r)
  PROVE  a \in Tree(item, r) /\ ~item[a].ref
  BY DEF Editable

\* cJSON_AddItemToArray.
LEMMA AddItemStep ==
  ASSUME JsonInv, NEW r \in roots, NEW a \in Editable(r), NEW x \in roots, AddItem(r, a, x)
  PROVE  JsonInv'
<1>1. Calm /\ x # r
  BY DEF AddItem
<1>2. /\ Good(used, item, freed, roots) /\ used \in 0 .. MaxItems
      /\ stack = <<>> /\ broken = "no"
  BY <1>1, CalmFacts
<1>3. a \in Tree(item, r) /\ ~item[a].ref /\ r \in roots \ {x}
  BY <1>1, EditFacts
<1>4. Good(used, Appended(item, a, x), freed, roots \ {x})
  BY <1>2, <1>3, AppendGood
<1>5. Good(used', item', freed', roots')
  BY <1>4 DEF AddItem
<1> QED
  BY <1>2, <1>5, CalmAgain DEF AddItem

\* cJSON_InsertItemInArray.
LEMMA InsertItemStep ==
  ASSUME JsonInv, NEW r \in roots, NEW a \in Editable(r), NEW x \in roots,
         NEW c \in List(item, a), InsertItem(r, a, c, x)
  PROVE  JsonInv'
<1>1. Calm /\ x # r
  BY DEF InsertItem
<1>2. /\ Good(used, item, freed, roots) /\ used \in 0 .. MaxItems
      /\ stack = <<>> /\ broken = "no"
  BY <1>1, CalmFacts
<1>3. a \in Tree(item, r) /\ ~item[a].ref /\ r \in roots \ {x}
  BY <1>1, EditFacts
<1>4. Good(used, Inserted(item, a, c, x), freed, roots \ {x})
  BY <1>2, <1>3, InsertGood
<1>5. Good(used', item', freed', roots')
  BY <1>4 DEF InsertItem
<1> QED
  BY <1>2, <1>5, CalmAgain DEF InsertItem

\* cJSON_ReplaceItemInArray.
LEMMA ReplaceItemStep ==
  ASSUME JsonInv, NEW r \in roots, NEW a \in Editable(r), NEW x \in roots,
         NEW c \in List(item, a), ReplaceItem(r, a, c, x)
  PROVE  JsonInv'
<1>1. Calm /\ x # r
  BY DEF ReplaceItem
<1>2. /\ Good(used, item, freed, roots) /\ used \in 0 .. MaxItems
      /\ stack = <<>> /\ broken = "no"
  BY <1>1, CalmFacts
<1>3. a \in Tree(item, r) /\ ~item[a].ref /\ r \in roots \ {x}
  BY <1>1, EditFacts
<1> DEFINE g == Replaced(item, a, c, x)
<1>4. /\ Good(used, Without(g, Deleted(g, c)), freed \cup Deleted(g, c), roots \ {x})
      /\ Deleted(g, c) \cap freed = {}
  BY <1>2, <1>3, ReplaceGood
<1>5. Good(used', item', freed', roots') /\ broken' = "no" /\ stack' = <<>>
  BY <1>2, <1>4 DEF ReplaceItem, Free
<1> QED
  BY <1>5, CalmAgain

\* cJSON_Delete of a tree the application holds.
LEMMA DeleteStep ==
  ASSUME JsonInv, NEW r \in roots, Delete(r)
  PROVE  JsonInv'
<1>1. Calm
  BY DEF Delete
<1>2. /\ Good(used, item, freed, roots) /\ used \in 0 .. MaxItems
      /\ stack = <<>> /\ broken = "no"
  BY <1>1, CalmFacts
<1> DEFINE O == roots \ {r}
<1>3. /\ item \in HeapOf(used) /\ freed \in SUBSET (1 .. used) /\ r \notin O
      /\ Forest(item, (1 .. used) \ freed, O \cup {r}) /\ \A i \in O : item[i].prev = NIL
  <2>1. roots = O \cup {r}
    OBVIOUS
  <2> QED
    BY <1>2, <2>1 DEF Good
<1> HIDE DEF O
<1>4. /\ Good(used, Without(item, Deleted(item, r)), freed \cup Deleted(item, r), O)
      /\ Deleted(item, r) \cap freed = {}
  BY <1>2, <1>3, DeleteGood
<1>5. Good(used', item', freed', roots') /\ broken' = "no" /\ stack' = <<>>
  BY <1>2, <1>4 DEF Delete, Free, O
<1> QED
  BY <1>5, CalmAgain

\* cJSON_DetachItemFromArray: an item that is not the first keeps its links.
LEMMA DetachItemStep ==
  ASSUME JsonInv, NEW r \in roots, NEW a \in Editable(r), NEW c \in List(item, a),
         DetachItem(r, a, c)
  PROVE  JsonInv'
<1>1. Calm
  BY DEF DetachItem
<1>2. /\ Good(used, item, freed, roots) /\ used \in 0 .. MaxItems
      /\ stack = <<>> /\ broken = "no"
  BY <1>1, CalmFacts
<1>3. a \in Tree(item, r) /\ ~item[a].ref
  BY <1>1, EditFacts
<1>4. item' = Detached(item, a, c) /\ UNCHANGED <<used, freed, stack>> /\ roots' = roots \cup {c}
  BY DEF DetachItem
<1>5. CASE item'[c].next = NIL /\ item'[c].prev = NIL
  <2>1. broken' = "no"
    BY <1>5 DEF DetachItem
  <2>2. Good(used, item', freed, roots \cup {c})
    BY <1>2, <1>3, <1>4, <1>5, DetachGood
  <2> QED
    BY <2>1, <2>2, <1>2, <1>4, CalmAgain
<1>6. CASE ~(item'[c].next = NIL /\ item'[c].prev = NIL)
  <2>1. broken' = "links" /\ stack' = <<>>
    BY <1>2, <1>6 DEF DetachItem
  <2> QED
    BY <2>1 DEF JsonInv
<1> QED
  BY <1>5, <1>6

\* cJSON_DeleteItemFromArray: the last item and the first are freed alone.
LEMMA DeleteItemStep ==
  ASSUME JsonInv, NEW r \in roots, NEW a \in Editable(r), NEW c \in List(item, a),
         DeleteItem(r, a, c)
  PROVE  JsonInv'
<1>1. Calm
  BY DEF DeleteItem
<1>2. /\ Good(used, item, freed, roots) /\ used \in 0 .. MaxItems
      /\ stack = <<>> /\ broken = "no"
  BY <1>1, CalmFacts
<1>3. a \in Tree(item, r) /\ ~item[a].ref
  BY <1>1, EditFacts
<1> DEFINE g == Detached(item, a, c)
<1>4. /\ item' = Without(g, Deleted(g, c)) /\ freed' = freed \cup Deleted(g, c)
      /\ broken' = IF g[c].next # NIL THEN "links" ELSE "no"
      /\ UNCHANGED <<used, roots, stack>>
  BY DEF DeleteItem
<1>5. CASE g[c].next = NIL
  <2>1. Good(used, Without(g, Deleted(g, c)), freed \cup Deleted(g, c), roots)
    BY <1>2, <1>3, <1>5, DetachGood
  <2> HIDE DEF g
  <2> QED
    BY <2>1, <1>2, <1>4, <1>5, CalmAgain
<1>6. CASE g[c].next # NIL
  <2>1. broken' = "links" /\ stack' = <<>>
    BY <1>2, <1>4, <1>6
  <2> QED
    BY <2>1 DEF JsonInv
<1> QED
  BY <1>5, <1>6

\* A new item c that hangs in the list of a at once.
LEMMA HangGood ==
  ASSUME NEW u \in 0 .. MaxItems, NEW h, NEW f, NEW O, Good(u, h, f, O), u + 1 <= MaxItems,
         NEW c \in Cell(u), c.next = NIL, c.prev = NIL, c.ref \/ c.child = NIL,
         NEW a \in (1 .. u) \ f, ~h[a].ref,
         NEW g, g = Appended([h EXCEPT ![u + 1] = c], a, u + 1)
  PROVE  /\ Good(u + 1, g, f, O)
         /\ ~c.ref => NoRef(g, u + 1)
         /\ SameRefs(g, h, 1 .. u)
<1> DEFINE k == [h EXCEPT ![u + 1] = c]
           v == u + 1
           P == O \cup {v}
<1>0. /\ v \in 0 .. MaxItems /\ v \notin 1 .. u /\ v \in Items /\ 1 .. u \subseteq Items
      /\ (1 .. u) \ f \subseteq (1 .. v) \ f
  BY JsonAssumption DEF Items
<1>1. /\ Good(v, k, f, P) /\ k[v] = c
      /\ \A i \in 1 .. u : k[i] = h[i]
  <2>1. Good(v, k, f, P)
    BY NewGood, Zenon
  <2>2. k[v] = c
    BY NewGood, Zenon
  <2>3. SameItems(k, h, 1 .. u)
    BY NewGood, Zenon
  <2> HIDE DEF k, v, P
  <2> QED
    BY <2>1, <2>2, <2>3 DEF SameItems
<1>2. O \subseteq 1 .. u /\ P \ {v} = O /\ v \in P
  <2>1. O \subseteq (1 .. u) \ f
    BY GoodFacts
  <2> QED
    BY <2>1, <1>0
<1>3. g = Appended(k, a, v)
  OBVIOUS
<1> HIDE DEF k, v, P
<1>4. k \in Heap /\ Forest(k, (1 .. v) \ f, P)
  BY <1>1, GoodFacts
<1>5. PICK r \in P : a \in Tree(k, r)
  BY <1>0, <1>1, InSomeTree
<1>6. r # v
  <2> DEFINE S == {v}
             M == (1 .. v) \ f
  <2>1. S \in SUBSET Items /\ v \in S /\ \A j \in S : Succ(k)[j] \subseteq S
    BY <1>0, <1>1 DEF Succ, Nexts, Children
  <2>2. k \in Heap /\ Forest(k, M, P) /\ v \in P
    BY <1>2, <1>4
  <2>3. Tree(k, v) \subseteq S
    <3> HIDE DEF S, M
    <3> QED
      BY ONLY <2>1, <2>2, TreeFacts
  <2> QED
    BY <2>3, <1>0, <1>5
<1>7. ~k[a].ref /\ r \in P \ {v}
  BY <1>1, <1>5, <1>6
<1>8. Good(v, g, f, P \ {v}) /\ SameRefs(g, k, Items)
  <2>1. Good(v, Appended(k, a, v), f, P \ {v})
    BY ONLY <1>0, <1>1, <1>2, <1>5, <1>7, AppendGood, Zenon
  <2>2. SameRefs(Appended(k, a, v), k, Items)
    BY ONLY <1>0, <1>1, <1>2, <1>5, <1>7, AppendGood, Zenon
  <2> QED
    BY ONLY <2>1, <2>2, <1>3
<1>9. g[v].ref = c.ref /\ \A i \in 1 .. u : g[i].ref = h[i].ref
  BY <1>0, <1>1, <1>8 DEF SameRefs
<1> QED
  BY <1>2, <1>8, <1>9 DEF v, SameRefs, NoRef

\* cJSON_AddItemReferenceToArray.
LEMMA AddItemReferenceStep ==
  ASSUME JsonInv, NEW r \in roots, NEW a \in Editable(r), NEW s \in roots,
         NEW x \in Tree(item, s), AddItemReference(r, a, s, x)
  PROVE  JsonInv'
<1>1. Calm /\ used + 1 <= MaxItems
  BY DEF AddItemReference, CanAlloc
<1>2. /\ Good(used, item, freed, roots) /\ used \in 0 .. MaxItems /\ item \in HeapOf(used)
      /\ stack = <<>> /\ broken = "no"
  BY <1>1, CalmFacts
<1> DEFINE L == (1 .. used) \ freed
<1>3. item \in Heap /\ Forest(item, L, roots) /\ L \subseteq Items
  BY <1>2, GoodFacts
<1> HIDE DEF L
<1>4. a \in L /\ x \in L /\ ~item[a].ref
  <2>1. a \in Tree(item, r) /\ ~item[a].ref
    BY <1>1, EditFacts
  <2>2. Tree(item, r) \subseteq L /\ Tree(item, s) \subseteq L
    BY <1>3, TreeFacts
  <2> QED
    BY <2>1, <2>2
<1> DEFINE c == [item[x] EXCEPT !.ref = TRUE, !.next = NIL, !.prev = NIL]
<1>5. c \in Cell(used) /\ c.next = NIL /\ c.prev = NIL /\ c.ref
  <2>1. item[x] \in Cell(used)
    BY <1>2, <1>3, <1>4 DEF HeapOf
  <2>2. NIL \in 0 .. used
    BY <1>2, JsonAssumption DEF NIL
  <2> QED
    BY <2>1, <2>2 DEF Cell
<1> DEFINE g == Appended([item EXCEPT ![used + 1] = c], a, used + 1)
<1>6. item' = g /\ used' = used + 1 /\ UNCHANGED <<freed, roots, stack, broken>>
  BY DEF AddItemReference
<1> HIDE DEF c, g
<1>7. Good(used + 1, g, freed, roots)
  <2>1. g = Appended([item EXCEPT ![used + 1] = c], a, used + 1) /\ a \in (1 .. used) \ freed
    BY <1>4 DEF g, L
  <2> QED
    BY <2>1, <1>1, <1>2, <1>4, <1>5, HangGood
<1> QED
  BY <1>2, <1>6, <1>7, CalmAgain

-----------------------------------------------------------------------------
(* The parser.                                                             *)

\* The frames of a parse stay valid when items are added and none becomes a
\* reference.
LEMMA ParsingKept ==
  ASSUME NEW h, NEW g, NEW L, NEW M, NEW R, NEW s, Parsing(h, L, R, s), L \subseteq M,
         \A i \in L : g[i].ref = h[i].ref
  PROVE  Parsing(g, M, R, s)
  BY DEF Parsing

\* What the parser may rely on between two of its steps.
LEMMA ParseFacts ==
  ASSUME JsonInv, stack # <<>>
  PROVE  /\ broken = "no" /\ used \in 0 .. MaxItems /\ item \in HeapOf(used)
         /\ Good(used, item, freed, roots \cup {stack[1].it})
         /\ Parsing(item, (1 .. used) \ freed, roots, stack)
         /\ Len(stack) \in Nat /\ Len(stack) > 0
         /\ Top.it \in (1 .. used) \ freed /\ ~item[Top.it].ref
         /\ stack[1].it \notin roots
<1>1. broken = "no"
  BY DEF JsonInv
<1>2. Owned = roots \cup {stack[1].it} /\ Live = (1 .. used) \ freed
  BY DEF Owned, Live
<1>3. /\ Good(used, item, freed, roots \cup {stack[1].it})
      /\ Parsing(item, (1 .. used) \ freed, roots, stack)
  BY <1>1, <1>2 DEF JsonInv
<1>4. Len(stack) \in Nat /\ Len(stack) > 0 /\ Len(stack) \in 1 .. Len(stack)
  BY <1>3 DEF Parsing
<1> QED
  BY <1>1, <1>3, <1>4 DEF Parsing, Top, Good

\* What it must leave.
LEMMA ParseAgain ==
  ASSUME stack' # <<>>, broken' = "no", Good(used', item', freed', roots' \cup {stack'[1].it}),
         Parsing(item', (1 .. used') \ freed', roots', stack')
  PROVE  JsonInv'
<1>1. Owned' = roots' \cup {stack'[1].it} /\ Live' = (1 .. used') \ freed'
  BY DEF Owned, Live
<1> QED
  BY <1>1 DEF JsonInv

\* A value that is complete leaves the calls below it, or the end of the text.
LEMMA CompleteFacts ==
  ASSUME NEW h, NEW L, NEW R, Parsing(h, L, R, stack), stack # <<>>
  PROVE  /\ Parsing(h, L, R, Complete) /\ Complete # <<>>
         /\ Complete[1].it = stack[1].it
<1> DEFINE F == [it : Items, at : {"value", "list", "end"}]
           n == Len(stack)
<1>1. /\ stack \in Seq(F) /\ n \in Nat /\ n > 0
      /\ \A k \in 1 .. n : /\ stack[k] \in F /\ stack[k].it \in L /\ ~h[stack[k].it].ref
                           /\ stack[k].at = "end" => n = 1
      /\ stack[1].it \notin R
  <2>1. stack \in Seq(F) /\ stack[1].it \notin R
    BY DEF Parsing
  <2> HIDE DEF F
  <2>2. n \in Nat /\ n > 0 /\ \A k \in 1 .. n : stack[k] \in F
    BY <2>1
  <2> QED
    BY <2>1, <2>2 DEF Parsing
<1>2. CASE n = 1
  <2>1. Complete = <<[it |-> stack[1].it, at |-> "end"]>>
    BY <1>2 DEF Complete, Top
  <2>2. [it |-> stack[1].it, at |-> "end"] \in F
    BY <1>1, <1>2
  <2> QED
    BY <2>1, <2>2, <1>1, <1>2 DEF Parsing
<1>3. CASE n # 1
  <2>0. n \in Nat /\ n > 1
    <3>1. n \in Nat /\ n > 0
      BY <1>1, Zenon
    <3> HIDE DEF n
    <3> QED
      BY ONLY <3>1, <1>3
  <2>1. /\ Complete \in Seq(F) /\ Len(Complete) = n - 1
        /\ \A k \in 1 .. (n - 1) : Complete[k] = stack[k]
    <3>1. Complete = SubSeq(stack, 1, n - 1)
      BY <1>3 DEF Complete, Below
    <3>2. stack \in Seq(F) /\ n \in Nat /\ n > 1
      BY <1>1, <2>0, Zenon
    <3> HIDE DEF F
    <3>3. /\ SubSeq(stack, 1, n - 1) \in Seq(F) /\ Len(SubSeq(stack, 1, n - 1)) = n - 1
          /\ \A k \in 1 .. (n - 1) : SubSeq(stack, 1, n - 1)[k] = stack[k]
      BY ONLY <3>2
    <3> QED
      BY <3>1, <3>3
  <2>2. 1 \in 1 .. (n - 1) /\ 1 .. (n - 1) \subseteq 1 .. n
    <3> HIDE DEF n
    <3> QED
      BY ONLY <2>0
  <2>3. Complete # <<>> /\ Complete[1].it = stack[1].it
    BY <2>1, <2>2
  <2>4. \A k \in 1 .. Len(Complete) : /\ Complete[k].it \in L /\ ~h[Complete[k].it].ref
                                      /\ Complete[k].at = "end" => Len(Complete) = 1
    BY <1>1, <1>3, <2>1, <2>2
  <2> QED
    BY <2>1, <2>3, <2>4, <1>1 DEF Parsing
<1> QED
  BY <1>2, <1>3

\* A null item that is just allocated.
LEMMA BlankFacts ==
  ASSUME NEW u \in 0 .. MaxItems
  PROVE  /\ Blank \in Cell(u) /\ Blank.next = NIL /\ Blank.prev = NIL /\ Blank.child = NIL
         /\ ~Blank.ref
<1>1. NIL \in 0 .. u
  BY JsonAssumption DEF NIL
<1> QED
  BY <1>1 DEF Blank, Cell

\* cJSON_ParseWithOpts allocates the root.
LEMMA ParseBeginStep ==
  ASSUME JsonInv, ParseBegin
  PROVE  JsonInv'
<1>1. Calm /\ used + 1 <= MaxItems
  BY DEF ParseBegin, CanAlloc
<1>2. /\ Good(used, item, freed, roots) /\ used \in 0 .. MaxItems
      /\ stack = <<>> /\ broken = "no"
  BY <1>1, CalmFacts
<1> DEFINE g == [item EXCEPT ![used + 1] = Blank]
           v == used + 1
<1>3. /\ Good(v, g, freed, roots \cup {v}) /\ g[v] = Blank
  <2>1. Blank \in Cell(used) /\ Blank.next = NIL /\ Blank.prev = NIL /\ Blank.child = NIL
    BY <1>2, BlankFacts
  <2>2. Good(v, g, freed, roots \cup {v})
    BY <2>1, <1>1, <1>2, NewGood, Zenon
  <2>3. g[v] = Blank
    BY <2>1, <1>1, <1>2, NewGood, Zenon
  <2> QED
    BY <2>2, <2>3
<1>4. item' = g /\ used' = v /\ stack' = <<[it |-> v, at |-> "value"]>> /\ UNCHANGED <<freed, roots, broken>>
  BY DEF ParseBegin, New
<1>5. v \in (1 .. v) \ freed /\ v \notin roots /\ v \in Items
  <2>1. freed \subseteq 1 .. used /\ roots \subseteq 1 .. used
    <3>1. freed \subseteq 1 .. used /\ roots \subseteq (1 .. used) \ freed
      <4>1. freed \subseteq 1 .. used
        BY <1>2 DEF Good
      <4>2. roots \subseteq (1 .. used) \ freed
        BY <1>2, GoodFacts
      <4> QED
        BY <4>1, <4>2
    <3> QED
      BY <3>1
  <2> QED
    BY <2>1, <1>1, <1>2, JsonAssumption DEF Items
<1> HIDE DEF g, v
<1>6. Parsing(item', (1 .. used') \ freed', roots', stack')
  BY <1>2, <1>3, <1>4, <1>5, BlankFacts DEF Parsing
<1> QED
  BY <1>2, <1>3, <1>4, <1>6, ParseAgain

\* A value without elements.
LEMMA ParseScalarStep ==
  ASSUME JsonInv, NEW t \in {"null"} \cup Containers, ParseScalar(t)
  PROVE  JsonInv'
<1>1. stack # <<>>
  BY DEF ParseScalar
<1> DEFINE x == Top.it
           g == [item EXCEPT ![x].type = t]
           P == roots \cup {stack[1].it}
           L == (1 .. used) \ freed
<1>2. /\ broken = "no" /\ used \in 0 .. MaxItems /\ Good(used, item, freed, P)
      /\ Parsing(item, L, roots, stack) /\ x \in L /\ L \subseteq Items
  <2>1. /\ broken = "no" /\ used \in 0 .. MaxItems /\ Good(used, item, freed, P)
        /\ Parsing(item, L, roots, stack) /\ x \in L
    BY <1>1, ParseFacts
  <2>2. L \subseteq Items
    BY <2>1, JsonAssumption DEF Items
  <2> QED
    BY <2>1, <2>2
<1>3. item' = g /\ stack' = Complete /\ UNCHANGED <<used, freed, roots, broken>>
  BY DEF ParseScalar
<1> HIDE DEF x
<1>4. Good(used, g, freed, P) /\ \A i \in Items : g[i].ref = item[i].ref
  BY <1>2, RetypeGood
<1> HIDE DEF g, P, L
<1>5. Parsing(g, L, roots, stack)
  BY <1>2, <1>4, ParsingKept
<1>6. Parsing(g, L, roots, Complete) /\ Complete # <<>> /\ Complete[1].it = stack[1].it
  BY <1>1, <1>5, CompleteFacts
<1> QED
  BY <1>2, <1>3, <1>4, <1>6, ParseAgain DEF P, L

\* The closing bracket.
LEMMA ParseCloseStep ==
  ASSUME JsonInv, ParseClose
  PROVE  JsonInv'
<1>1. stack # <<>> /\ stack' = Complete /\ UNCHANGED <<used, item, freed, roots, broken>>
  BY DEF ParseClose
<1>2. /\ broken = "no" /\ Good(used, item, freed, roots \cup {stack[1].it})
      /\ Parsing(item, (1 .. used) \ freed, roots, stack)
  BY <1>1, ParseFacts
<1>3. /\ Parsing(item, (1 .. used) \ freed, roots, Complete) /\ Complete # <<>>
      /\ Complete[1].it = stack[1].it
  BY <1>1, <1>2, CompleteFacts
<1> QED
  BY <1>1, <1>2, <1>3, ParseAgain

\* The root is handed to the application.
LEMMA ParseEndStep ==
  ASSUME JsonInv, ParseEnd
  PROVE  JsonInv'
<1>1. /\ stack # <<>> /\ Top.at = "end" /\ roots' = roots \cup {Top.it} /\ stack' = <<>>
      /\ UNCHANGED <<used, item, freed, broken>>
  BY DEF ParseEnd
<1>2. /\ broken = "no" /\ Good(used, item, freed, roots \cup {stack[1].it})
      /\ Len(stack) \in Nat /\ Len(stack) > 0
      /\ Parsing(item, (1 .. used) \ freed, roots, stack)
  BY <1>1, ParseFacts
<1>3. Top = stack[1]
  BY <1>1, <1>2 DEF Parsing, Top
<1> QED
  BY <1>1, <1>2, <1>3, CalmAgain

\* The text is wrong, or there is no memory: the tree that was built is deleted.
LEMMA ParseFailsStep ==
  ASSUME JsonInv, ParseFails
  PROVE  JsonInv'
<1>1. stack # <<>>
  BY DEF ParseFails
<1> DEFINE c == stack[1].it
<1>2. /\ broken = "no" /\ used \in 0 .. MaxItems
      /\ Good(used, item, freed, roots \cup {c}) /\ c \notin roots
  BY <1>1, ParseFacts
<1> HIDE DEF c
<1>3. /\ item \in HeapOf(used) /\ freed \in SUBSET (1 .. used)
      /\ Forest(item, (1 .. used) \ freed, roots \cup {c}) /\ \A i \in roots : item[i].prev = NIL
  BY <1>2 DEF Good
<1>4. /\ Good(used, Without(item, Deleted(item, c)), freed \cup Deleted(item, c), roots)
      /\ Deleted(item, c) \cap freed = {}
  BY <1>2, <1>3, DeleteGood
<1>5. Good(used', item', freed', roots') /\ broken' = "no" /\ stack' = <<>>
  BY <1>2, <1>4 DEF ParseFails, Free, c
<1> QED
  BY <1>5, CalmAgain

\* A call of parse_value for a new item x above the call for its container.
LEMMA PushFacts ==
  ASSUME NEW h, NEW L \in SUBSET Items, NEW R, Parsing(h, L, R, stack), stack # <<>>,
         Top.at # "end", NEW x \in L, ~h[x].ref,
         NEW s, s = Append(stack, [it |-> x, at |-> "value"])
                \/ s = Below \o <<[it |-> Top.it, at |-> "list"], [it |-> x, at |-> "value"]>>
  PROVE  Parsing(h, L, R, s) /\ s # <<>> /\ s[1].it = stack[1].it
<1> DEFINE F == [it : Items, at : {"value", "list", "end"}]
           n == Len(stack)
           y == [it |-> x, at |-> "value"]
           z == [it |-> Top.it, at |-> "list"]
<1>1. stack \in Seq(F) /\ stack[1].it \notin R
  BY DEF Parsing
<1>2. n \in Nat /\ n > 0 /\ n \in 1 .. n /\ \A k \in 1 .. n : stack[k] \in F
  <2> HIDE DEF F
  <2> QED
    BY <1>1
<1>3. /\ \A k \in 1 .. n : stack[k].it \in L /\ ~h[stack[k].it].ref
      /\ \A k \in 1 .. n : stack[k].at # "end"
  <2>1. \A k \in 1 .. n : /\ stack[k].it \in L /\ ~h[stack[k].it].ref
                          /\ stack[k].at = "end" => n = 1
    BY DEF Parsing
  <2>2. Top = stack[n]
    BY DEF Top
  <2>3. \A k \in 1 .. n : n = 1 => k = n
    <3> HIDE DEF n
    <3> QED
      BY ONLY <1>2
  <2> HIDE DEF n
  <2> QED
    BY <2>1, <2>2, <2>3
<1>4. y \in F /\ z \in F /\ y.it = x /\ z.it = stack[n].it /\ y.at # "end" /\ z.at # "end"
  <2>1. Top.it = stack[n].it /\ stack[n].it \in Items
    BY <1>2, <1>3 DEF Top
  <2> HIDE DEF n
  <2> QED
    BY <2>1
<1>5. /\ s \in Seq(F) /\ Len(s) = n + 1 /\ s[n + 1] = y /\ (s[n] = stack[n] \/ s[n] = z)
      /\ \A k \in 1 .. n : k # n => s[k] = stack[k]
  <2>1. CASE s = Append(stack, y)
    <3> HIDE DEF F, y
    <3> QED
      BY <2>1, <1>1, <1>2, <1>4
  <2>2. CASE s = Below \o <<z, y>>
    <3> DEFINE b == SubSeq(stack, 1, n - 1)
    <3>1. s = b \o <<z, y>>
      BY <2>2 DEF Below
    <3> HIDE DEF F, y, z
    <3>2. b \in Seq(F) /\ Len(b) = n - 1 /\ \A k \in 1 .. (n - 1) : b[k] = stack[k]
      <4> DEFINE m == n - 1
      <4>1. 1 \in Int /\ m \in Int /\ \A i \in 1 .. m : stack[i] \in F
        BY <1>2
      <4>2. /\ SubSeq(stack, 1, m) \in Seq(F)
            /\ Len(SubSeq(stack, 1, m)) = IF 1 <= m THEN m - 1 + 1 ELSE 0
            /\ \A i \in 1 .. (m - 1 + 1) : SubSeq(stack, 1, m)[i] = stack[1 + i - 1]
        <5> HIDE DEF m
        <5> QED
          BY ONLY <4>1, SubSeqProperties
      <4>3. m - 1 + 1 = m /\ \A i \in 1 .. m : 1 + i - 1 = i
        BY <4>1
      <4>4. m >= 0
        BY <1>2
      <4> QED
        BY <4>1, <4>2, <4>3, <4>4
    <3> HIDE DEF b
    <3>3. /\ s \in Seq(F) /\ Len(s) = n + 1 /\ s[n + 1] = y /\ s[n] = z
          /\ \A k \in 1 .. (n - 1) : s[k] = b[k]
      <4> DEFINE e == <<z, y>>
      <4>1. e \in Seq(F) /\ Len(e) = 2 /\ e[1] = z /\ e[2] = y
        BY <1>4
      <4>2. s = b \o e
        BY <3>1
      <4> HIDE DEF e
      <4>3. /\ b \o e \in Seq(F) /\ Len(b \o e) = Len(b) + Len(e)
            /\ \A i \in 1 .. Len(b) + Len(e) :
                  (b \o e)[i] = IF i <= Len(b) THEN b[i] ELSE e[i - Len(b)]
        BY ONLY <3>2, <4>1, ConcatProperties
      <4>4. /\ n \in Nat /\ n > 0 /\ Len(b) = n - 1 /\ Len(e) = 2
        BY <1>2, <3>2, <4>1
      <4> HIDE DEF n
      <4>5. s[n + 1] = e[2] /\ s[n] = e[1] /\ \A k \in 1 .. (n - 1) : s[k] = b[k]
        BY ONLY <4>2, <4>3, <4>4
      <4> QED
        BY <4>1, <4>2, <4>3, <4>4, <4>5
    <3> QED
      BY <3>2, <3>3, <1>2
  <2> QED
    BY <2>1, <2>2
<1> HIDE DEF F, n, y, z
<1>6. ASSUME NEW k \in 1 .. (n + 1)
      PROVE  s[k].it \in L /\ ~h[s[k].it].ref /\ s[k].at # "end"
  <2>1. CASE k = n + 1
    BY <2>1, <1>4, <1>5
  <2>2. CASE k = n
    BY <2>2, <1>2, <1>3, <1>4, <1>5
  <2>3. CASE k # n + 1 /\ k # n
    <3>1. k \in 1 .. n
      BY <2>3, <1>2
    <3> QED
      BY <3>1, <2>3, <1>3, <1>5
  <2> QED
    BY <2>1, <2>2, <2>3
<1>7. s[1].it = stack[1].it /\ s # <<>>
  <2>1. 1 \in 1 .. n /\ n + 1 # 0
    BY <1>2
  <2>2. s[1].it = stack[1].it
    BY <2>1, <1>4, <1>5
  <2> QED
    BY <2>1, <2>2, <1>5
<1>8. Parsing(h, L, R, s)
  BY <1>1, <1>5, <1>6, <1>7 DEF Parsing, F
<1> QED
  BY <1>7, <1>8

\* A new item hangs from the container h holds at the top, before it is parsed.
LEMMA HangStep ==
  ASSUME NEW h, stack # <<>>, Top.at # "end", used \in 0 .. MaxItems, used + 1 <= MaxItems,
         Good(used, h, freed, roots \cup {stack[1].it}),
         Parsing(h, (1 .. used) \ freed, roots, stack),
         Top.it \in (1 .. used) \ freed, ~h[Top.it].ref, broken = "no",
         used' = used + 1, item' = Hang(h, Top.it), UNCHANGED <<freed, roots, broken>>,
         NEW s, s = stack',
         s = Append(stack, [it |-> used + 1, at |-> "value"])
         \/ s = Below \o <<[it |-> Top.it, at |-> "list"], [it |-> used + 1, at |-> "value"]>>
  PROVE  JsonInv'
<1> DEFINE v == used + 1
           a == Top.it
           P == roots \cup {stack[1].it}
           L == (1 .. used) \ freed
           M == (1 .. v) \ freed
           g == Appended([h EXCEPT ![used + 1] = Blank], a, used + 1)
<1>1. item' = g
  BY DEF Hang, New
<1>2. /\ Blank \in Cell(used) /\ Blank.next = NIL /\ Blank.prev = NIL /\ Blank.child = NIL
      /\ ~Blank.ref
  BY BlankFacts
<1>3. v \in M /\ L \subseteq M /\ M \in SUBSET Items /\ L \subseteq 1 .. used
  <2>1. freed \subseteq 1 .. used
    BY DEF Good
  <2> QED
    BY <2>1, JsonAssumption DEF Items
<1>4. Good(v, g, freed, P) /\ ~g[v].ref /\ \A i \in 1 .. used : g[i].ref = h[i].ref
  <2>1. a \in (1 .. used) \ freed /\ ~h[a].ref /\ Good(used, h, freed, P) /\ used + 1 <= MaxItems
    OBVIOUS
  <2> DEFINE k == g
  <2>2. k = Appended([h EXCEPT ![used + 1] = Blank], a, used + 1)
    OBVIOUS
  <2> HIDE DEF k, a, P
  <2>3. /\ Good(used + 1, k, freed, P)
        /\ ~k[used + 1].ref /\ \A i \in 1 .. used : k[i].ref = h[i].ref
    <3> DEFINE c == Blank
               u == used
    <3>1. /\ c \in Cell(u) /\ c.next = NIL /\ c.prev = NIL /\ c.child = NIL /\ ~c.ref
          /\ u \in 0 .. MaxItems /\ u + 1 <= MaxItems
          /\ Good(u, h, freed, P) /\ a \in (1 .. u) \ freed /\ ~h[a].ref
          /\ k = Appended([h EXCEPT ![u + 1] = c], a, u + 1)
      BY <1>2, <2>1, <2>2
    <3> HIDE DEF c, u
    <3>2. Good(u + 1, k, freed, P)
      BY ONLY <3>1, HangGood, Zenon
    <3>3. NoRef(k, u + 1)
      BY ONLY <3>1, HangGood, Zenon
    <3>4. SameRefs(k, h, 1 .. u)
      BY ONLY <3>1, HangGood, Zenon
    <3> QED
      BY <3>2, <3>3, <3>4 DEF c, u, SameRefs, NoRef
  <2> QED
    BY <2>3 DEF k
<1>5. Parsing(h, L, roots, stack)
  OBVIOUS
<1> HIDE DEF g, M, L
<1>6. Parsing(g, M, roots, stack)
  BY <1>3, <1>4, <1>5, ParsingKept
<1>7. ~g[v].ref
  BY <1>4
<1>8. Parsing(g, M, roots, s) /\ s # <<>> /\ s[1].it = stack[1].it
  <2>1. s = Append(stack, [it |-> v, at |-> "value"])
        \/ s = Below \o <<[it |-> Top.it, at |-> "list"], [it |-> v, at |-> "value"]>>
    OBVIOUS
  <2> HIDE DEF v
  <2> QED
    BY <2>1, <1>3, <1>6, <1>7, PushFacts
<1>9. stack' # <<>> /\ stack'[1].it = stack[1].it /\ Parsing(g, M, roots, stack')
  BY <1>8
<1>10. /\ Good(used', item', freed', roots' \cup {stack'[1].it})
       /\ Parsing(item', (1 .. used') \ freed', roots', stack')
  BY <1>1, <1>4, <1>9 DEF M
<1> QED
  BY <1>9, <1>10, ParseAgain

\* After a comma.
LEMMA ParseCommaStep ==
  ASSUME JsonInv, ParseComma
  PROVE  JsonInv'
<1>1. /\ stack # <<>> /\ Top.at # "end" /\ used + 1 <= MaxItems
      /\ used' = used + 1 /\ item' = Hang(item, Top.it) /\ UNCHANGED <<freed, roots, broken>>
      /\ stack' = Append(stack, [it |-> used + 1, at |-> "value"])
  BY DEF ParseComma, CanAlloc
<1>2. /\ broken = "no" /\ used \in 0 .. MaxItems
      /\ Good(used, item, freed, roots \cup {stack[1].it})
      /\ Parsing(item, (1 .. used) \ freed, roots, stack)
      /\ Top.it \in (1 .. used) \ freed /\ ~item[Top.it].ref
  BY <1>1, ParseFacts
<1> QED
  BY <1>1, <1>2, HangStep

\* After an opening bracket.
LEMMA ParseOpenStep ==
  ASSUME JsonInv, NEW t \in Containers, ParseOpen(t)
  PROVE  JsonInv'
<1> DEFINE h == [item EXCEPT ![Top.it].type = t]
           P == roots \cup {stack[1].it}
           L == (1 .. used) \ freed
           a == Top.it
<1>1. /\ stack # <<>> /\ Top.at # "end" /\ used + 1 <= MaxItems
      /\ used' = used + 1 /\ item' = Hang(h, Top.it) /\ UNCHANGED <<freed, roots, broken>>
      /\ stack' = Below \o <<[it |-> Top.it, at |-> "list"], [it |-> used + 1, at |-> "value"]>>
  BY DEF ParseOpen, CanAlloc
<1>2. /\ broken = "no" /\ used \in 0 .. MaxItems /\ Good(used, item, freed, P)
      /\ Parsing(item, L, roots, stack) /\ a \in L /\ ~item[a].ref
  BY <1>1, ParseFacts
<1>3. Good(used, h, freed, P) /\ \A i \in Items : h[i].ref = item[i].ref
  <2>1. h = [item EXCEPT ![a].type = t]
    OBVIOUS
  <2>2. a \in (1 .. used) \ freed /\ t \in {"null"} \cup Containers
    BY <1>2
  <2>3. Good(used, item, freed, P)
    BY <1>2
  <2> HIDE DEF a, P
  <2> QED
    BY <2>1, <2>2, <2>3, RetypeGood
<1>4. L \subseteq Items
  BY <1>2, JsonAssumption DEF Items
<1> HIDE DEF h
<1>5. Parsing(h, L, roots, stack) /\ ~h[a].ref
  <2> HIDE DEF L, a
  <2> QED
    BY <1>2, <1>3, <1>4, ParsingKept
<1> QED
  BY <1>1, <1>2, <1>3, <1>5, HangStep

\* One of two sets has a member and only one.
OneMember(D, A, B) ==
    \/ A = {} /\ \E j \in D : B = {j}
    \/ B = {} /\ \E j \in D : A = {j}

\* A set of pairs with one member.
LEMMA OnePair ==
  ASSUME NEW D, IsFiniteSet(D), NEW A \in SUBSET D, NEW B \in SUBSET D,
         Cardinality((A \X {"child"}) \cup (B \X {"next"})) = 1
  PROVE  OneMember(D, A, B)
<1> DEFINE K == (A \X {"child"}) \cup (B \X {"next"})
<1>1. IsFiniteSet(K)
  <2>1. IsFiniteSet({"child"}) /\ IsFiniteSet({"next"})
    BY FS_Singleton
  <2>2. IsFiniteSet(A) /\ IsFiniteSet(B)
    BY FS_Subset
  <2>3. IsFiniteSet(A \X {"child"}) /\ IsFiniteSet(B \X {"next"})
    BY <2>1, <2>2, FS_Product
  <2> QED
    BY <2>3, FS_Union
<1>2. PICK e : K = {e}
  <2> HIDE DEF K
  <2> QED
    BY <1>1, FS_Singleton DEF K
<1>3. \A j \in A : <<j, "child">> = e
  BY <1>2
<1>4. \A j \in B : <<j, "next">> = e
  BY <1>2
<1>5. e \in K
  BY <1>2
<1>6. CASE \E j \in A : e = <<j, "child">>
  <2>1. PICK j \in A : e = <<j, "child">>
    BY <1>6
  <2>2. A = {j}
    BY <2>1, <1>3
  <2>3. B = {}
    BY <2>1, <1>4
  <2> QED
    BY <2>1, <2>2, <2>3 DEF OneMember
<1>7. CASE \E j \in B : e = <<j, "next">>
  <2>1. PICK j \in B : e = <<j, "next">>
    BY <1>7
  <2>2. B = {j}
    BY <2>1, <1>4
  <2>3. A = {}
    BY <2>1, <1>3
  <2> QED
    BY <2>1, <2>2, <2>3 DEF OneMember
<1> QED
  BY <1>5, <1>6, <1>7

\* cJSON_Duplicate.
LEMMA DuplicateStep ==
  ASSUME JsonInv, NEW r \in roots, NEW x \in Tree(item, r), Duplicate(r, x)
  PROVE  JsonInv'
<1> DEFINE U == Under(x)
           D == {x} \cup U
           addr(i) == IF i = NIL THEN NIL ELSE used + Cardinality({j \in D : j <= i})
           before(i) == {j \in D \ {x} : item[j].next = i}
           A(i) == {j \in D : item[j].child = i}
           v == used + Cardinality(D)
           M == (used + 1) .. v
           R == [i \in D |-> used + Cardinality({j \in D : j <= i})]
           copy(i) == [type |-> item[i].type, ref |-> FALSE,
                       child |-> addr(item[i].child),
                       next |-> IF i = x THEN NIL ELSE addr(item[i].next),
                       prev |-> IF before(i) = {} THEN NIL
                                ELSE addr(CHOOSE j \in before(i) : TRUE)]
           g == item'
<1>1. /\ Calm /\ v <= MaxItems /\ x \notin U
      /\ \A i \in D \ {x} : Cardinality((A(i) \X {"child"}) \cup (before(i) \X {"next"})) = 1
      /\ used' = v
      /\ g = [k \in Items |-> IF \E i \in D : addr(i) = k
                              THEN copy(CHOOSE j \in D : addr(j) = k) ELSE item[k]]
      /\ roots' = roots \cup {addr(x)}
      /\ UNCHANGED <<freed, stack, broken>>
  BY DEF Duplicate, CanAlloc
<1>2. /\ Good(used, item, freed, roots) /\ used \in 0 .. MaxItems /\ item \in HeapOf(used)
      /\ stack = <<>> /\ broken = "no" /\ used \in Nat
  BY <1>1, CalmFacts, JsonAssumption
<1>3. item \in Heap /\ x \in Items
  <2> DEFINE L == (1 .. used) \ freed
  <2>1. item \in Heap /\ Forest(item, L, roots) /\ L \subseteq Items
    <3>0. Good(used, item, freed, roots)
      BY <1>2
    <3>1. item \in Heap
      BY ONLY <3>0, GoodFacts, Zenon
    <3>2. Forest(item, L, roots)
      BY ONLY <3>0, Zenon DEF Good
    <3>3. L \subseteq Items
      BY <3>2, Zenon DEF Forest
    <3> QED
      BY <3>1, <3>2, <3>3
  <2> HIDE DEF L
  <2>2. Tree(item, r) \subseteq L
    BY <2>1, TreeFacts, Zenon
  <2> QED
    BY <2>1, <2>2
<1>4. /\ U \in SUBSET Items /\ D \in SUBSET Items
      /\ item[x].child # NIL => item[x].child \in U
      /\ \A i \in U : /\ item[i].child # NIL => item[i].child \in U
                      /\ item[i].next # NIL => item[i].next \in U
      /\ \A C \in SUBSET U :
            /\ item[x].child # NIL => item[x].child \in C
            /\ \A i \in C : /\ item[i].child # NIL => item[i].child \in C
                            /\ item[i].next # NIL => item[i].next \in C
            => U \subseteq C
  <2> DEFINE S == {item[x].child} \ {NIL}
             succ == [i \in Items |-> {item[i].child, item[i].next} \ {NIL}]
  <2>1. \A i \in Items : /\ item[i].child = NIL \/ item[i].child \in Items
                         /\ item[i].next = NIL \/ item[i].next \in Items
    <3>1. \A i \in Items : item[i].child \in 0 .. MaxItems /\ item[i].next \in 0 .. MaxItems
      BY <1>3 DEF Heap, HeapOf, Cell
    <3> QED
      BY ONLY <3>1, JsonAssumption DEF Items, NIL
  <2>2. S \in SUBSET Items
    BY <2>1, <1>3
  <2>3. succ \in [Items -> SUBSET Items]
    BY <2>1
  <2>4. U = Closure(S, succ)
    BY DEF Under
  <2>5. \A i \in Items : succ[i] = {item[i].child, item[i].next} \ {NIL}
    OBVIOUS
  <2> HIDE DEF U, succ
  <2>6. /\ U \subseteq Items /\ S \subseteq U /\ \A j \in U : succ[j] \subseteq U
        /\ \A C \in SUBSET Items :
              S \subseteq C /\ (\A j \in C : succ[j] \subseteq C) => U \subseteq C
    <3> HIDE DEF S
    <3> QED
      BY <2>2, <2>3, <2>4, ClosureFacts
  <2>7. ASSUME NEW C \in SUBSET U, item[x].child # NIL => item[x].child \in C,
               \A i \in C : /\ item[i].child # NIL => item[i].child \in C
                            /\ item[i].next # NIL => item[i].next \in C
        PROVE  U \subseteq C
    <3>1. C \in SUBSET Items /\ S \subseteq C
      BY <2>6, <2>7
    <3>2. \A j \in C : succ[j] \subseteq C
      BY <2>5, <2>7, <3>1
    <3> QED
      BY <3>1, <3>2, <2>6
  <2>8. item[x].child # NIL => item[x].child \in U
    BY <2>6
  <2>9. \A i \in U : /\ item[i].child # NIL => item[i].child \in U
                     /\ item[i].next # NIL => item[i].next \in U
    BY <2>5, <2>6
  <2>10. D \in SUBSET Items
    BY <1>3, <2>6
  <2> HIDE DEF D
  <2> QED
    BY <2>6, <2>7, <2>8, <2>9, <2>10
<1> HIDE DEF U
<1>5. /\ Cardinality(D) \in Nat /\ R \in [D -> M]
      /\ \A i, j \in D : R[i] = R[j] => i = j
      /\ \A k \in M : \E i \in D : R[i] = k
  <2> DEFINE RR == R
  <2>1. RR = [i \in D |-> used + Cardinality({j \in D : j <= i})]
    OBVIOUS
  <2> HIDE DEF RR, D
  <2>2. /\ Cardinality(D) \in Nat /\ RR \in [D -> (used + 1) .. (used + Cardinality(D))]
        /\ \A i, j \in D : RR[i] = RR[j] => i = j
        /\ \A k \in (used + 1) .. (used + Cardinality(D)) : \E i \in D : RR[i] = k
    <3>1. D \in SUBSET Items /\ used \in Nat
      BY <1>2, <1>4
    <3> QED
      BY ONLY <2>1, <3>1, Ranks
  <2> QED
    BY <2>2 DEF RR
<1>6. /\ v \in used .. MaxItems /\ v \in 0 .. MaxItems /\ M \in SUBSET Items /\ v \in Nat
      /\ \A k \in M : k \in 0 .. v /\ k \notin 1 .. used
      /\ 1 .. used \subseteq Items /\ NIL \in 0 .. v
  <2> HIDE DEF D
  <2> QED
    BY <1>1, <1>2, <1>5, JsonAssumption DEF Items, NIL
<1>7. addr(NIL) = NIL /\ \A i \in D : i # NIL /\ addr(i) = R[i]
  BY <1>4, JsonAssumption DEF Items, NIL
<1>8. /\ x \in D /\ U \subseteq D /\ \A i \in D : i = x \/ i \in U
      /\ \A i \in D : item[i].child = NIL \/ item[i].child \in D
      /\ \A i \in U : item[i].next = NIL \/ item[i].next \in D
      /\ \A i \in D \ {x} : i \in U
      /\ \A i \in U : i # x
  BY <1>1, <1>4
<1>9. ASSUME NEW i \in U
      PROVE  \/ A(i) = {} /\ \E j \in D : before(i) = {j}
             \/ before(i) = {} /\ \E j \in D : A(i) = {j}
  <2>1. IsFiniteSet(D)
    <3>1. IsFiniteSet(1 .. MaxItems)
      <4>1. 1 \in Int /\ MaxItems \in Int
        BY JsonAssumption
      <4> QED
        BY <4>1, FS_Interval
    <3> HIDE DEF D
    <3> QED
      BY <3>1, <1>4, FS_Subset DEF Items
  <2>2. A(i) \in SUBSET D /\ before(i) \in SUBSET D
    OBVIOUS
  <2>3. Cardinality((A(i) \X {"child"}) \cup (before(i) \X {"next"})) = 1
    BY <1>1, <1>8
  <2> DEFINE p == A(i)
             q == before(i)
  <2>4. p \in SUBSET D /\ q \in SUBSET D /\ Cardinality((p \X {"child"}) \cup (q \X {"next"})) = 1
    BY <2>2, <2>3
  <2> HIDE DEF p, q, D
  <2>5. OneMember(D, p, q)
    BY ONLY <2>1, <2>4, OnePair, Zenon
  <2> QED
    BY <2>5 DEF p, q, OneMember
<1>10. before(x) = {}
  BY <1>4, <1>7, <1>8, <1>1
<1> HIDE DEF D
<1>11. ASSUME NEW i \in D PROVE R[i] \in M /\ g[R[i]] = copy(i)
  <2>1. R[i] \in M /\ R[i] \in Items
    BY <1>5, <1>6
  <2> DEFINE c == CHOOSE j \in D : addr(j) = R[i]
  <2>2. addr(i) = R[i]
    BY <1>7
  <2>3. c \in D /\ addr(c) = R[i]
    <3> HIDE DEF addr, R
    <3> QED
      BY <2>2
  <2>4. c = i
    <3> HIDE DEF c, R, addr
    <3> QED
      BY <2>3, <1>5, <1>7
  <2>5. g[R[i]] = copy(c)
    <3> HIDE DEF addr, R, copy, g
    <3> QED
      BY <2>1, <2>2, <1>1
  <2> HIDE DEF c, copy, R, g
  <2> QED
    BY <2>1, <2>4, <2>5
<1>12. ASSUME NEW k \in Items, k \notin M PROVE g[k] = item[k]
  <2>1. ~\E i \in D : addr(i) = k
    <3> HIDE DEF addr, R
    <3> QED
      BY <1>5, <1>7, <1>12
  <2> HIDE DEF addr, copy, g
  <2> QED
    BY <2>1, <1>1
<1>13. ASSUME NEW i \in D
       PROVE  /\ copy(i).type = item[i].type /\ ~copy(i).ref
              /\ copy(i).child = IF item[i].child = NIL THEN NIL ELSE R[item[i].child]
              /\ copy(i).next = IF i = x \/ item[i].next = NIL THEN NIL ELSE R[item[i].next]
              /\ before(i) = {} => copy(i).prev = NIL
              /\ \A j \in D : before(i) = {j} => copy(i).prev = R[j]
  <2>1. addr(item[i].child) = IF item[i].child = NIL THEN NIL ELSE R[item[i].child]
    <3> HIDE DEF R, addr
    <3> QED
      BY <1>7, <1>8
  <2>2. (IF i = x THEN NIL ELSE addr(item[i].next)) =
           IF i = x \/ item[i].next = NIL THEN NIL ELSE R[item[i].next]
    <3> HIDE DEF R, addr
    <3> QED
      BY <1>7, <1>8
  <2>3. copy(i).prev = IF before(i) = {} THEN NIL ELSE addr(CHOOSE j \in before(i) : TRUE)
    <3> HIDE DEF addr, before
    <3> QED
      OBVIOUS
  <2>4. ASSUME NEW j \in D, before(i) = {j} PROVE copy(i).prev = R[j]
    <3> HIDE DEF before, addr, copy, R
    <3>1. (CHOOSE k \in before(i) : TRUE) = j /\ before(i) # {}
      BY <2>4
    <3> QED
      BY <3>1, <2>3, <1>7
  <2>5. /\ copy(i).type = item[i].type /\ ~copy(i).ref
        /\ copy(i).child = addr(item[i].child)
        /\ copy(i).next = IF i = x THEN NIL ELSE addr(item[i].next)
    <3> HIDE DEF addr, before
    <3> QED
      OBVIOUS
  <2> HIDE DEF before, addr, copy, R
  <2> QED
    BY <2>1, <2>2, <2>3, <2>4, <2>5
<1>14. g \in HeapOf(v)
  <2>1. ASSUME NEW i \in D PROVE copy(i) \in Cell(v)
    <3>1. \A j \in D : R[j] \in 0 .. v
      BY <1>5, <1>6
    <3>2. item[i].type \in {"null"} \cup Containers
      BY <1>2, <1>4 DEF HeapOf, Cell
    <3>3. copy(i).child \in 0 .. v /\ copy(i).next \in 0 .. v
      <4> HIDE DEF copy, R, v
      <4> QED
        BY <3>1, <1>6, <1>8, <1>13
    <3>4. copy(i).prev \in 0 .. v
      <4>1. before(i) = {} \/ \E j \in D : before(i) = {j}
        <5> HIDE DEF before, A
        <5> QED
          BY <1>8, <1>9, <1>10
      <4> HIDE DEF copy, R, v, before
      <4> QED
        BY <4>1, <3>1, <1>6, <1>13
    <3>5. copy(i) = [type |-> copy(i).type, next |-> copy(i).next, prev |-> copy(i).prev,
                     child |-> copy(i).child, ref |-> FALSE]
      <4> HIDE DEF addr, before
      <4> QED
        OBVIOUS
    <3>6. copy(i).type \in {"null"} \cup Containers
      BY <3>2, <1>13
    <3> DEFINE ty == copy(i).type
               nx == copy(i).next
               pv == copy(i).prev
               ch == copy(i).child
    <3> HIDE DEF ty, nx, pv, ch, v
    <3>7. [type |-> ty, next |-> nx, prev |-> pv, child |-> ch, ref |-> FALSE] \in Cell(v)
      <4>1. /\ ty \in {"null"} \cup Containers
            /\ nx \in 0 .. v /\ pv \in 0 .. v /\ ch \in 0 .. v
        BY <3>3, <3>4, <3>6 DEF ty, nx, pv, ch
      <4> QED
        BY <4>1 DEF Cell
    <3> QED
      BY <3>5, <3>7 DEF ty, nx, pv, ch
  <2>2. ASSUME NEW k \in Items PROVE item[k] \in Cell(v)
    <3>1. item[k] \in Cell(used)
      BY <1>2 DEF HeapOf
    <3> HIDE DEF v
    <3> QED
      BY <3>1, <1>2, <1>6, HeapGrows
  <2>3. \A k \in Items : g[k] \in Cell(v)
    <3> SUFFICES ASSUME NEW k \in Items PROVE g[k] \in Cell(v)
      OBVIOUS
    <3> HIDE DEF g, copy, v, R, M
    <3>1. CASE k \in M
      <4>1. PICK i \in D : R[i] = k
        BY <3>1, <1>5
      <4> QED
        BY <4>1, <2>1, <1>11
    <3>2. CASE k \notin M
      BY <3>2, <2>2, <1>12
    <3> QED
      BY <3>1, <3>2
  <2>4. g = [k \in Items |-> g[k]]
    <3> HIDE DEF addr, copy
    <3> QED
      BY <1>1
  <2> HIDE DEF g, v
  <2> QED
    BY <2>3, <2>4 DEF HeapOf
<1>15. g \in Heap
  <2> HIDE DEF g, v
  <2> QED
    BY <1>6, <1>14, HeapOfHeap
<1>16. /\ \A i \in U : \E j \in D : item[j].child = i \/ (j # x /\ item[j].next = i)
       /\ \A i \in U, j \in D, k \in D : item[j].child = i /\ item[k].child = i => j = k
       /\ \A i \in U, j \in D, k \in U : ~(item[j].child = i /\ item[k].next = i)
  <2>1. \A i, j \in D : /\ j \in A(i) <=> item[j].child = i
                        /\ j \in before(i) <=> j # x /\ item[j].next = i
    OBVIOUS
  <2> HIDE DEF A, before
  <2>2. ASSUME NEW i \in U PROVE \E j \in D : item[j].child = i \/ (j # x /\ item[j].next = i)
    BY <2>1, <1>8, <1>9
  <2>3. ASSUME NEW i \in U, NEW j \in D, NEW k \in D, item[j].child = i, item[k].child = i
        PROVE  j = k
    <3>1. j \in A(i) /\ k \in A(i)
      BY <2>1, <2>3, <1>8
    <3> QED
      BY <3>1, <1>9
  <2>4. ASSUME NEW i \in U, NEW j \in D, NEW k \in U, item[j].child = i, item[k].next = i
        PROVE  FALSE
    <3>1. j \in A(i) /\ k \in before(i)
      BY <2>1, <2>4, <1>8
    <3> QED
      BY <3>1, <1>9
  <2> QED
    BY <2>2, <2>3, <2>4
<1>17. \A i \in D : /\ ~g[R[i]].ref
                    /\ g[R[i]].child = IF item[i].child = NIL THEN NIL ELSE R[item[i].child]
                    /\ g[R[i]].next = IF i = x \/ item[i].next = NIL THEN NIL
                                      ELSE R[item[i].next]
                    /\ (\A k \in U : item[k].next # i) => g[R[i]].prev = NIL
  <2> SUFFICES ASSUME NEW i \in D
               PROVE  /\ ~g[R[i]].ref
                      /\ g[R[i]].child = IF item[i].child = NIL THEN NIL ELSE R[item[i].child]
                      /\ g[R[i]].next = IF i = x \/ item[i].next = NIL THEN NIL
                                        ELSE R[item[i].next]
                      /\ (\A k \in U : item[k].next # i) => g[R[i]].prev = NIL
    OBVIOUS
  <2>1. (\A k \in U : item[k].next # i) => before(i) = {}
    BY <1>8
  <2>2. g[R[i]] = copy(i)
    BY <1>11
  <2> HIDE DEF g, copy, before, R
  <2> QED
    BY <2>1, <2>2, <1>13
<1>18. ASSUME NEW i \in U, NEW k \in U, item[k].next = i PROVE g[R[i]].prev = R[k]
  <2>1. k \in before(i) /\ i \in D /\ k \in D
    BY <1>8, <1>18
  <2>2. g[R[i]] = copy(i)
    BY <2>1, <1>11
  <2> HIDE DEF g, copy, before, R, A
  <2>3. before(i) = {k}
    BY <2>1, <1>9
  <2> QED
    BY <2>1, <2>2, <2>3, <1>13
<1>19. Forest(g, M, {R[x]}) /\ g[R[x]].prev = NIL
  <2>1. D = {x} \cup U /\ x \notin U
    BY <1>1 DEF D
  <2>2. x \in Items /\ U \in SUBSET Items /\ M \in SUBSET Items /\ R \in [D -> M]
    BY <1>3, <1>4, <1>5, <1>6
  <2> HIDE DEF g, R, M
  <2>3. Copied(item, g, M, x, U, D, R)
    BY <1>4, <1>5, <1>16, <1>17, <1>18 DEF Copied
  <2> QED
    BY <2>1, <2>2, <2>3, <1>15, CopyForest
<1>20. Good(v, g, freed, roots \cup {R[x]})
  <2> DEFINE P == {R[x]}
  <2>1. Forest(g, (used + 1) .. v, P) /\ \A i \in P : g[i].prev = NIL
    BY <1>19
  <2>2. \A i \in 1 .. used : g[i] = item[i]
    <3> HIDE DEF g, M
    <3> QED
      BY <1>6, <1>12
  <2> HIDE DEF P, v, g
  <2>3. Good(v, g, freed, roots \cup P)
    BY ONLY <2>1, <2>2, <1>2, <1>6, <1>14, GrowGood
  <2> QED
    BY <2>3 DEF P
<1>21. Good(used', item', freed', roots') /\ stack' = <<>> /\ broken' = "no"
  <2>1. addr(x) = R[x]
    BY <1>7, <1>8
  <2> HIDE DEF addr, R, v, copy
  <2> QED
    BY <2>1, <1>1, <1>2, <1>20
<1> QED
  BY <1>21, CalmAgain

-----------------------------------------------------------------------------
(* The theorem.                                                            *)

\* The invariant says what TreesSound says.
LEMMA InvSound ==
  ASSUME JsonInv
  PROVE  TreesSound
<1>1. broken # "freed"
  BY DEF JsonInv
<1>2. ASSUME broken = "no"
      PROVE  /\ Owned \subseteq Live
             /\ \A i \in Live : Cardinality(Owners(i)) = IF i \in Owned THEN 0 ELSE 1
             /\ \A i \in Live :
                  /\ item[i].next # NIL => /\ item[i].next \in Live
                                           /\ item[item[i].next].prev = i
                  /\ (item[i].child # NIL /\ ~item[i].ref) =>
                         item[i].child \in Live /\ item[item[i].child].prev = NIL
             /\ Live = UNION {Tree(item, r) : r \in Owned}
  <2>1. Good(used, item, freed, Owned)
    BY <1>2 DEF JsonInv
  <2>2. Live = (1 .. used) \ freed
    BY DEF Live
  <2>3. item \in Heap /\ Forest(item, Live, Owned) /\ Live \subseteq Items /\ Owned \subseteq Live
    BY <2>1, <2>2, GoodFacts
  <2>4. /\ Linked(item, Live)
        /\ \A i \in Live : i \in Owned <=> \A j \in Live : i \notin Succ(item)[j]
    BY <2>3 DEF Forest, Rooted
  <2>5. ASSUME NEW i \in Live
        PROVE  Cardinality(Owners(i)) = IF i \in Owned THEN 0 ELSE 1
    <3> DEFINE A == {j \in Live : item[j].next = i}
               B == {j \in Live : ~item[j].ref /\ item[j].child = i}
    <3>1. Owners(i) = (A \X {"next"}) \cup (B \X {"child"})
      BY DEF Owners
    <3>2. \A j \in Live : i \in Succ(item)[j] <=> j \in A \/ j \in B
      BY <2>3, SuccFacts
    <3>3. CASE i \in Owned
      <4>1. A = {} /\ B = {}
        BY <3>2, <3>3, <2>4
      <4>2. Owners(i) = {}
        BY <3>1, <4>1
      <4> QED
        BY <3>3, <4>2, FS_EmptySet
    <3>4. CASE i \notin Owned
      <4>1. PICK j \in Live : i \in Succ(item)[j]
        BY <3>4, <2>4
      <4>2. ASSUME NEW k \in Live, i \in Succ(item)[k]
            PROVE  k = j /\ ~(item[j].next = i /\ ~item[j].ref /\ item[j].child = i)
        BY <4>1, <4>2, <2>3, <2>4, OneOwner
      <4>3. (A = {j} /\ B = {}) \/ (A = {} /\ B = {j})
        BY <4>1, <4>2, <3>2
      <4> HIDE DEF A, B
      <4>4. \E e : Owners(i) = {e}
        <5>1. CASE A = {j} /\ B = {}
          <6>1. Owners(i) = {<<j, "next">>}
            BY <5>1, <3>1
          <6> QED
            BY <6>1
        <5>2. CASE A = {} /\ B = {j}
          <6>1. Owners(i) = {<<j, "child">>}
            BY <5>2, <3>1
          <6> QED
            BY <6>1
        <5> QED
          BY <5>1, <5>2, <4>3
      <4> QED
        BY <3>4, <4>4, FS_Singleton
    <3> QED
      BY <3>3, <3>4
  <2>6. Live = UNION {Tree(item, r) : r \in Owned}
    <3>1. \A r \in Owned : Tree(item, r) \subseteq Live
      BY <2>3, TreeFacts
    <3>2. \A a \in Live : \E r \in Owned : a \in Tree(item, r)
      BY <2>1, <2>2, InSomeTree
    <3> QED
      BY <3>1, <3>2
  <2>7. \A i \in Live :
          /\ item[i].next # NIL => /\ item[i].next \in Live
                                   /\ item[item[i].next].prev = i
          /\ (item[i].child # NIL /\ ~item[i].ref) =>
                 item[i].child \in Live /\ item[item[i].child].prev = NIL
    BY <2>4 DEF Linked
  <2> QED
    BY <2>3, <2>5, <2>6, <2>7
<1> QED
  BY <1>1, <1>2 DEF TreesSound

\* cJSON_Duplicate without the memory for it: what was made is freed.
LEMMA DuplicateFailsStep ==
  ASSUME JsonInv, NEW r \in roots, NEW x \in Tree(item, r), NEW n \in 1 .. MaxItems,
         DuplicateFails(r, x, n)
  PROVE  JsonInv'
<1> DEFINE new == (used + 1) .. (used + n)
<1>1. /\ Calm /\ used + n <= MaxItems /\ used' = used + n /\ freed' = freed \cup new
      /\ UNCHANGED <<item, roots, stack, broken>>
  BY DEF DuplicateFails, CanAlloc
<1>2. Good(used, item, freed, roots) /\ used \in 0 .. MaxItems
  BY <1>1, CalmFacts
<1>3. used + n \in used .. MaxItems /\ used + n \in 0 .. MaxItems
  BY <1>1, <1>2, JsonAssumption
<1>4. /\ (1 .. (used + n)) \ (freed \cup new) = (1 .. used) \ freed
      /\ freed \cup new \subseteq 1 .. (used + n)
  <2>1. freed \subseteq 1 .. used
    BY <1>2 DEF Good
  <2> QED
    BY <1>2, <1>3, <2>1
<1>5. item \in HeapOf(used + n)
  BY <1>2, <1>3, HeapGrows DEF Good, HeapOf
<1> HIDE DEF new
<1>6. Good(used + n, item, freed \cup new, roots)
  BY <1>2, <1>3, <1>4, <1>5 DEF Good
<1>7. Good(used', item', freed', roots')
  BY <1>1, <1>6
<1> QED
  BY <1>1, <1>7, CalmAgain DEF Calm

\* No item is allocated at first.
LEMMA InitInv ==
  ASSUME Init
  PROVE  JsonInv
<1>1. used = 0 /\ freed = {} /\ stack = <<>> /\ broken = "no" /\ Owned = {} /\ (1 .. used) \ freed = {}
  BY DEF Init, Owned
<1>2. item \in HeapOf(used)
  <2>1. Blank \in Cell(used)
    BY <1>1, BlankFacts, JsonAssumption
  <2> QED
    BY <2>1 DEF Init, HeapOf
<1>3. Forest(item, {}, {})
  BY DEF Forest, Linked, Rooted, Founded
<1>4. used \in 0 .. MaxItems
  BY <1>1, JsonAssumption
<1>5. Good(used, item, freed, Owned)
  BY <1>1, <1>2, <1>3, <1>4 DEF Good
<1>6. Parsing(item, Live, roots, stack)
  BY <1>1 DEF Parsing
<1> QED
  BY <1>1, <1>5, <1>6 DEF JsonInv

\* Every call keeps the invariant.
LEMMA NextInv ==
  ASSUME JsonInv, [Next]_vars
  PROVE  JsonInv'
<1>1. CASE UNCHANGED vars
  BY <1>1 DEF vars, JsonInv, Owned, Live
<1>2. ASSUME NEW t \in {"null"} \cup Containers, Create(t) \/ ParseScalar(t) PROVE JsonInv'
  BY <1>2, CreateStep, ParseScalarStep
<1>3. ASSUME NEW n \in 1 .. MaxItems, CreateArrayOf(n) \/ CreateArrayFails(n) PROVE JsonInv'
  BY <1>3, CreateArrayStep
<1>4. ASSUME Edit PROVE JsonInv'
  <2> SUFFICES ASSUME NEW r \in roots, NEW a \in Editable(r),
                 \/ \E c \in List(item, a) : DetachItem(r, a, c) \/ DeleteItem(r, a, c)
                 \/ \E x \in roots :
                      \/ AddItem(r, a, x)
                      \/ \E c \in List(item, a) :
                            InsertItem(r, a, c, x) \/ ReplaceItem(r, a, c, x)
                 \/ \E s \in roots : \E x \in Tree(item, s) : AddItemReference(r, a, s, x)
               PROVE  JsonInv'
    BY <1>4 DEF Edit
  <2>1. ASSUME NEW c \in List(item, a), DetachItem(r, a, c) \/ DeleteItem(r, a, c)
        PROVE  JsonInv'
    BY <2>1, DetachItemStep, DeleteItemStep
  <2>2. ASSUME NEW x \in roots, AddItem(r, a, x) PROVE JsonInv'
    BY <2>2, AddItemStep
  <2>3. ASSUME NEW x \in roots, NEW c \in List(item, a),
               InsertItem(r, a, c, x) \/ ReplaceItem(r, a, c, x)
        PROVE  JsonInv'
    BY <2>3, InsertItemStep, ReplaceItemStep
  <2>4. ASSUME NEW s \in roots, NEW x \in Tree(item, s), AddItemReference(r, a, s, x)
        PROVE  JsonInv'
    BY <2>4, AddItemReferenceStep
  <2> QED
    BY <2>1, <2>2, <2>3, <2>4
<1>5. ASSUME NEW r \in roots, Delete(r) PROVE JsonInv'
  BY <1>5, DeleteStep
<1>6. ASSUME NEW r \in roots, NEW x \in Tree(item, r), Duplicate(r, x) PROVE JsonInv'
  BY <1>6, DuplicateStep
<1>10. ASSUME NEW r \in roots, NEW x \in Tree(item, r), NEW n \in 1 .. MaxItems,
              DuplicateFails(r, x, n)
       PROVE  JsonInv'
  BY <1>10, DuplicateFailsStep
<1>7. ASSUME NEW t \in Containers, ParseOpen(t) PROVE JsonInv'
  BY <1>7, ParseOpenStep
<1>8. ASSUME ParseBegin \/ ParseComma \/ ParseClose \/ ParseFails \/ ParseEnd PROVE JsonInv'
  BY <1>8, ParseBeginStep, ParseCommaStep, ParseCloseStep, ParseFailsStep, ParseEndStep
<1>9. ASSUME Stop PROVE JsonInv'
  BY <1>1, <1>9 DEF Stop
<1> QED
  BY <1>1, <1>2, <1>3, <1>4, <1>5, <1>6, <1>7, <1>8, <1>9, <1>10 DEF Next

\* For any number of items and any sequence of constructions, edits, copies,
\* deletions and parses of cJSON.c, every item that is not freed is owned in one
\* place and hangs in a tree that is held, lists are linked both ways, and no
\* cJSON_Delete meets a freed item, as long as no item but the first is detached
\* and no array constructor runs out of memory.
THEOREM TreesStaySound == Spec => []TreesSound
<1>1. Init => JsonInv
  BY InitInv
<1>2. JsonInv /\ [Next]_vars => JsonInv'
  BY NextInv
<1>3. JsonInv => TreesSound
  BY InvSound
<1> QED
  BY <1>1, <1>2, <1>3, PTL DEF Spec
=============================================================================
