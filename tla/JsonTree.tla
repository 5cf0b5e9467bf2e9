------------------------------- MODULE JsonTree -------------------------------
(***************************************************************************)
(* The trees of cJSON.c: items linked by next, prev and child, built by    *)
(* the constructors or by the parser, edited through the array and object  *)
(* calls, and freed by cJSON_Delete, which follows next and child.         *)
(*                                                                         *)
(* Values and names are left out: an object call is the array call with    *)
(* the position that the name has.  An address is a number; an address is  *)
(* used once, so that a freed item is recognised.  The application edits   *)
(* the trees it holds (roots) and passes an item to one call only.         *)
(***************************************************************************)
EXTENDS Naturals, FiniteSets, Sequences

CONSTANTS
    MaxItems,       \* bound: calls of malloc for an item
    MallocMayFail   \* cJSON_New_Item may answer 0

ASSUME JsonAssumption == MaxItems \in Nat /\ MallocMayFail \in BOOLEAN

VARIABLES
    used,    \* items allocated so far
    item,    \* the items
    freed,   \* those given to cJSON_free
    roots,   \* the trees the application holds
    stack,   \* the parse_value calls under way: the item and how far it is
    broken   \* "no", or what has gone wrong: "links", "freed", "crash"

vars == <<used, item, freed, roots, stack, broken>>

NIL == 0
Items == 1 .. MaxItems
Live == (1 .. used) \ freed
Containers == {"array", "object"}

Blank == [type |-> "null", next |-> NIL, prev |-> NIL, child |-> NIL, ref |-> FALSE]

Init ==
    /\ used = 0
    /\ item = [i \in Items |-> Blank]
    /\ freed = {}
    /\ roots = {}
    /\ stack = <<>>
    /\ broken = "no"

-----------------------------------------------------------------------------
(* Walking.                                                                *)

\* What is reached from S along succ, which maps an item to a set of items: the
\* least set that holds S and what its members map to.
Closure(S, succ) ==
    LET closed == {C \in SUBSET Items : S \subseteq C /\ \A j \in C : succ[j] \subseteq C}
    IN {i \in Items : \A C \in closed : i \in C}

Nexts(h, i) == {h[i].next} \ {NIL}

Children(h, i) == IF h[i].ref THEN {} ELSE {h[i].child} \ {NIL}

\* Where cJSON_Delete goes on from an item: to the next one and, when the item
\* is not a reference, to its child.
Succ(h) == [i \in Items |-> Nexts(h, i) \cup Children(h, i)]

\* The items cJSON_Delete frees.
Deleted(h, c) == Closure({c}, Succ(h))

\* The list of a container, first to last.
List(h, a) == Closure({h[a].child} \ {NIL}, [i \in Items |-> Nexts(h, i)])

LastItem(h, a) == CHOOSE c \in List(h, a) : h[c].next = NIL

\* The items of the tree at r.
Tree(h, r) == {r} \cup Closure(Children(h, r), Succ(h))

\* The containers the application may edit in the tree at r.
Editable(r) == {a \in Tree(item, r) : item[a].type \in Containers /\ ~item[a].ref}

-----------------------------------------------------------------------------
(* List surgery, on a heap h.                                              *)

\* cJSON_AddItemToArray with suffix_object.
Appended(h, a, x) ==
    IF h[a].child = NIL THEN [h EXCEPT ![a].child = x]
    ELSE LET l == LastItem(h, a) IN [h EXCEPT ![l].next = x, ![x].prev = l]

\* cJSON_DetachItemFromArray: the item's own links are cleared only when it
\* was the first.
Detached(h, a, c) ==
    LET p == h[c].prev
        n == h[c].next
        one == IF p # NIL THEN [h EXCEPT ![p].next = n] ELSE h
        two == IF n # NIL THEN [one EXCEPT ![n].prev = p] ELSE one
    IN IF c # h[a].child THEN two
       ELSE [two EXCEPT ![a].child = n, ![c].prev = NIL, ![c].next = NIL]

\* cJSON_InsertItemInArray before c.
InsertedUnlinked(h, a, c, x) ==
    IF c = h[a].child THEN [h EXCEPT ![x].next = c, ![a].child = x]
    ELSE [h EXCEPT ![x].next = c, ![x].prev = h[c].prev, ![h[c].prev].next = x]

Inserted(h, a, c, x) ==
    LET one == [h EXCEPT ![x].next = c, ![x].prev = h[c].prev, ![c].prev = x]
    IN IF c = h[a].child THEN [one EXCEPT ![a].child = x]
       ELSE [one EXCEPT ![h[c].prev].next = x]

\* cJSON_ReplaceItemInArray up to the cJSON_Delete of c, whose links are
\* cleared first.
Replaced(h, a, c, x) ==
    LET n == h[c].next
        one == [h EXCEPT ![x].next = n, ![x].prev = h[c].prev]
        two == IF n # NIL THEN [one EXCEPT ![n].prev = x] ELSE one
        three == IF c = h[a].child THEN [two EXCEPT ![a].child = x]
                 ELSE [two EXCEPT ![h[c].prev].next = x]
    IN [three EXCEPT ![c].next = NIL, ![c].prev = NIL]

\* The heap after the items of D are freed: what they held is gone.
Without(h, D) == [i \in Items |-> IF i \in D THEN Blank ELSE h[i]]

\* cJSON_Delete(c) on heap h; meeting an item that is already freed is the
\* error the properties are about.
Free(h, c) ==
    /\ item' = Without(h, Deleted(h, c))
    /\ freed' = freed \cup Deleted(h, c)
    /\ broken' = IF Deleted(h, c) \cap freed # {} THEN "freed" ELSE broken

-----------------------------------------------------------------------------
(* The calls of an application.                                            *)

Calm == broken = "no" /\ stack = <<>>

CanAlloc(n) == used + n <= MaxItems

\* cJSON_New_Item clears the item it allocates.
New(h) == [h EXCEPT ![used + 1] = Blank]

\* cJSON_CreateNull, True, False, Number, String, Array and Object.
Create(t) ==
    /\ Calm /\ CanAlloc(1)
    /\ used' = used + 1
    /\ item' = [item EXCEPT ![used + 1] = [Blank EXCEPT !.type = t]]
    /\ roots' = roots \cup {used + 1}
    /\ UNCHANGED <<freed, stack, broken>>

\* cJSON_CreateIntArray and its three siblings: a failing cJSON_New_Item
\* gives the loop a null pointer to link.
CreateArrayOf(n) ==
    /\ Calm /\ CanAlloc(n + 1)
    /\ LET a == used + 1
           cell(i) == [Blank EXCEPT !.prev = IF i = a + 1 THEN NIL ELSE i - 1,
                                    !.next = IF i = a + n THEN NIL ELSE i + 1]
       IN /\ used' = used + n + 1
          /\ item' = [i \in Items |->
                        IF i = a THEN [Blank EXCEPT !.type = "array", !.child = a + 1]
                        ELSE IF i \in (a + 1) .. (a + n) THEN cell(i) ELSE item[i]]
          /\ roots' = roots \cup {a}
    /\ UNCHANGED <<freed, stack, broken>>

CreateArrayFails(n) ==
    /\ MallocMayFail
    /\ Calm /\ n > 1 /\ CanAlloc(2)
    /\ broken' = "crash"
    /\ UNCHANGED <<used, item, freed, roots, stack>>

\* cJSON_AddItemToArray, cJSON_AddItemToObject and cJSON_AddItemToObjectCS.
AddItem(r, a, x) ==
    /\ Calm /\ x # r
    /\ a \in Editable(r)
    /\ item' = Appended(item, a, x)
    /\ roots' = roots \ {x}
    /\ UNCHANGED <<used, freed, stack, broken>>

\* cJSON_AddItemReferenceToArray and ...ToObject: a shallow copy that shares
\* the children of x, an item of another tree.
AddItemReference(r, a, s, x) ==
    /\ Calm /\ CanAlloc(1) /\ s # r
    /\ a \in Editable(r) /\ x \in Tree(item, s)
    /\ used' = used + 1
    /\ item' = Appended([item EXCEPT ![used + 1] =
                           [item[x] EXCEPT !.ref = TRUE, !.next = NIL, !.prev = NIL]],
                        a, used + 1)
    /\ UNCHANGED <<freed, roots, stack, broken>>

\* cJSON_DetachItemFromArray and ...FromObject.  A detached item that keeps
\* its links is where a model of sane trees ends.
DetachItem(r, a, c) ==
    /\ Calm
    /\ a \in Editable(r) /\ c \in List(item, a)
    /\ item' = Detached(item, a, c)
    /\ roots' = roots \cup {c}
    /\ broken' = IF item'[c].next # NIL \/ item'[c].prev # NIL THEN "links" ELSE "no"
    /\ UNCHANGED <<used, freed, stack>>

\* cJSON_DeleteItemFromArray and ...FromObject.
DeleteItem(r, a, c) ==
    /\ Calm
    /\ a \in Editable(r) /\ c \in List(item, a)
    /\ LET h == Detached(item, a, c) IN
         /\ item' = Without(h, Deleted(h, c))
         /\ freed' = freed \cup Deleted(h, c)
         /\ broken' = IF h[c].next # NIL THEN "links" ELSE "no"
    /\ UNCHANGED <<used, roots, stack>>

\* cJSON_InsertItemInArray; past the end it appends.
InsertItem(r, a, c, x) ==
    /\ Calm /\ x # r
    /\ a \in Editable(r) /\ c \in List(item, a)
    /\ item' = Inserted(item, a, c, x)
    /\ roots' = roots \ {x}
    /\ UNCHANGED <<used, freed, stack, broken>>

\* cJSON_ReplaceItemInArray and ...InObject.
ReplaceItem(r, a, c, x) ==
    /\ Calm /\ x # r
    /\ a \in Editable(r) /\ c \in List(item, a)
    /\ Free(Replaced(item, a, c, x), c)
    /\ roots' = roots \ {x}
    /\ UNCHANGED <<used, stack>>

Delete(r) ==
    /\ Calm
    /\ Free(item, r)
    /\ roots' = roots \ {r}
    /\ UNCHANGED <<used, stack>>

\* What lies under x, through references too.
Under(x) ==
    Closure({item[x].child} \ {NIL}, [i \in Items |-> {item[i].child, item[i].next} \ {NIL}])

\* cJSON_Duplicate: the copies are linked like the originals; a reference
\* becomes an item of its own.  (Left out: items that two references share,
\* which are copied twice, and a reference under what it refers to, where the
\* code recurses for ever.  Without recurse the copy is what Create makes.)
Duplicate(r, x) ==
    LET D == {x} \cup Under(x)
        addr(i) == IF i = NIL THEN NIL ELSE used + Cardinality({j \in D : j <= i})
        before(i) == {j \in D \ {x} : item[j].next = i}
        links(i) == ({j \in D : item[j].child = i} \X {"child"}) \cup (before(i) \X {"next"})
    IN /\ Calm /\ x \in Tree(item, r)
       /\ CanAlloc(Cardinality(D))
       /\ x \notin Under(x) /\ D \cap freed = {}
       /\ \A i \in D \ {x} : Cardinality(links(i)) = 1
       /\ used' = used + Cardinality(D)
       /\ item' = [k \in Items |->
                     IF \E i \in D : addr(i) = k
                     THEN LET i == CHOOSE j \in D : addr(j) = k IN
                          [type |-> item[i].type, ref |-> FALSE,
                           child |-> addr(item[i].child),
                           next |-> IF i = x THEN NIL ELSE addr(item[i].next),
                           prev |-> IF before(i) = {} THEN NIL
                                    ELSE addr(CHOOSE j \in before(i) : TRUE)]
                     ELSE item[k]]
       /\ roots' = roots \cup {addr(x)}
       /\ UNCHANGED <<freed, stack, broken>>

\* An item or a string of the copy gets no memory.  The n items made so far
\* hang from the newitems of the calls under way, each of which deletes its own
\* and answers 0.
DuplicateFails(r, x, n) ==
    LET D == {x} \cup Under(x)
    IN /\ MallocMayFail
       /\ Calm /\ x \in Tree(item, r)
       /\ n <= Cardinality(D) /\ CanAlloc(n)
       /\ x \notin Under(x) /\ D \cap freed = {}
       /\ used' = used + n
       /\ freed' = freed \cup ((used + 1) .. (used + n))
       /\ UNCHANGED <<item, roots, stack, broken>>

-----------------------------------------------------------------------------
(* cJSON_ParseWithOpts, parse_value, parse_array and parse_object.  The    *)
(* text is any text: at every step it may go on in any way or be wrong.    *)

Top == stack[Len(stack)]
Below == SubSeq(stack, 1, Len(stack) - 1)

\* The value of the top item is complete.
Complete ==
    IF Len(stack) = 1 THEN <<[it |-> Top.it, at |-> "end"]>> ELSE Below

ParseBegin ==
    /\ Calm /\ CanAlloc(1)
    /\ used' = used + 1
    /\ item' = New(item)
    /\ stack' = <<[it |-> used + 1, at |-> "value"]>>
    /\ UNCHANGED <<freed, roots, broken>>

\* null, true, false, a string, a number or an empty array or object.
ParseScalar(t) ==
    /\ stack # <<>> /\ Top.at = "value"
    /\ item' = [item EXCEPT ![Top.it].type = t]
    /\ stack' = Complete
    /\ UNCHANGED <<used, freed, roots, broken>>

\* A new item hangs in the tree before its value is parsed.
Hang(h, parent) == Appended(New(h), parent, used + 1)

\* [ or { with a first element.
ParseOpen(t) ==
    /\ stack # <<>> /\ Top.at = "value" /\ CanAlloc(1)
    /\ used' = used + 1
    /\ item' = Hang([item EXCEPT ![Top.it].type = t], Top.it)
    /\ stack' = Below \o <<[it |-> Top.it, at |-> "list"], [it |-> used + 1, at |-> "value"]>>
    /\ UNCHANGED <<freed, roots, broken>>

ParseComma ==
    /\ stack # <<>> /\ Top.at = "list" /\ CanAlloc(1)
    /\ used' = used + 1
    /\ item' = Hang(item, Top.it)
    /\ stack' = Append(stack, [it |-> used + 1, at |-> "value"])
    /\ UNCHANGED <<freed, roots, broken>>

ParseClose ==
    /\ stack # <<>> /\ Top.at = "list"
    /\ stack' = Complete
    /\ UNCHANGED <<used, item, freed, roots, broken>>

\* The text goes wrong, or malloc fails: every call returns 0 and the root is
\* deleted with whatever hangs from it.
ParseFails ==
    /\ stack # <<>>
    /\ Free(item, stack[1].it)
    /\ stack' = <<>>
    /\ UNCHANGED <<used, roots>>

ParseEnd ==
    /\ stack # <<>> /\ Top.at = "end"
    /\ roots' = roots \cup {Top.it}
    /\ stack' = <<>>
    /\ UNCHANGED <<used, item, freed, broken>>

-----------------------------------------------------------------------------
Edit ==
    \E r \in roots : \E a \in Editable(r) :
       \/ \E c \in List(item, a) : DetachItem(r, a, c) \/ DeleteItem(r, a, c)
       \/ \E x \in roots :
            \/ AddItem(r, a, x)
            \/ \E c \in List(item, a) : InsertItem(r, a, c, x) \/ ReplaceItem(r, a, c, x)
       \/ \E s \in roots : \E x \in Tree(item, s) : AddItemReference(r, a, s, x)

Stop == (used = MaxItems \/ broken # "no") /\ UNCHANGED vars

Next ==
    \/ \E t \in {"null"} \cup Containers : Create(t) \/ ParseScalar(t)
    \/ \E n \in 1 .. MaxItems : CreateArrayOf(n) \/ CreateArrayFails(n)
    \/ Edit
    \/ \E r \in roots :
          \/ Delete(r)
          \/ \E x \in Tree(item, r) :
                Duplicate(r, x) \/ \E n \in 1 .. MaxItems : DuplicateFails(r, x, n)
    \/ ParseBegin \/ \E t \in Containers : ParseOpen(t)
    \/ ParseComma \/ ParseClose \/ ParseFails \/ ParseEnd
    \/ Stop

Spec == Init /\ [][Next]_vars

-----------------------------------------------------------------------------
(* Properties.                                                             *)

\* What the application, or the parse under way, can still free.
Owned == roots \cup (IF stack = <<>> THEN {} ELSE {stack[1].it})

\* The links that own an item: next, and the child of what is no reference.
Owners(i) ==
    ({j \in Live : item[j].next = i} \X {"next"})
       \cup ({j \in Live : ~item[j].ref /\ item[j].child = i} \X {"child"})

\* After any sequence of calls every item that is not freed hangs in exactly
\* one place, so that deleting what the application holds frees it exactly
\* once; the lists are linked both ways; nothing points to a freed item (a
\* reference's child excepted).  This holds until an item other than the
\* first is detached or deleted, which leaves its links as they were, or until
\* an array constructor gets no memory.  No cJSON_Delete meets a freed item.
TreesSound ==
    /\ broken # "freed"
    /\ broken = "no" =>
       /\ Owned \subseteq Live
       /\ \A i \in Live : Cardinality(Owners(i)) = IF i \in Owned THEN 0 ELSE 1
       /\ \A i \in Live :
            /\ item[i].next # NIL => /\ item[i].next \in Live
                                     /\ item[item[i].next].prev = i
            /\ (item[i].child # NIL /\ ~item[i].ref) =>
                   item[i].child \in Live /\ item[item[i].child].prev = NIL
       /\ Live = UNION {Tree(item, r) : r \in Owned}

\* "Remove/Detatch items from Arrays/Objects" (cJSON.h:111): deleting an item
\* leaves the others, and no item that is still linked is freed.
DeleteLeavesSiblings ==
    \A i \in Live : item[i].next \notin freed
=============================================================================
