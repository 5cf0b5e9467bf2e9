------------------------------- MODULE JsonPrint -------------------------------
(***************************************************************************)
(* Printing the trees of JsonTree: cJSON_Print with a block of its own for *)
(* every part, cJSON_PrintBuffered into one buffer that grows.             *)
(*                                                                         *)
(* A character is an atom, a text a sequence of them, NULL the pointer 0.  *)
(* The names and the values that JsonTree leaves out are constants here,   *)
(* one for each item and never the pointer 0, which print_string_ptr reads *)
(* from before it tests it.  Memory is counted: mem.n calls of malloc so   *)
(* far, of which the mem.fail'th answers 0 (none when it is 0), mem.live   *)
(* blocks not freed, mem.fits false once a write has passed the end of its *)
(* block.                                                                  *)
(***************************************************************************)
EXTENDS JsonTree, SequencesExt

CONSTANTS
    NameOf,      \* item |-> its string, a sequence over CharClasses
    ValueOf,     \* item |-> its kind when it is a leaf and, for a string, what it holds
    Prebuffers,  \* bound: the sizes given to cJSON_PrintBuffered
    MaxMallocs   \* bound: the last call of malloc that may be the failing one

\* plain, quote or backslash, control with a short escape, any other control
CharClasses == {"p", "q", "n", "c"}

NULL == <<>>
Chars(c, n) == [k \in 1 .. n |-> c]

\* The length of a scalar's text (the longest of its kind) and the room that
\* print_value and print_number ask for.
Scalars ==
    [null |-> [len |-> 4, room |-> 5], true |-> [len |-> 4, room |-> 5],
     false |-> [len |-> 5, room |-> 6], zero |-> [len |-> 1, room |-> 2],
     int |-> [len |-> 11, room |-> 21], double |-> [len |-> 61, room |-> 64]]

-----------------------------------------------------------------------------
(* print_string_ptr.                                                       *)

Escape(c) ==
    CASE c = "p" -> <<"p">>
      [] c \in {"q", "n"} -> <<"\\", c>>
      [] OTHER -> <<"\\", "u", "0", "0", "c", "c">>

StringText(s) == <<"\"">> \o FlattenSeq([k \in 1 .. Len(s) |-> Escape(s[k])]) \o <<"\"">>

\* The first loop decides whether anything is escaped ...
flag(s) == \E k \in 1 .. Len(s) : s[k] # "p"

\* ... and the second counts.
EscapedLen(s) ==
    LET of(C) == Cardinality({k \in 1 .. Len(s) : s[k] \in C})
    IN Len(s) + of({"q", "n"}) + 5 * of({"c"})

StringRoom(s) == 3 + IF flag(s) THEN EscapedLen(s) ELSE Len(s)

\* What print_value writes for a leaf, and the room it asks for.
LeafText(i) ==
    IF ValueOf[i].kind # "string" THEN Chars(ValueOf[i].kind, Scalars[ValueOf[i].kind].len)
    ELSE StringText(ValueOf[i].str)

LeafRoom(i) ==
    IF ValueOf[i].kind # "string" THEN Scalars[ValueOf[i].kind].room
    ELSE StringRoom(ValueOf[i].str)

-----------------------------------------------------------------------------
(* Without a buffer: each call returns a block of its own.                 *)

Fresh(fail) == [n |-> 0, fail |-> fail, live |-> 0, fits |-> TRUE]

Answers(m) == m.n + 1 # m.fail

Malloc(m) == [m EXCEPT !.n = @ + 1, !.live = IF Answers(m) THEN @ + 1 ELSE @]

\* A block of the given size with the text and its terminator in it.
Block(m, size, text) ==
    [mem |-> [Malloc(m) EXCEPT !.fits = @ /\ (Answers(m) => Len(text) + 1 <= size)],
     text |-> IF Answers(m) THEN text ELSE NULL]

Frees(m, n) == [m EXCEPT !.live = @ - n]

Present(texts) == Cardinality({k \in 1 .. Len(texts) : texts[k] # NULL})

SumLen(texts) == Len(FlattenSeq(texts))

If(fmt, n) == IF fmt THEN n ELSE 0

Between(fmt) == IF fmt THEN <<",", " ">> ELSE <<",">>

ArrayText(texts, fmt) ==
    <<"[">> \o FlattenSeq([k \in 1 .. Len(texts) |->
                 texts[k] \o (IF k < Len(texts) THEN Between(fmt) ELSE <<>>)]) \o <<"]">>

ArrayRoom(texts, fmt) == 5 + SumLen(texts) + Len(texts) * (2 + If(fmt, 1))

\* depth is that of the members.
ObjectText(names, texts, depth, fmt) ==
    LET tabs(n) == Chars("\t", If(fmt, n))
        line(k) == tabs(depth) \o names[k] \o <<":">> \o tabs(1) \o texts[k]
                   \o (IF k < Len(texts) THEN <<",">> ELSE <<>>) \o Chars("\n", If(fmt, 1))
    IN <<"{">> \o Chars("\n", If(fmt, 1)) \o FlattenSeq([k \in 1 .. Len(texts) |-> line(k)])
       \o tabs(depth - 1) \o <<"}">>

ObjectRoom(names, texts, depth, fmt) ==
    7 + If(fmt, depth) + SumLen(texts) + SumLen(names) + Len(texts) * (2 + If(fmt, 2 + depth))

EmptyObjectText(depth, fmt) ==
    <<"{">> \o (IF fmt THEN <<"\n">> \o Chars("\t", IF depth = 0 THEN 0 ELSE depth - 1)
                ELSE <<>>) \o <<"}">>

EmptyObjectRoom(depth, fmt) == IF fmt THEN depth + 4 ELSE 3

\* The end of print_array and print_object: the parts and the arrays that held
\* them are freed whether or not the text could be put together.
ReleaseOnSuccess(parts, arrays, out) ==
    [out EXCEPT !.mem = Frees(@, arrays + IF out.text = NULL THEN 0 ELSE Present(parts))]

Release(parts, arrays, out) ==
    [out EXCEPT !.mem = Frees(@, Present(parts) + arrays)]

RECURSIVE print_value(_, _, _, _), print_elements(_, _, _, _), print_members(_, _, _, _)

\* The loop of print_array from child c on: it stops at a part it cannot print.
print_elements(got, c, depth, fmt) ==
    IF c = NIL \/ got.fail THEN got
    ELSE LET ret == print_value(got.mem, c, depth, fmt)
         IN print_elements([got EXCEPT !.mem = ret.mem, !.fail = ret.text = NULL,
                                       !.texts = Append(@, ret.text)],
                           item[c].next, depth, fmt)

\* The loop of print_object: every name and every part, printed or not.
print_members(got, c, depth, fmt) ==
    IF c = NIL THEN got
    ELSE LET str == Block(got.mem, StringRoom(NameOf[c]), StringText(NameOf[c]))
             ret == print_value(str.mem, c, depth, fmt)
         IN print_members([mem |-> ret.mem, names |-> Append(got.names, str.text),
                           texts |-> Append(got.texts, ret.text),
                           fail |-> got.fail \/ str.text = NULL \/ ret.text = NULL],
                          item[c].next, depth, fmt)

Nothing(m) == [mem |-> m, fail |-> FALSE, names |-> <<>>, texts |-> <<>>]

print_array(m, child, depth, fmt) ==
    LET got == print_elements(Nothing(Malloc(m)), child, depth + 1, fmt)
    IN IF child = NIL THEN Block(m, 3, <<"[", "]">>)
       ELSE IF ~Answers(m) THEN [mem |-> Malloc(m), text |-> NULL]
       ELSE Release(got.texts, 1,
              IF got.fail THEN [mem |-> got.mem, text |-> NULL]
              ELSE Block(got.mem, ArrayRoom(got.texts, fmt), ArrayText(got.texts, fmt)))

print_object(m, child, depth, fmt) ==
    LET arrays == Malloc(Malloc(m))
        got == print_members(Nothing(arrays), child, depth + 1, fmt)
    IN IF child = NIL THEN Block(m, EmptyObjectRoom(depth, fmt), EmptyObjectText(depth, fmt))
       ELSE IF ~Answers(m) THEN [mem |-> Malloc(m), text |-> NULL]
       ELSE IF ~Answers(Malloc(m)) THEN [mem |-> Frees(arrays, 1), text |-> NULL]
       ELSE Release(got.names \o got.texts, 2,
              IF got.fail THEN [mem |-> got.mem, text |-> NULL]
              ELSE Block(got.mem, ObjectRoom(got.names, got.texts, depth + 1, fmt),
                         ObjectText(got.names, got.texts, depth + 1, fmt)))

print_value(m, i, depth, fmt) ==
    CASE item[i].type = "array" -> print_array(m, item[i].child, depth, fmt)
      [] item[i].type = "object" -> print_object(m, item[i].child, depth, fmt)
      [] OTHER -> Block(m, LeafRoom(i), LeafText(i))

\* cJSON_Print (fmt) and cJSON_PrintUnformatted.
cJSON_Print(i, fmt, fail) == print_value(Fresh(fail), i, 0, fmt)

-----------------------------------------------------------------------------
(* Into a buffer: p.buf is its cells, p.offset where the text goes on; a   *)
(* buffer that is NULL stays so and every call returns 0.                  *)

NUL == "NUL"

\* The smallest power of two that is not less than x.
pow2gt(x) == 2 ^ (CHOOSE k \in 0 .. x : 2 ^ k >= x /\ (k = 0 \/ 2 ^ (k - 1) < x))

\* Room for needed characters from the offset on.
ensureNoOffset(p, needed) ==
    IF p.buf = NULL \/ needed <= Len(p.buf) THEN p
    ELSE [p EXCEPT !.mem = Frees(Malloc(@), 1),
                   !.buf = IF Answers(p.mem) THEN @ \o Chars("junk", pow2gt(needed) - Len(@))
                           ELSE NULL]

ensure(p, needed) ==
    LET all == needed + p.offset
    IN IF p.buf = NULL \/ all <= Len(p.buf) THEN p
       ELSE [p EXCEPT !.mem = Frees(Malloc(@), 1),
                      !.buf = IF Answers(p.mem) THEN @ \o Chars("junk", pow2gt(all) - Len(@))
                              ELSE NULL]

\* Characters stored from the offset on; the offset stays.
Put(p, text) ==
    IF p.buf = NULL THEN p
    ELSE IF p.offset + Len(text) > Len(p.buf) THEN [p EXCEPT !.mem.fits = FALSE]
    ELSE [p EXCEPT !.buf = [k \in 1 .. Len(@) |->
                             IF k \in p.offset + 1 .. p.offset + Len(text)
                             THEN text[k - p.offset] ELSE @[k]]]

Skip(p, n) == [p EXCEPT !.offset = @ + n]

\* The text in the buffer from an offset to its terminator.
TextAt(p, offset) ==
    LET ends == {k \in offset + 1 .. Len(p.buf) : p.buf[k] = NUL}
    IN SubSeq(p.buf, offset + 1,
              IF ends = {} THEN Len(p.buf) ELSE (CHOOSE k \in ends : \A l \in ends : k <= l) - 1)

update(p) ==
    IF p.buf = NULL THEN [p EXCEPT !.offset = 0] ELSE Skip(p, Len(TextAt(p, p.offset)))

Ended(text) == Append(text, NUL)

\* ensure, then the text and its terminator.
Store(p, room, text) == Put(ensure(p, room), Ended(text))

RECURSIVE buf_value(_, _, _, _), buf_elements(_, _, _, _), buf_members(_, _, _, _)

buf_elements(p, c, depth, fmt) ==
    IF c = NIL THEN p
    ELSE LET q == update(buf_value(p, c, depth, fmt))
             n == Len(Between(fmt))
         IN buf_elements(IF item[c].next = NIL THEN q ELSE Skip(Store(q, n + 1, Between(fmt)), n),
                         item[c].next, depth, fmt)

buf_array(p, child, depth, fmt) ==
    IF child = NIL THEN Store(p, 3, <<"[", "]">>)
    ELSE Store(buf_elements(Skip(Put(ensure(p, 1), <<"[">>), 1), child, depth + 1, fmt),
               2, <<"]">>)

\* Tabs, the colon and the comma are stored without a terminator.
Stored(p, room, text) == Skip(Put(ensure(p, room), text), Len(text))

buf_members(p, c, depth, fmt) ==
    IF c = NIL THEN p
    ELSE LET tabbed == IF fmt THEN Stored(p, depth, Chars("\t", depth)) ELSE p
             named == update(Store(tabbed, StringRoom(NameOf[c]), StringText(NameOf[c])))
             colon == Stored(named, 1 + If(fmt, 1), <<":">> \o Chars("\t", If(fmt, 1)))
             value == update(buf_value(colon, c, depth, fmt))
             end == (IF item[c].next = NIL THEN <<>> ELSE <<",">>) \o Chars("\n", If(fmt, 1))
         IN buf_members(Skip(Put(ensure(value, Len(end) + 1), IF fmt THEN Ended(end) ELSE end),
                             Len(end)),
                        item[c].next, depth, fmt)

buf_object(p, child, depth, fmt) ==
    LET head == <<"{">> \o Chars("\n", If(fmt, 1))
        open == Skip(Store(p, Len(head) + 1, head), Len(head))
    IN IF child = NIL THEN Store(p, EmptyObjectRoom(depth, fmt), EmptyObjectText(depth, fmt))
       ELSE Store(buf_members(open, child, depth + 1, fmt),
                  IF fmt THEN depth + 2 ELSE 2, Chars("\t", If(fmt, depth)) \o <<"}">>)

buf_value(p, i, depth, fmt) ==
    CASE item[i].type = "array" -> buf_array(p, item[i].child, depth, fmt)
      [] item[i].type = "object" -> buf_object(p, item[i].child, depth, fmt)
      [] OTHER -> Store(p, LeafRoom(i), LeafText(i))

\* cJSON_PrintBuffered: the pointer it returns is the start of the buffer, the
\* offset saved by the outermost call being 0.  (print_object reuses the
\* variable that saved it for its tabs, and at the outermost depth leaves 0.)
cJSON_PrintBuffered(i, prebuffer, fmt, fail) ==
    LET m == Fresh(fail)
        p == buf_value([mem |-> Malloc(m), offset |-> 0,
                        buf |-> IF Answers(m) THEN Chars("junk", prebuffer) ELSE NULL],
                       i, 0, fmt)
    IN [mem |-> p.mem, text |-> IF p.buf = NULL THEN NULL ELSE TextAt(p, 0)]

-----------------------------------------------------------------------------
(* Properties.  A tree is looked at when it is all there is: the shapes    *)
(* are the same whatever else the application holds.  A reference under    *)
(* what it refers to is left out: printing it never ends.                  *)

Whole(r) ==
    /\ broken = "no" /\ stack = <<>> /\ freed = {}
    /\ Tree(item, r) = 1 .. used
    /\ \A i \in 1 .. used : i \notin Under(i)

\* The lengths added up by print_array, print_object and print_string_ptr,
\* and the room that the buffered twins ask for piece by piece, hold every
\* character that is then stored, terminators included; and both ways of
\* printing a tree give the same text.
PrintsFitAndAgree ==
    \A r \in roots : Whole(r) =>
       \A fmt \in BOOLEAN :
          LET plain == cJSON_Print(r, fmt, 0) IN
          /\ plain.mem.fits
          /\ \A n \in Prebuffers :
                LET buffered == cJSON_PrintBuffered(r, n, fmt, 0)
                IN buffered.mem.fits /\ buffered.text = plain.text

\* Whichever call of malloc fails, printing answers 0 and has freed every
\* block; when none of those made fails the text is the one block left.
FailedPrintLeaksNothing ==
    \A r \in roots : Whole(r) =>
       \A fmt \in BOOLEAN, fail \in 0 .. MaxMallocs :
          \A out \in {cJSON_Print(r, fmt, fail)}
                     \cup {cJSON_PrintBuffered(r, n, fmt, fail) : n \in Prebuffers} :
             IF fail \in 1 .. out.mem.n THEN out.text = NULL /\ out.mem.live = 0
             ELSE out.text # NULL /\ out.mem.live = 1
=============================================================================
