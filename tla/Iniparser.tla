------------------------------- MODULE Iniparser -------------------------------
(***************************************************************************)
(* iniparser-main/iniparser.c on top of the dictionary: loading a file     *)
(* line by line, the calls of an application on what was loaded, and the   *)
(* text that iniparser_dump_ini writes.                                    *)
(*                                                                         *)
(* A key is <<s>> for the entry of section s, <<s, k>> for "s:k".  A value *)
(* is a sequence of characters: plain "p", quote "q", backslash "b".  A    *)
(* line of a file is a record: its form, the name it gives (a section or a *)
(* key, in the spelling of the file), the text of its value, and whether a *)
(* backslash at its end joins the next line to it (in the files modelled   *)
(* only values and comments are continued).                                *)
(***************************************************************************)
EXTENDS Dictionary, SequencesExt

CONSTANTS
    Files,     \* the files that may be loaded
    AppVals,   \* the values that the application sets
    Lower,     \* tolower on names
    LongVals,  \* the values whose dumped line does not fit in ASCIILINESZ
    JOINED     \* a value continued on the next line

ASSUME IniAssumption == JOINED \in Vals /\ LongVals \subseteq Vals /\ AppVals \subseteq Vals

VARIABLES
    phase,    \* "start", "loading", "returned", "refused", "app"
    file,     \* the lines
    pos,      \* lines read
    section,  \* the section buffer
    line,     \* the line buffer when it waits for its continuation, else NoLine
    errs,     \* a line was a syntax error
    memErr    \* dictionary_set has answered -1

iniVars == <<phase, file, pos, section, line, errs, memErr>>

NoLine == [form |-> "none", name |-> "", text |-> <<>>, cont |-> FALSE]

Line(form, name, text, cont) == [form |-> form, name |-> name, text |-> text, cont |-> cont]

IniInit ==
    /\ Init
    /\ phase = "start"
    /\ file \in Files
    /\ pos = 0 /\ section = "" /\ line = NoLine /\ errs = FALSE /\ memErr = FALSE

-----------------------------------------------------------------------------
(* Values in quotes.                                                       *)

Special == {"q", "b"}

escape_valueQuotesOnly(v) ==
    FlattenSeq([i \in 1 .. Len(v) |-> IF v[i] = "q" THEN <<"b", v[i]>> ELSE <<v[i]>>])

escape_value(v) ==
    FlattenSeq([i \in 1 .. Len(v) |-> IF v[i] \in Special THEN <<"b", v[i]>> ELSE <<v[i]>>])

\* What follows the opening quote, read up to the first quote that no
\* backslash escapes, backslashes that escape left out.
parse_quoted_value(t) ==
    LET esc[i \in 0 .. Len(t)] == i > 0 /\ t[i] = "b" /\ ~esc[i - 1]
        open(i) == ~esc[i - 1]
        ends == {i \in 1 .. Len(t) : t[i] = "q" /\ open(i)}
        kept == {i \in 1 .. Len(t) : /\ \A j \in ends : i < j
                                     /\ ~(t[i] = "b" /\ open(i))}
        order == SetToSortSeq(kept, <)
    IN [k \in 1 .. Len(order) |-> t[order[k]]]

\* iniparser_line: a quoted value is unquoted, any other taken as it is.
LineValue(l) == IF l.form = "quoted" THEN parse_quoted_value(l.text) ELSE l.text

\* What is stored: a quoted value that cannot be copied for it is emptied.
LineValues(l) ==
    {LineValue(l)} \cup IF DupMayFail /\ l.form = "quoted" THEN {<<>>} ELSE {}

IsValue(l) == l.form \in {"value", "commented", "quoted"}

\* The line that l, a value or a comment, becomes when the next line is
\* appended to it: a value ends where a comment or the closing quote was.
Extend(l, next) ==
    IF next.form = "empty" \/ l.form # "value" THEN Line(l.form, l.name, l.text, next.cont)
    ELSE IF next.form = "comment" THEN Line("commented", l.name, l.text, next.cont)
    ELSE Line("value", l.name, JOINED, next.cont)

\* The sections that a key of the file may be in, the nameless one included.
SectionsOf(f) ==
    {""} \cup {Lower[f[i].name] : i \in {j \in DOMAIN f : f[j].form = "section"}}

FileLine == [form : {"empty", "comment", "section", "value", "quoted", "error", "long"},
             name : STRING, text : Seq(STRING), cont : BOOLEAN]

\* A file is a sequence of lines, and Keys and Vals hold all that it says.
ASSUME FilesAssumption ==
    \A f \in Files :
      /\ f \in Seq(FileLine)
      /\ \A i \in DOMAIN f :
           /\ f[i].form = "section" => <<Lower[f[i].name]>> \in Keys
           /\ IsValue(f[i]) => /\ LineValues(f[i]) \subseteq Vals
                              /\ \A s \in SectionsOf(f) : <<s, Lower[f[i].name]>> \in Keys

-----------------------------------------------------------------------------
(* iniparser_load and iniparser_load_file.                                 *)

\* The buffer after fgets.
Got == IF line = NoLine THEN file[pos + 1] ELSE Extend(line, file[pos + 1])

Reading(l) ==
    /\ phase = "loading" /\ status # "crashed" /\ pos < Len(file) /\ ~memErr
    /\ l = Got
    /\ pos' = pos + 1

DictSet(k, v) == SetReplace(k, v) \/ SetInsert(k, v) \/ SetGrow(k, v) \/ SetGrowFails(k, v)

SameDict == UNCHANGED vars

LoadBegin ==
    /\ phase = "start"
    /\ New
    /\ phase' = "loading"
    /\ UNCHANGED <<file, pos, section, line, errs, memErr>>

\* fopen fails, or the first calloc of dictionary_new.
LoadRefused ==
    /\ phase = "start"
    /\ phase' = "refused"
    /\ SameDict
    /\ UNCHANGED <<file, pos, section, line, errs, memErr>>

TooLong(l) ==
    /\ Reading(l) /\ file[pos + 1].form = "long"
    /\ Del
    /\ phase' = "refused"
    /\ UNCHANGED <<file, section, line, errs, memErr>>

Whole(l) == file[pos + 1].form # "long" /\ ~l.cont /\ line' = NoLine

\* A backslash at the end: the line waits for the next.
Carry(l) ==
    /\ Reading(l) /\ file[pos + 1].form # "long" /\ l.cont
    /\ line' = l
    /\ SameDict
    /\ UNCHANGED <<phase, file, section, errs, memErr>>

\* iniparser_line takes a line that it cannot copy for an empty one.
Ignore(l) ==
    /\ Reading(l) /\ Whole(l)
    /\ l.form \in {"empty", "comment"} \/ DupMayFail
    /\ SameDict
    /\ UNCHANGED <<phase, file, section, errs, memErr>>

SyntaxError(l) ==
    /\ Reading(l) /\ Whole(l)
    /\ l.form = "error"
    /\ errs' = TRUE
    /\ SameDict
    /\ UNCHANGED <<phase, file, section, memErr>>

\* The answer of dictionary_set ends the loop when it is negative.
SetAndNote(k, v) == DictSet(k, v) /\ memErr' = (res'.ret < 0)

NewSectionForgotten(s) == section' = section

NewSection(s) == section' = s

SectionLine(l) ==
    /\ Reading(l) /\ Whole(l)
    /\ l.form = "section"
    /\ NewSection(Lower[l.name])
    /\ SetAndNote(<<Lower[l.name]>>, NULL)
    /\ UNCHANGED <<phase, file, errs>>

ValueLine(l) ==
    /\ Reading(l) /\ Whole(l)
    /\ IsValue(l)
    /\ \E v \in LineValues(l) : SetAndNote(<<section, Lower[l.name]>>, v)
    /\ UNCHANGED <<phase, file, section, errs>>

Finished ==
    /\ phase = "loading" /\ status # "crashed"
    /\ pos = Len(file) \/ memErr

\* The end of the file, or of the memory, which is not an error: the caller
\* gets what was read.
LoadEnd ==
    /\ Finished /\ ~errs
    /\ phase' = "returned"
    /\ SameDict
    /\ UNCHANGED <<file, pos, section, line, errs, memErr>>

LoadErrors ==
    /\ Finished /\ errs
    /\ Del
    /\ phase' = "refused"
    /\ UNCHANGED <<file, pos, section, line, errs, memErr>>

\* The first dictionary_set or dictionary_del on a dictionary without keys.
LineDies(l) ==
    /\ phase = "loading" /\ l = Got
    /\ \/ file[pos + 1].form = "long"
       \/ ~l.cont /\ (l.form = "section" \/ IsValue(l))
    /\ UseNoKeys
    /\ UNCHANGED iniVars

ErrorsDie == Finished /\ errs /\ UseNoKeys /\ UNCHANGED iniVars

Load ==
    \/ ErrorsDie
    \/ LoadBegin \/ LoadRefused \/ LoadEnd \/ LoadErrors
    \/ \E l \in IF pos < Len(file) THEN {Got} ELSE {} :
          \/ TooLong(l) \/ Carry(l) \/ Ignore(l) \/ SyntaxError(l)
          \/ SectionLine(l) \/ ValueLine(l) \/ LineDies(l)

-----------------------------------------------------------------------------
(* The application, which knows the dictionary and no longer the file.     *)

HasDict == phase \in {"returned", "app"}

Forget ==
    /\ phase' = "app"
    /\ file' = <<>> /\ pos' = 0 /\ section' = "" /\ line' = NoLine
    /\ errs' = FALSE /\ memErr' = FALSE

iniparser_set(k, v) == HasDict /\ Forget /\ DictSet(k, v)

iniparser_unset(k) == HasDict /\ Forget /\ (UnsetFound(k) \/ UnsetMissing(k))

iniparser_getstring(k) == HasDict /\ Forget /\ Get(k)

iniparser_freedict == HasDict /\ Forget /\ Del

\* Any of these, or a dump, on a dictionary without keys.
iniparser_dies == HasDict /\ Forget /\ UseNoKeys

Refused ==
    /\ phase = "refused" \/ status \in {"freed", "crashed"}
    /\ UNCHANGED <<vars, iniVars>>

IniNext ==
    \/ Load
    \/ \E k \in Keys :
          \/ \E v \in AppVals \cup {NULL} : iniparser_set(k, v)
          \/ iniparser_unset(k) \/ iniparser_getstring(k)
    \/ iniparser_freedict \/ iniparser_dies
    \/ Refused

IniSpec == IniInit /\ [][IniNext]_<<vars, iniVars>>

-----------------------------------------------------------------------------
(* What iniparser_dump_ini writes; blank lines are left out.               *)

IsSection(i) == key[i] # NULL /\ Len(key[i]) = 1

iniparser_getnsec == Cardinality({i \in Slots : IsSection(i)})

\* The name of the section met after n others.
iniparser_getsecname(m) ==
    key[CHOOSE i \in Slots : IsSection(i) /\ Cardinality({j \in 0 .. (i - 1) : IsSection(j)}) = m][1]

\* The slots whose key begins with "s:", in order.
SectionSlots(s) ==
    SetToSortSeq({i \in Slots : key[i] # NULL /\ Len(key[i]) = 2 /\ key[i][1] = s}, <)

\* The value that the buffer "escaped" holds after the last of these slots: a
\* null value leaves in it what the slot before had put there.
Escaped(slots) ==
    LET full == SelectSeq(slots, LAMBDA i : val[i] # NULL)
    IN IF full = <<>> THEN <<>> ELSE val[Last(full)]

\* One line "name = "value"" for each slot.
DumpKeys(slots, names) ==
    [k \in 1 .. Len(slots) |->
       LET v == Escaped(SubSeq(slots, 1, k))
       IN Line(IF v \in LongVals THEN "long" ELSE "quoted", names[k],
               escape_value(v) \o <<"q">>, FALSE)]

iniparser_dumpsection_ini(s) ==
    LET slots == SectionSlots(s)
    IN <<Line("section", s, <<>>, FALSE)>>
       \o DumpKeys(slots, [k \in 1 .. Len(slots) |-> key[slots[k]][2]])

\* Without a section every key is written with the colon it begins with.
iniparser_dump_ini ==
    LET all == SetToSortSeq(Occupied, <)
    IN IF iniparser_getnsec < 1
       THEN DumpKeys(all, [k \in 1 .. Len(all) |-> key[all[k]][1] \o ":" \o key[all[k]][2]])
       ELSE FlattenSeq([m \in 1 .. iniparser_getnsec |->
                          iniparser_dumpsection_ini(iniparser_getsecname(m - 1))])

-----------------------------------------------------------------------------
(* What a sequence of lines means: lines joined first, then the last line  *)
(* that gives a key decides its value.                                     *)

\* The lines that begin an entry; one that is continued to the end of the file
\* and no further is dropped.
Starts(ls) == {i \in DOMAIN ls : /\ i = 1 \/ ~ls[i - 1].cont
                                 /\ \E j \in i .. Len(ls) : ~ls[j].cont}

Loadable(ls) ==
    /\ \A i \in DOMAIN ls : ls[i].form # "long"
    /\ \A i \in Starts(ls) : ls[i].form # "error"

KeyAt(ls, i) ==
    LET heads == {j \in Starts(ls) : j < i /\ ls[j].form = "section"}
    IN IF ls[i].form = "section" THEN <<Lower[ls[i].name]>>
       ELSE <<IF heads = {} THEN "" ELSE Lower[ls[Max(heads)].name], Lower[ls[i].name]>>

ValueAt(ls, i) ==
    LET end == Min({j \in i .. Len(ls) : ~ls[j].cont})
        more == {j \in (i + 1) .. end : /\ ls[j].form # "empty"
                                       /\ \A c \in (i + 1) .. j : ls[c].form # "comment"}
    IN IF ls[i].form = "section" THEN NULL
       ELSE IF ls[i].form = "value" /\ more # {} THEN JOINED ELSE LineValue(ls[i])

Content(ls) ==
    LET given(k) == {i \in Starts(ls) : /\ ls[i].form \in {"section", "value", "quoted"}
                                        /\ KeyAt(ls, i) = k}
    IN [k \in Keys |-> IF given(k) = {} THEN ABSENT ELSE ValueAt(ls, Max(given(k)))]

-----------------------------------------------------------------------------
(* Properties.                                                             *)

\* The loop of iniparser_load_file, with its carried line, its section buffer
\* and the dictionary growing under it, returns what the lines mean, and
\* refuses a file only for a syntax error or an overlong line.  When memory
\* runs out it returns what the lines before the failure mean, and a dictionary
\* without a key array only for lines that mean nothing.
LoadedIsFile ==
    LET read == SubSeq(file, 1, IF memErr THEN pos - 1 ELSE pos)
    IN /\ phase = "returned" => /\ Loadable(read)
                                /\ \A k \in Keys : Lookup(k) = Content(read)[k]
       /\ (phase = "refused" /\ status = "freed") => ~Loadable(read)

\* The dictionaries that survive a dump: sections without a value, keys with
\* one that fits in a line, each in a section that has an entry of its own.
Dumpable ==
    \A i \in Occupied :
       IF IsSection(i) THEN val[i] = NULL
       ELSE /\ val[i] \notin LongVals \cup {NULL}
            /\ \E j \in Occupied : key[j] = <<key[i][1]>>

\* Escaping, the order of the slots and the grouping by section are undone by
\* the loader: loading the dump of such a dictionary gives it back, whatever
\* order its slots were filled in and whatever its values hold.
DumpLoads ==
    (HasDict /\ status = "live" /\ Dumpable) =>
        LET ls == iniparser_dump_ini
        IN Loadable(ls) /\ \A k \in Keys : Lookup(k) = Content(ls)[k]

=============================================================================
