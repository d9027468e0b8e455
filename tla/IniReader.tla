----------------------------- MODULE IniReader -----------------------------
(***************************************************************************)
(* ini_parse_stream of src/common/inih/ini.c, with the settings of ini.h:  *)
(* multi-line values, no stop at the first error, lines of 199 characters. *)
(* A line of the file is what its characters make of it once comments and  *)
(* blanks are off: nothing ("blank"), a section line that is closed        *)
(* ("header") or not ("open"), a name and a text ("pair") or one that has  *)
(* no sign ("bare"). Any of them may be indented, and be cut because it is *)
(* longer; what is left then is what the record holds.                     *)
(*                                                                         *)
(* A text is a list of items, as split_csv_trim would cut it, and an item  *)
(* a word and what follows its colon, if it has one. raw is the text of    *)
(* the whole line, which is what counts when it goes on from the last one. *)
(***************************************************************************)
EXTENDS Integers, Sequences

CONSTANTS Words,      \* section names, key names and the words of texts
          Files       \* the files that may be loaded

Shapes == {"blank", "header", "open", "pair", "bare"}
Items == [word : Words, param : Words \cup {"none"}]

FileLines == [shape : Shapes, indent : BOOLEAN, cut : BOOLEAN, name : Words,
              text : Seq(Items), raw : Seq(Items)]

ASSUME IniAssumption == "" \in Words /\ Files \subseteq Seq(FileLines)

VARIABLES
    file,       \* the file, the same all along
    pos,        \* the line that is read next
    section,    \* the section in force
    prev_name,  \* the key an indented line goes on with, or none
    ini_error   \* the first line at fault, or 0: what ini_parse returns

\* The element of a set that has one.
TheOne(S) == CHOOSE x \in S : TRUE

inivars == <<file, pos, section, prev_name, ini_error>>

IniInit ==
    /\ file \in Files /\ pos = 1
    /\ section = "" /\ prev_name = "" /\ ini_error = 0

line == file[pos]

\* A line that is indented goes on with the last key, whatever it looks like.
continues == prev_name # "" /\ line.indent /\ line.shape # "blank"

Is(shape) == ~continues /\ line.shape = shape

\* A bug: the line number of a later error takes the place of the first.
step_to_last(bad) ==
    /\ pos' = pos + 1
    /\ ini_error' = IF bad \/ line.cut THEN pos ELSE ini_error
    /\ UNCHANGED file

step(bad) ==
    /\ pos' = pos + 1
    /\ ini_error' = IF ini_error = 0 /\ (bad \/ line.cut) THEN pos ELSE ini_error
    /\ UNCHANGED file

-----------------------------------------------------------------------------
IniBlank == Is("blank") /\ step(FALSE) /\ UNCHANGED <<section, prev_name>>

\* A bug: the key of the section before goes on into the new one.
IniHeader_keeps_name ==
    Is("header") /\ step(FALSE) /\ section' = line.name /\ UNCHANGED prev_name

IniHeader ==
    Is("header") /\ step(FALSE) /\ section' = line.name /\ prev_name' = ""

\* No bracket, or no sign: the line is passed over.
IniOpen == Is("open") /\ step(TRUE) /\ UNCHANGED <<section, prev_name>>
IniBare == Is("bare") /\ step(TRUE) /\ UNCHANGED <<section, prev_name>>

\* The lines for which the handler is called, and with what.
Calls == continues \/ Is("pair")
call_name == IF continues THEN prev_name ELSE line.name
call_text == IF continues THEN line.raw ELSE line.text

IniCall(refused) ==
    /\ Calls
    /\ step(refused)
    /\ prev_name' = call_name
    /\ UNCHANGED section
-----------------------------------------------------------------------------
(***************************************************************************)
(* The same without a state, for what a whole file says: a line goes on    *)
(* from a key if there is one above it and nothing, at the margin, that    *)
(* ends it in between: a section line, or a pair without a name.           *)
(***************************************************************************)
Opens(k) == file[k].shape = "pair" /\ file[k].name # ""
Ends(k) == file[k].shape = "header" \/ (file[k].shape = "pair" /\ file[k].name = "")

\* There is a key to go on from after line k.
Going(k) ==
    \E j \in 1 .. k : Opens(j) /\ \A h \in j .. k : Ends(h) => file[h].indent

Continues(k) == file[k].indent /\ file[k].shape # "blank" /\ Going(k - 1)

IsCall(k) == Continues(k) \/ file[k].shape = "pair"

Bad(k) == file[k].cut \/ (~Continues(k) /\ file[k].shape \in {"open", "bare"})

\* The last line up to k that is of the shape and does not go on from another.
Last(shape, k) ==
    {j \in 1 .. k : /\ file[j].shape = shape /\ ~Continues(j)
                    /\ \A h \in j + 1 .. k : file[h].shape = shape => Continues(h)}

SectionAt(k) == IF Last("header", k) = {} THEN ""
                ELSE file[TheOne(Last("header", k))].name
KeyAt(k) == file[TheOne(Last("pair", k))].name
TextAt(k) == IF Continues(k) THEN file[k].raw ELSE file[k].text
=============================================================================
