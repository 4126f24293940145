------------------------------- MODULE ExUndo -------------------------------
(***************************************************************************)
(* The buffer of ex in command mode and how it undoes commands (append to  *)
(* put, undo and somechange of src/ex/ex_cmdsub.c, save of ex_subr.c, the  *)
(* commands of ex_cmds.c, global and substitute of ex_re.c).               *)
(*                                                                         *)
(* The lines are entries of one array: the text, and behind it the lines   *)
(* saved for undo, which is where put finds them.  In command mode unddol  *)
(* and truedol are both the end of the array.  A line is the text behind   *)
(* its entry; the current line, marks, named buffers and open and visual   *)
(* are left out, and the array has room for every line.                    *)
(***************************************************************************)
EXTENDS Integers, Sequences

CONSTANTS
    Line,       \* the texts a line may have
    MaxLines,   \* bound: lines in the text
    MaxNew      \* bound: lines a command brings

ASSUME UndoAssumption == MaxLines \in Nat /\ MaxNew \in Nat

VARIABLES
    buf,        \* the array `core' with `dol', and undkind, unddel, undap1, undap2
    inglobal,   \* in a global command
    before      \* the text before the last command, which the code does not keep

vars == <<buf, inglobal, before>>

FIXUNDO == ~inglobal

Text == SubSeq(buf.core, 1, buf.dol)
Area == SubSeq(buf.core, buf.dol + 1, Len(buf.core))

Init == /\ buf = [core |-> <<>>, dol |-> 0, undkind |-> "none",
                  unddel |-> 0, undap1 |-> 0, undap2 |-> 0]
        /\ inglobal = FALSE
        /\ before = {}

\* reverse(): the entries from a1 up to a2 - 1.
reverse(s, a1, a2) == [n \in DOMAIN s |-> IF n \in a1..a2 - 1 THEN s[a1 + a2 - 1 - n] ELSE s[n]]

\* Three times, and the entries a to b - 1 and b to c - 1 change places.
Exchange(s, a, b, c) == reverse(reverse(reverse(s, a, b), b, c), a, c)

\* squish(): the saved lines are forgotten.
squish(b) == [b EXCEPT !.core = SubSeq(b.core, 1, b.dol)]

\* The loop of append(): lines after line a.
Grow(b, a, lines) ==
    [b EXCEPT !.core = SubSeq(@, 1, a) \o lines \o SubSeq(@, a + 1, Len(@)),
              !.dol = @ + Len(lines),
              !.undap2 = @ + Len(lines)]

append(b, a, lines) ==
    Grow(IF FIXUNDO THEN [b EXCEPT !.undkind = "change", !.undap1 = a + 1, !.undap2 = a + 1]
         ELSE b, a, lines)

appendnone(b, a1) ==
    IF FIXUNDO THEN [b EXCEPT !.undkind = "change", !.undap1 = a1, !.undap2 = a1] ELSE b

deletenone(b, a1) ==
    IF FIXUNDO THEN [squish(b) EXCEPT !.undkind = "change", !.unddel = a1] ELSE b

\* ex_delete(): the lines go behind the text, or in a global command away.
ex_delete(b, a1, a2) ==
    IF FIXUNDO
    THEN LET s == squish(b)
         IN  [s EXCEPT !.core = IF a2 = s.dol THEN @ ELSE Exchange(@, a1, a2 + 1, s.dol + 1),
                       !.dol = @ - (a2 + 1 - a1),
                       !.undkind = "change",
                       !.unddel = a1 - 1]
    ELSE [b EXCEPT !.core = SubSeq(@, 1, a1 - 1) \o SubSeq(@, a2 + 1, Len(@)),
                   !.dol = @ - (a2 + 1 - a1),
                   !.undap2 = @ - (a2 + 1 - a1)]

\* save(): copies of the lines go behind the text.
save(b, a1, a2) ==
    [b EXCEPT !.core = SubSeq(@, 1, b.dol) \o SubSeq(@, a1, a2),
              !.undkind = "all",
              !.unddel = a1 - 1,
              !.undap1 = a1,
              !.undap2 = a2 + 1]

\* move1() for a move.
MoveLines(b, a1, a2, adt) ==
    LET moved == [b EXCEPT !.core = IF adt < a1 THEN Exchange(@, adt + 1, a1, a2 + 1)
                                    ELSE Exchange(@, a1, a2 + 1, adt + 1)]
    IN  IF FIXUNDO
        THEN squish([moved EXCEPT !.undkind = "move", !.undap1 = a1, !.undap2 = a2,
                                  !.unddel = adt])
        ELSE moved

\* move1() for a copy: the lines are appended to the text and then moved.
CopyLines(b, a1, a2, adt) ==
    LET grown == append(b, b.dol, SubSeq(b.core, a1, a2))
        moved == [grown EXCEPT !.core = Exchange(@, adt + 1, b.dol + 1, grown.dol + 1)]
    IN  IF FIXUNDO
        THEN deletenone([moved EXCEPT !.undap1 = adt + 1, !.undap2 = adt + 1 + (a2 + 1 - a1)], a1)
        ELSE moved

\* undo() of a move: another move.
UndoMove(b) ==
    LET i == b.unddel - b.undap2
    IN  IF i > 0 THEN MoveLines(b, b.undap1 + i, b.unddel, b.undap1 - 1)
        ELSE MoveLines(b, b.unddel + 1, b.unddel + 1 + (b.undap2 - b.undap1), b.undap2)

\* Faulty: the place for the saved lines is not moved with the text.
TakeAwayOnly(b) ==
    LET i == b.undap2 - b.undap1
    IN  IF i <= 0 THEN b
        ELSE [b EXCEPT !.core = IF b.undap2 = b.dol + 1 THEN @
                                ELSE Exchange(@, b.undap1, b.undap2, b.dol + 1)]

\* undo() of the rest, first half: the new lines go behind the text.
TakeAway(b) ==
    LET i == b.undap2 - b.undap1
    IN  IF i <= 0 THEN b
        ELSE [b EXCEPT !.core = IF b.undap2 = b.dol + 1 THEN @
                                ELSE Exchange(@, b.undap1, b.undap2, b.dol + 1),
                       !.unddel = IF @ >= b.undap1 THEN @ - i ELSE @]

\* ... second half: the saved lines go back, and undo can be undone.
BringBack(b, newdol) ==
    LET jp == b.unddel + 1
        i == Len(b.core) - b.dol
        undap1 == IF i > 0 /\ b.undap1 >= jp THEN b.undap1 + i ELSE b.undap1
    IN  [b EXCEPT !.core = IF i > 0 /\ jp # b.dol + 1
                           THEN Exchange(@, jp, b.dol + 1, Len(@) + 1) ELSE @,
                  !.dol = newdol + i,
                  !.unddel = undap1 - 1,
                  !.undap1 = jp,
                  !.undap2 = jp + i,
                  !.undkind = IF @ = "all" THEN "all" ELSE "change"]

\* A put gives nothing back: its lines were taken from the saved ones.
UndoChange(b) ==
    LET t == TakeAway(b)
        i == b.undap2 - b.undap1
    IN  BringBack(IF b.undkind = "put" THEN squish([t EXCEPT !.unddel = b.undap1 - 1]) ELSE t,
                  IF i > 0 THEN b.dol - i ELSE b.dol)

\* Faulty: only new lines count as a change.
SomeNewLines ==
    CASE buf.undkind = "move" -> TRUE
      [] buf.undkind \in {"change", "put"} -> buf.undap1 # buf.undap2
      [] buf.undkind = "all" -> Text # Area
      [] buf.undkind = "none" -> FALSE

\* somechange(): undo refuses when nothing was changed.
SomeChange ==
    CASE buf.undkind = "move" -> TRUE
      [] buf.undkind = "change" -> buf.undap1 # buf.undap2 \/ buf.dol # Len(buf.core)
      [] buf.undkind = "put" -> buf.undap1 # buf.undap2
      [] buf.undkind = "all" -> Text # Area
      [] buf.undkind = "none" -> FALSE

-----------------------------------------------------------------------------
\* A command does what `b' says; undo shall bring back the text before it, and
\* the text before a global command for the commands in it.
Does(b) == /\ buf' = b
           /\ b.dol <= MaxLines
           /\ before' = IF FIXUNDO THEN {Text} ELSE before
           /\ UNCHANGED inglobal

\* append, read and a put from a named buffer; insert.
AppendLines(a1, a2, lines) == Does(append(deletenone(buf, a1), a2, lines))
Insert(a1, a2, lines) == a1 > 0 /\ Does(append(deletenone(buf, a1), a2 - 1, lines))

Delete(a1, a2) == a1 > 0 /\ Does(appendnone(ex_delete(buf, a1, a2), a1))

\* change, join and the filter `!'.
Change(a1, a2, lines) == a1 > 0 /\ Does(append(ex_delete(buf, a1, a2), a1 - 1, lines))

\* substitute() and shift(): each line becomes one or more lines.
Substitute(a1, a2, lines) ==
    LET saved == IF FIXUNDO THEN [save(buf, a1, a2) EXCEPT !.undkind = "change"] ELSE buf
        more == Len(lines) - (a2 + 1 - a1)
    IN  /\ a1 > 0
        /\ more >= 0
        /\ Does([saved EXCEPT !.core = SubSeq(@, 1, a1 - 1) \o lines \o SubSeq(@, a2 + 1, Len(@)),
                              !.dol = @ + more,
                              !.undap2 = @ + more])

Move(a1, a2, adt) == /\ a1 > 0
                     /\ adt \notin a1..a2
                     /\ FIXUNDO => adt + 1 # a1
                     /\ Does(MoveLines(buf, a1, a2, adt))

Copy(a1, a2, adt) == a1 > 0 /\ Does(CopyLines(buf, a1, a2, adt))

put(a2) == /\ FIXUNDO
           /\ Does([append(buf, a2, Area) EXCEPT !.undkind = "put"])

yank(a1, a2) == /\ FIXUNDO
                /\ a1 > 0
                /\ buf' = [save(buf, a1, a2) EXCEPT !.undkind = "none"]
                /\ before' = {}
                /\ UNCHANGED inglobal

GlobalBegins == /\ ~inglobal
                /\ buf.dol > 0
                /\ buf' = save(buf, 1, buf.dol)
                /\ before' = {Text}
                /\ inglobal' = TRUE

GlobalEnds == inglobal /\ inglobal' = FALSE /\ UNCHANGED <<buf, before>>

Undo == /\ ~inglobal
        /\ SomeChange
        /\ Does(IF buf.undkind = "move" THEN UndoMove(buf) ELSE UndoChange(buf))

\* What a command may be given: addresses, and lines from outside.
Input == UNION { [1..n -> Line] : n \in 0..MaxNew }

Next == \/ \E a1, a2, adt \in 0..buf.dol :
             /\ a1 <= a2
             /\ \/ Delete(a1, a2) \/ yank(a1, a2) \/ put(a2)
                \/ Move(a1, a2, adt) \/ Copy(a1, a2, adt)
                \/ \E lines \in Input : \/ AppendLines(a1, a2, lines) \/ Insert(a1, a2, lines)
                                        \/ Change(a1, a2, lines) \/ Substitute(a1, a2, lines)
        \/ GlobalBegins \/ GlobalEnds \/ Undo

Spec == Init /\ [][Next]_vars

-----------------------------------------------------------------------------
\* Undo brings back the text before the last command and is its own inverse, a
\* global command is undone as a whole, and put brings what delete or yank took
\* (ex.h:319-331, ex_cmdsub.c:926).
Buffer == INSTANCE ExBuffer WITH text <- Text, area <- Area, unit <- inglobal
ImplementsBuffer == Buffer!Spec

\* When the last command changed the text, undo does not refuse (ex_cmdsub.c:1050).
UndoIsOffered == FIXUNDO => \A t \in before : t # Text => SomeChange
=============================================================================
