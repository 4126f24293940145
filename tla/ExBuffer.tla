------------------------------ MODULE ExBuffer ------------------------------
(***************************************************************************)
(* What ex promises of its buffer and of undo: undo brings back the text   *)
(* from before the last command and is its own inverse, a global command   *)
(* is one command, and put brings the lines the last command took away.    *)
(***************************************************************************)
EXTENDS Naturals, Sequences

CONSTANT Line       \* the texts a line may have

VARIABLES
    text,       \* the lines of the buffer
    before,     \* the text undo brings back, if there is one
    area,       \* the lines put brings
    unit        \* in a global command

vars == <<text, before, area, unit>>

Init == text = <<>> /\ before = {} /\ area = <<>> /\ unit = FALSE

Lines(a, b) == SubSeq(text, a, b)
Upto(a) == SubSeq(text, 1, a)
From(b) == SubSeq(text, b, Len(text))

\* The commands of a global command have one text before them.
Command(lines) == /\ IF unit THEN UNCHANGED <<before, area>>
                     ELSE before' = {text} /\ area' = lines
                  /\ UNCHANGED unit

\* Lines a to b, or none after line a - 1, give place to some lines.
Replace(a, b) == /\ text' \in Seq(Line)
                 /\ \E n \in 0..Len(text') - (a - 1) :
                      text' = Upto(a - 1) \o SubSeq(text', a, a - 1 + n) \o From(b + 1)
                 /\ Command(Lines(a, b))

Copy(a, b, c) == /\ text' = Upto(c) \o Lines(a, b) \o From(c + 1)
                 /\ Command(<<>>)

Move(a, b, c) == /\ c \notin a..b
                 /\ text' = IF c < a
                            THEN Upto(c) \o Lines(a, b) \o Lines(c + 1, a - 1) \o From(b + 1)
                            ELSE Upto(a - 1) \o Lines(b + 1, c) \o Lines(a, b) \o From(c + 1)
                 /\ Command(<<>>)

Put(a) == /\ ~unit
          /\ text' = Upto(a) \o area \o From(a + 1)
          /\ before' = {text}
          /\ UNCHANGED <<area, unit>>

Yank(a, b) == /\ ~unit
              /\ area' = Lines(a, b)
              /\ before' = {}
              /\ UNCHANGED <<text, unit>>

GlobalBegins == /\ ~unit
                /\ unit' = TRUE
                /\ before' = {text} /\ area' = text
                /\ UNCHANGED text

GlobalEnds == unit /\ unit' = FALSE /\ UNCHANGED <<text, before, area>>

\* What put brings after an undo is left open.
Undo == /\ ~unit
        /\ text' \in before
        /\ before' = {text}
        /\ area' \in Seq(Line)
        /\ UNCHANGED unit

Next == \/ \E a \in 1..Len(text) + 1 : \E b \in a - 1..Len(text) : Replace(a, b)
        \/ \E a \in 1..Len(text), c \in 0..Len(text) :
             \E b \in a..Len(text) : Copy(a, b, c) \/ Move(a, b, c) \/ Yank(a, b)
        \/ \E a \in 0..Len(text) : Put(a)
        \/ GlobalBegins \/ GlobalEnds \/ Undo

Spec == Init /\ [][Next]_vars
=============================================================================
