------------------------------ MODULE PcTextFile ------------------------------
(***************************************************************************)
(* A Pascal file open for reading, as the user's manual defines it in      *)
(* section 4 (PSD:7-26 to 7-28): a sequence of components of which `rest'  *)
(* is still to be read.  In a text file every line, the last one too, ends *)
(* in a mark that reads as a blank.  An integer is read behind blanks; if  *)
(* there is nothing but blanks the answer is zero, at the end of the file. *)
(***************************************************************************)
EXTENDS Integers, Sequences

CONSTANTS Char,     \* the components of files, "eoln" apart
          Blanks    \* what a number is searched behind

VARIABLES
    all,        \* the components of the file
    rest,       \* those that are still to be read
    mark,       \* what was still to be read when the program last asked for it
    skipping,   \* a readln is under way
    answer,     \* the last value the program was given
    error       \* why the program has stopped: "", "past end" or "bad data"

vars == <<all, rest, mark, skipping, answer, error>>

Shown(c) == IF c = "eoln" THEN " " ELSE c

Drop(n) == rest' = SubSeq(rest, n + 1, Len(rest))

Init == /\ all \in Seq(Char \cup {"eoln"})
        /\ rest = all
        /\ mark = all
        /\ skipping = FALSE
        /\ answer = <<>>
        /\ error = ""

Reset == rest' = all /\ UNCHANGED <<all, mark, skipping, answer, error>>

Eof == /\ answer' = <<IF rest = <<>> THEN "true" ELSE "false">>
       /\ UNCHANGED <<all, rest, mark, skipping, error>>

Eoln == /\ rest # <<>>
        /\ answer' = <<IF rest[1] = "eoln" THEN "true" ELSE "false">>
        /\ UNCHANGED <<all, rest, mark, skipping, error>>

\* f^, which behind the last component may be anything.
Look == /\ \E c \in Char : answer' = <<c>> /\ (rest # <<>> => c = Shown(rest[1]))
        /\ UNCHANGED <<all, rest, mark, skipping, error>>

Get == rest # <<>> /\ Drop(1) /\ UNCHANGED <<all, mark, skipping, answer, error>>

Read == /\ rest # <<>>
        /\ Drop(1)
        /\ answer' = <<Shown(rest[1])>>
        /\ UNCHANGED <<all, mark, skipping, error>>

\* while not eoln do get; get
Readln == skipping' = TRUE /\ UNCHANGED <<all, rest, mark, answer, error>>

Skip == /\ rest # <<>>
        /\ Drop(1)
        /\ skipping' = (rest[1] # "eoln")
        /\ UNCHANGED <<all, mark, answer, error>>

\* Behind b blanks and ends of lines, the longest run of digits ends at d.
Number(b, d) == /\ b < d
                /\ \A i \in 1..b : rest[i] \in Blanks
                /\ \A i \in b + 1..d : rest[i] = "1"
                /\ d < Len(rest) => rest[d + 1] # "1"

ReadInt == \E b, d \in 0..Len(rest) :
    /\ Number(b, d)
    /\ Drop(d)
    /\ answer' = SubSeq(rest, b + 1, d)
    /\ UNCHANGED <<all, mark, skipping, error>>

\* "If there are only blanks left in the file, it will return a zero value and
\* set the end-of-file condition" (PSD:7-27).
ReadBlanks == /\ rest # <<>>
              /\ \A i \in 1..Len(rest) : rest[i] \in Blanks
              /\ rest' = <<>>
              /\ answer' = <<"0">>
              /\ UNCHANGED <<all, mark, skipping, error>>

Tell == mark' = rest /\ UNCHANGED <<all, rest, skipping, answer, error>>
Seek == rest' = mark /\ UNCHANGED <<all, mark, skipping, answer, error>>

\* Reading where nothing is left.
PastEnd == rest = <<>> /\ error' = "past end"

\* A number is asked for where something else is next.
BadData == /\ ~skipping
           /\ \E i \in 1..Len(rest) : /\ rest[i] \notin Blanks \cup {"1"}
                                     /\ \A j \in 1..i - 1 : rest[j] \in Blanks
           /\ error' = "bad data"

Fail == /\ PastEnd \/ BadData
        /\ skipping' = FALSE
        /\ UNCHANGED <<all, rest, mark, answer>>

Next == /\ error = ""
        /\ \/ ~skipping /\ \/ Reset \/ Eof \/ Eoln \/ Look \/ Get \/ Read
                           \/ Readln \/ ReadInt \/ ReadBlanks \/ Tell \/ Seek
           \/ skipping /\ Skip
           \/ Fail

Spec == Init /\ [][Next]_vars
=============================================================================
