---------------------------- MODULE PcTextRefine ----------------------------
(***************************************************************************)
(* The lazy window of libpc implements the files of Pascal, but for one    *)
(* case: an integer read that finds nothing but blanks.                    *)
(***************************************************************************)
EXTENDS PcText

Lazy == INSTANCE PcTextFile
    WITH Char <- Window, Blanks <- {" ", "eoln"},
         all <- From(0), rest <- Rest, mark <- From(loc),
         skipping <- mode = "readln",
         error <- IF mode \in {"past end", "bad data"} THEN mode ELSE ""

OnlyBlanks == Rest # <<>> /\ \A i \in 1..Len(Rest) : Rest[i] \in {" ", "eoln"}

\* The case in which libpc is not the file of the manual: where only blanks are
\* left, READ4 stops the program instead of giving zero (READ4.c:55).
BlanksPastEnd == OnlyBlanks /\ READ4 /\ mode' = "past end"

\* Whatever mixture of eof, eoln, f^, get, read, integer reads, readln, reset, TELL
\* and SEEK a program makes, it gets the components of the file, each once, in
\* order, until it ends or meets an error of the file or that one of READ4.
ImplementsTextFile == Lazy!Init /\ [][Lazy!Next \/ BlanksPastEnd]_(Lazy!vars)
=============================================================================
