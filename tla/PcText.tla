-------------------------------- MODULE PcText --------------------------------
(***************************************************************************)
(* Reading from a file in libpc.  The file window is filled as late as     *)
(* possible, so that a program can prompt before it waits for an answer:   *)
(* SYNC tells that the component in the window has been used up and the    *)
(* next one is still to be taken from the stream.  IOSYNC takes it when    *)
(* the program asks.  A newline is shown as a blank with EOLN set, and a   *)
(* last line without one gets a pseudo end of line, SPEOLN.                *)
(*                                                                         *)
(* The file is active and open for reading (module PcFiles has the rest);  *)
(* numbers stand for themselves digit by digit and do not overflow.        *)
(***************************************************************************)
EXTENDS Integers, Sequences

CONSTANTS
    Char,           \* the characters of a stream
    MaxLen,         \* bound on the length of a stream
    TellAnywhere,   \* FALSE: TELL and SEEK only where a character is to be read
    ResetAnywhere   \* FALSE: no reset of the standard input at a pseudo EOLN

\* A blank, a newline, the digits of a number, and some other character; "0" is
\* what IOSYNC puts in the window of a file that is no text at its end, "eoln"
\* the end of a line as the program sees it (Lines below).
ASSUME CharAssumption == /\ {" ", "nl", "1"} \subseteq Char /\ "eoln" \notin Char
                         /\ MaxLen \in Nat
                         /\ TellAnywhere \in BOOLEAN /\ ResetAnywhere \in BOOLEAN

VARIABLES
    text,       \* the stream
    std,        \* the file is INPUT, which RESET rewinds instead of reopening
    ftext,      \* FTEXT: a text file, with lines
    iorec,      \* the file record
    loc,        \* the location that TELL gave last
    mode,       \* "run", in the loop of "readln", or the error that ended it
    answer      \* the value the last call has returned

file == <<text, std, ftext>>
vars == <<text, std, ftext, iorec, loc, mode, answer>>

Window == Char \cup {"0"}

\* struct iorec: the number of characters taken from fbuf, the window, and the
\* flags of funit.
Iorec == [pos : 0..MaxLen, win : Window, sync : BOOLEAN, eoln : BOOLEAN,
          eoff : BOOLEAN, speoln : BOOLEAN]

Init == /\ text \in UNION { [1..n -> Char] : n \in 0..MaxLen }
        /\ std \in BOOLEAN
        /\ ftext \in BOOLEAN
        /\ std => ftext
        /\ iorec = [pos |-> 0, win |-> "0", sync |-> TRUE, eoln |-> ftext,
                    eoff |-> FALSE, speoln |-> FALSE]
        /\ loc = 0
        /\ mode = "run"
        /\ answer = <<>>
-----------------------------------------------------------------------------
\* IOSYNC behind the last line of a text.
PastPseudoEoln(r) == [r EXCEPT !.sync = FALSE, !.speoln = FALSE, !.eoln = FALSE,
                               !.eoff = TRUE]

\* No pseudo end of line (broken on purpose; used by no action).
AtEndNoLine(r) == [r EXCEPT !.sync = FALSE, !.win = " ", !.eoff = r.eoln]

\* IOSYNC when fread meets the end of the file.
AtEnd(r) == CASE ~ftext -> [r EXCEPT !.sync = FALSE, !.win = "0", !.eoff = TRUE]
              [] ftext /\ r.eoln -> [r EXCEPT !.sync = FALSE, !.win = " ",
                                              !.eoln = FALSE, !.eoff = TRUE]
              [] ftext /\ ~r.eoln -> [r EXCEPT !.sync = FALSE, !.win = " ",
                                               !.eoln = TRUE, !.speoln = TRUE]

\* IOSYNC when fread finds a character.
TakeChar(r) == LET c == text[r.pos + 1]
                   newline == ftext /\ c = "nl"
               IN [r EXCEPT !.sync = FALSE, !.pos = @ + 1, !.eoln = newline,
                            !.win = IF newline THEN " " ELSE c]

IOSYNC(r) == CASE ~r.sync -> r
               [] r.sync /\ r.speoln -> PastPseudoEoln(r)
               [] r.sync /\ ~r.speoln /\ r.pos = Len(text) -> AtEnd(r)
               [] r.sync /\ ~r.speoln /\ r.pos < Len(text) -> TakeChar(r)

\* "Tried to read past end of file", in IOSYNC.
PastEnd(r) == r.sync /\ r.eoff

Fails(why) == mode' = why /\ UNCHANGED <<file, iorec, loc, answer>>

Bool(b) == <<IF b THEN "true" ELSE "false">>
-----------------------------------------------------------------------------
TEOF == LET r == IF iorec.eoff THEN iorec ELSE IOSYNC(iorec)
        IN /\ mode = "run"
           /\ iorec' = r
           /\ answer' = Bool(r.eoff)
           /\ UNCHANGED <<file, loc, mode>>

TEOLN == /\ mode = "run" /\ ftext
         /\ \/ /\ ~PastEnd(iorec) /\ ~IOSYNC(iorec).eoff
               /\ iorec' = IOSYNC(iorec)
               /\ answer' = Bool(iorec'.eoln)
               /\ UNCHANGED <<file, loc, mode>>
            \/ (PastEnd(iorec) \/ IOSYNC(iorec).eoff) /\ Fails("past end")

\* f^
FNIL == /\ mode = "run"
        /\ \/ /\ ~PastEnd(iorec)
              /\ iorec' = IOSYNC(iorec)
              /\ answer' = <<iorec'.win>>
              /\ UNCHANGED <<file, loc, mode>>
           \/ PastEnd(iorec) /\ Fails("past end")

\* A GET that fills the window at once, as in standard Pascal (broken on purpose).
GETNow == LET r == IOSYNC(iorec) IN
          /\ mode = "run" /\ ~PastEnd(iorec) /\ ~r.eoff
          /\ iorec' = IOSYNC([r EXCEPT !.sync = TRUE])
          /\ UNCHANGED <<file, loc, mode, answer>>

GET == /\ mode = "run"
       /\ \/ /\ ~PastEnd(iorec) /\ ~IOSYNC(iorec).eoff
             /\ iorec' = [IOSYNC(iorec) EXCEPT !.sync = TRUE]
             /\ UNCHANGED <<file, loc, mode, answer>>
          \/ (PastEnd(iorec) \/ IOSYNC(iorec).eoff) /\ Fails("past end")

READC == /\ mode = "run" /\ ftext
         /\ \/ /\ ~PastEnd(iorec) /\ ~IOSYNC(iorec).eoff
               /\ iorec' = [IOSYNC(iorec) EXCEPT !.sync = TRUE]
               /\ answer' = <<iorec'.win>>
               /\ UNCHANGED <<file, loc, mode>>
            \/ (PastEnd(iorec) \/ IOSYNC(iorec).eoff) /\ Fails("past end")

READLN == /\ mode = "run" /\ ftext
          /\ mode' = "readln"
          /\ UNCHANGED <<file, iorec, loc, answer>>

\* One iteration of the loop of READLN.
ReadlnLoop ==
    /\ mode = "readln"
    /\ \/ /\ ~PastEnd(iorec)
          /\ iorec' = [IOSYNC(iorec) EXCEPT !.sync = TRUE]
          /\ mode' = IF iorec'.eoln THEN "run" ELSE "readln"
          /\ UNCHANGED <<file, loc, answer>>
       \/ PastEnd(iorec) /\ Fails("past end")
-----------------------------------------------------------------------------
\* The window is not pushed back (broken on purpose).
UnsyncedDrops == SubSeq(text, iorec.pos + 1, Len(text))

\* UNSYNC: what fscanf finds on the stream, a window not used up pushed back.
Unsynced == (IF iorec.sync THEN <<>> ELSE <<iorec.win>>)
            \o SubSeq(text, iorec.pos + 1, Len(text))

\* The length of the longest run of characters in C behind the first n of s.
Run(s, n, C) == CHOOSE k \in 0..Len(s) - n :
                   /\ \A i \in n + 1..n + k : s[i] \in C
                   /\ n + k < Len(s) => s[n + k + 1] \notin C

\* UNSYNC and fscanf "%ld".  Nothing but blanks, or no digit, is an error.
READ4 ==
    LET s == Unsynced
        blanks == Run(s, 0, {" ", "nl"})
        digits == Run(s, blanks, {"1"})
    IN /\ mode = "run" /\ ftext
       /\ \/ /\ ~iorec.eoff /\ digits > 0
             /\ iorec' = [iorec EXCEPT !.sync = TRUE, !.eoln = FALSE,
                              !.pos = Len(text) - (Len(s) - blanks - digits)]
             /\ answer' = SubSeq(s, blanks + 1, blanks + digits)
             /\ UNCHANGED <<file, loc, mode>>
          \/ (iorec.eoff \/ blanks = Len(s)) /\ Fails("past end")
          \/ /\ ~iorec.eoff /\ digits = 0 /\ blanks < Len(s)
             /\ Fails("bad data")
-----------------------------------------------------------------------------
\* The end-of-file flag is left alone (broken on purpose).
RESETKeepsEoff == /\ mode = "run"
                  /\ ~(std /\ iorec.speoln)
                  /\ iorec' = [iorec EXCEPT !.pos = 0, !.sync = TRUE, !.eoln = ftext]
                  /\ UNCHANGED <<file, loc, mode, answer>>

\* RESET, the file being active and readable.
RESET == /\ mode = "run"
         /\ ResetAnywhere \/ ~(std /\ iorec.speoln)
         /\ iorec' = [iorec EXCEPT !.pos = 0, !.sync = TRUE, !.eoln = ftext,
                                   !.eoff = FALSE, !.speoln = std /\ @]
         /\ UNCHANGED <<file, loc, mode, answer>>

\* A TELL that forgets the window (broken on purpose).
TELLBehindWindow == /\ mode = "run" /\ ftext
                    /\ loc' = iorec.pos
                    /\ UNCHANGED <<file, iorec, mode, answer>>

\* TELL steps back behind a window that is not used up.
TELL == LET back == ~iorec.sync /\ iorec.pos > 0
        IN /\ mode = "run" /\ ftext
           /\ TellAnywhere \/ IF iorec.sync THEN iorec.pos < Len(text)
                              ELSE ~iorec.eoff /\ ~iorec.speoln
           /\ iorec' = [iorec EXCEPT !.pos = IF back THEN @ - 1 ELSE @, !.sync = TRUE]
           /\ loc' = iorec'.pos
           /\ UNCHANGED <<file, mode, answer>>

SEEK == /\ mode = "run" /\ ftext
        /\ TellAnywhere \/ loc < Len(text)
        /\ iorec' = [iorec EXCEPT !.pos = loc, !.sync = TRUE, !.eoff = FALSE,
                                  !.eoln = FALSE, !.speoln = FALSE]
        /\ UNCHANGED <<file, loc, mode, answer>>

Next == TEOF \/ TEOLN \/ FNIL \/ GET \/ READC \/ READLN \/ ReadlnLoop
        \/ READ4 \/ RESET \/ TELL \/ SEEK

\* The library does not stop inside READLN.
Spec == Init /\ [][Next]_vars /\ WF_vars(ReadlnLoop)
-----------------------------------------------------------------------------
(* What is still to be read, according to the stream and the file record.   *)

Lines(s) == [i \in 1..Len(s) |-> IF ftext /\ s[i] = "nl" THEN "eoln" ELSE s[i]]
            \o IF ftext /\ s # <<>> /\ s[Len(s)] # "nl" THEN <<"eoln">> ELSE <<>>

\* What is left when the first n characters are used up.
From(n) == Lines(SubSeq(text, n + 1, Len(text)))

Rest == CASE iorec.eoff -> <<>>
          [] iorec.speoln /\ ~iorec.eoff -> IF iorec.sync THEN <<>> ELSE <<"eoln">>
          [] ~iorec.eoff /\ ~iorec.speoln ->
               IF ~iorec.sync THEN From(iorec.pos - 1)
               ELSE IF iorec.pos = Len(text) /\ ftext /\ ~iorec.eoln THEN <<"eoln">>
               ELSE From(iorec.pos)

TypeOK == /\ text \in Seq(Char) /\ Len(text) <= MaxLen
          /\ std \in BOOLEAN /\ ftext \in BOOLEAN
          /\ iorec \in Iorec
          /\ iorec.pos <= Len(text)
          /\ loc \in 0..Len(text)
          /\ mode \in {"run", "readln", "past end", "bad data"}
          /\ answer \in Seq(Window \cup {"true", "false"})

\* EOFF and SPEOLN are set only at the end of the stream (libpc.h:129 "pseudo
\* EOLN char read at EOF"): no reset, seek or read leaves them behind.
FlagsAtEof == iorec.eoff \/ iorec.speoln => iorec.pos = Len(text)

\* A component is used up without a look at the next one: after get, read or
\* readln nothing more was taken from the stream, and a program can prompt.
NoReadAhead == [][Rest' # Rest => iorec'.sync]_vars

\* READLN ends, on every file.
ReadlnEnds == mode = "readln" ~> mode # "readln"

\* TELL gives the place at which reading goes on ("Find current location",
\* TELL.c:41): a SEEK to it will find what is to be read now.
TellsCurrentLocation == [][loc' # loc => From(loc') = Rest]_vars

=============================================================================
