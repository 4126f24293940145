----------------------------- MODULE PcTextProofs -----------------------------
(***************************************************************************)
(* Proofs about PcText, for every alphabet and streams of every length.    *)
(* Away from the two edges that the constants keep out, the flags tell the *)
(* truth about the place in the stream, nothing is read ahead, and a       *)
(* program gets the components of the file, each once and in order.        *)
(***************************************************************************)
EXTENDS PcTextRefine, SequenceTheorems, WellFoundedInduction, TLAPS

\* Every nonempty set of naturals has a smallest element.
LEMMA Smallest ==
    ASSUME NEW S \in SUBSET Nat, S # {}
    PROVE  \E x \in S : \A y \in S : x <= y
  <1> DEFINE less == { ss \in Nat \X Nat : ss[1] < ss[2] }
  <1>1. IsWellFoundedOn(less, Nat)
    BY NatLessThanWellFounded DEF OpToRel
  <1>2. \E x \in S : \A y \in S : ~(<<y, x>> \in less)
    <2> HIDE DEF less
    <2> QED BY <1>1, WFMin
  <1>3. PICK x \in S : \A y \in S : ~(<<y, x>> \in less)
    BY <1>2
  <1>4. ASSUME NEW y \in S
        PROVE  x <= y
    <2>1. x \in Nat /\ y \in Nat /\ ~(<<y, x>> \in less)
      BY <1>3
    <2>2. ~(y < x)
      BY <2>1
    <2> QED
      BY <2>1, <2>2
  <1> QED
    BY <1>4

\* A full window shows a character of the stream, the blank of the pseudo end
\* of line, or nothing at the end of the file.
WindowOf(r) == /\ r \in Iorec
               /\ r.pos <= Len(text)
               /\ r.eoff \/ r.speoln => r.pos = Len(text)
               /\ ~r.sync /\ r.speoln => r.win = " "
               /\ ~r.sync /\ ~r.eoff /\ ~r.speoln => r.pos > 0

TextInv == /\ text \in Seq(Char) /\ Len(text) <= MaxLen
           /\ std \in BOOLEAN /\ ftext \in BOOLEAN
           /\ WindowOf(iorec)
           /\ loc \in 0..Len(text)
           /\ mode \in {"run", "readln", "past end", "bad data"}
           /\ answer \in Seq(Window \cup {"true", "false"})

-----------------------------------------------------------------------------
\* The assumption, piece by piece.
LEMMA MaxLenNat == MaxLen \in Nat
  BY CharAssumption, Zenon

LEMMA SomeWindows == " " \in Window /\ "0" \in Window
  BY CharAssumption, Zenon DEF Window

\* The run of characters of C exists: it has a length, and ends where it should.
LEMMA RunIsLongest ==
    ASSUME NEW s \in Seq(Window), NEW n \in 0..Len(s), NEW C
    PROVE  /\ Run(s, n, C) \in 0..Len(s) - n
           /\ \A i \in n + 1..n + Run(s, n, C) : s[i] \in C
           /\ n + Run(s, n, C) < Len(s) => s[n + Run(s, n, C) + 1] \notin C
  <1> DEFINE ends == { k \in 0..Len(s) - n : n + k < Len(s) => s[n + k + 1] \notin C }
  <1>1. ends \in SUBSET Nat /\ Len(s) - n \in ends
    OBVIOUS
  <1>2. PICK m \in ends : \A k \in ends : m <= k
    BY <1>1, Smallest
  <1>3. \A i \in n + 1..n + m : s[i] \in C
    <2>1. SUFFICES ASSUME NEW i \in n + 1..n + m, s[i] \notin C PROVE FALSE
      OBVIOUS
    <2>2. m \in Nat /\ n \in Nat /\ Len(s) \in Nat /\ m <= Len(s) - n
      OBVIOUS
    <2>3. i - n - 1 \in 0..Len(s) - n /\ n + (i - n - 1) + 1 = i
      BY <2>1, <2>2
    <2>4. i - n - 1 \in ends
      BY <2>1, <2>3
    <2>5. m <= i - n - 1
      BY <1>2, <2>4
    <2> QED
      BY <2>1, <2>2, <2>5
  <1> QED
    BY <1>2, <1>3 DEF Run

-----------------------------------------------------------------------------
\* The facts about types that the arithmetic of the steps needs.
LEMMA Typing ==
    ASSUME TextInv
    PROVE  /\ iorec.pos \in Nat /\ Len(text) \in Nat /\ MaxLen \in Nat
           /\ iorec.pos <= Len(text) /\ Len(text) <= MaxLen
           /\ iorec.win \in Window
           /\ iorec.sync \in BOOLEAN /\ iorec.eoln \in BOOLEAN
           /\ iorec.eoff \in BOOLEAN /\ iorec.speoln \in BOOLEAN
           /\ iorec \in Iorec /\ ftext \in BOOLEAN
           /\ iorec.eoff \/ iorec.speoln => iorec.pos = Len(text)
           /\ loc \in Nat /\ loc <= Len(text)
           /\ loc \in 0..MaxLen
  <1>1. text \in Seq(Char)
    BY DEF TextInv
  <1>2. Len(text) \in Nat
    BY <1>1
  <1>3. Len(text) <= MaxLen /\ iorec \in Iorec /\ iorec.pos <= Len(text)
    BY DEF TextInv, WindowOf
  <1>4. iorec.pos \in Nat /\ iorec.win \in Window
    BY <1>3, MaxLenNat DEF Iorec
  <1>5. iorec.sync \in BOOLEAN /\ iorec.eoln \in BOOLEAN
    BY <1>3 DEF Iorec
  <1>6. iorec.eoff \in BOOLEAN /\ iorec.speoln \in BOOLEAN
    BY <1>3 DEF Iorec
  <1>7. ftext \in BOOLEAN /\ loc \in 0..Len(text)
        /\ (iorec.eoff \/ iorec.speoln => iorec.pos = Len(text))
    BY Zenon DEF TextInv, WindowOf
  <1>8. loc \in Nat /\ loc <= Len(text) /\ loc \in 0..MaxLen
    BY <1>2, <1>3, <1>7, MaxLenNat
  <1> QED
    BY <1>2, <1>3, <1>4, <1>5, <1>6, <1>7, <1>8, MaxLenNat

\* A character of the stream is taken into the window.
LEMMA TakeWindow ==
    ASSUME TextInv, iorec.pos < Len(text), ~iorec.eoff, ~iorec.speoln
    PROVE  WindowOf(TakeChar(iorec)) /\ ~TakeChar(iorec).sync
  <1> DEFINE c == text[iorec.pos + 1]
             newline == ftext /\ c = "nl"
             w == IF newline THEN " " ELSE c
             p == iorec.pos + 1
  <1>1. p \in 0..MaxLen /\ p <= Len(text) /\ p > 0
    BY Typing
  <1>2. c \in Char
    <2>1. iorec.pos + 1 \in 1..Len(text)
      BY Typing
    <2>2. text \in Seq(Char)
      BY DEF TextInv
    <2> QED
      BY <2>1, <2>2
  <1>3. w \in Window /\ newline \in BOOLEAN
    BY <1>2, CharAssumption DEF Window, TextInv
  <1>4. TakeChar(iorec) = [pos |-> p, win |-> w, sync |-> FALSE, eoln |-> newline,
                           eoff |-> FALSE, speoln |-> FALSE]
    <2> HIDE DEF w, newline, p
    <2>1. iorec \in Iorec
      BY DEF TextInv, WindowOf
    <2>2. iorec.eoff = FALSE /\ iorec.speoln = FALSE
      BY Typing
    <2>3. TakeChar(iorec) = [iorec EXCEPT !.sync = FALSE, !.pos = p, !.eoln = newline,
                                          !.win = w]
      BY DEF TakeChar, p, w, newline
    <2> QED
      BY <2>1, <2>2, <2>3 DEF Iorec
  <1>5. WindowOf([pos |-> p, win |-> w, sync |-> FALSE, eoln |-> newline,
                  eoff |-> FALSE, speoln |-> FALSE])
    <2> HIDE DEF w, newline, p
    <2>1. [pos |-> p, win |-> w, sync |-> FALSE, eoln |-> newline,
           eoff |-> FALSE, speoln |-> FALSE] \in Iorec
      BY <1>1, <1>3 DEF Iorec
    <2> QED
      BY <1>1, <2>1 DEF WindowOf
  <1> HIDE DEF w, newline, p
  <1> QED
    BY <1>4, <1>5

\* IOSYNC keeps the window and the flags in agreement, unless it is an error.
LEMMA SyncWindow ==
    ASSUME TextInv, ~PastEnd(iorec)
    PROVE  WindowOf(IOSYNC(iorec)) /\ ~IOSYNC(iorec).sync
  <1>1. CASE ~iorec.sync
    BY <1>1 DEF TextInv, WindowOf, IOSYNC, Iorec
  <1>2. CASE iorec.sync /\ iorec.speoln
    BY <1>2 DEF TextInv, WindowOf, IOSYNC, PastPseudoEoln, Iorec
  <1>3. CASE iorec.sync /\ ~iorec.speoln /\ iorec.pos = Len(text)
    <2>1. IOSYNC(iorec) = AtEnd(iorec)
      BY <1>3 DEF IOSYNC
    <2>2. AtEnd(iorec) \in Iorec
      BY CharAssumption DEF TextInv, WindowOf, AtEnd, Iorec, Window
    <2>3. AtEnd(iorec).pos = iorec.pos /\ ~AtEnd(iorec).sync
      BY <1>3 DEF TextInv, WindowOf, AtEnd, Iorec
    <2>4. AtEnd(iorec).speoln => AtEnd(iorec).win = " "
      BY <1>3 DEF TextInv, WindowOf, AtEnd, Iorec
    <2>5. AtEnd(iorec).eoff \/ AtEnd(iorec).speoln
      BY <1>3 DEF TextInv, WindowOf, AtEnd, Iorec
    <2> QED
      BY <1>3, <2>1, <2>2, <2>3, <2>4, <2>5, Typing DEF WindowOf
  <1>4. CASE iorec.sync /\ ~iorec.speoln /\ iorec.pos < Len(text)
    <2>1. IOSYNC(iorec) = TakeChar(iorec)
      <3>1. iorec.pos # Len(text)
        BY <1>4, Typing
      <3> QED
        BY <1>4, <3>1 DEF IOSYNC
    <2>2. ~iorec.eoff
      BY <1>4 DEF PastEnd
    <2> QED
      BY <1>4, <2>1, <2>2, TakeWindow
  <1> QED
    <2>1. iorec.pos = Len(text) \/ iorec.pos < Len(text)
      BY Typing
    <2> QED
      BY <2>1, <1>1, <1>2, <1>3, <1>4

\* Taking the window out of the way leaves them in agreement, too.
LEMMA UsedUp ==
    ASSUME NEW r, WindowOf(r), NEW q, q = [r EXCEPT !.sync = TRUE]
    PROVE  WindowOf(q) /\ q.sync
  BY DEF WindowOf, Iorec

-----------------------------------------------------------------------------
(* Initially and after every step the window and the flags agree.          *)

LEMMA InitInv == Init => TextInv
  <1> SUFFICES ASSUME Init PROVE TextInv
    OBVIOUS
  <1>1. PICK n \in 0..MaxLen : text \in [1..n -> Char]
    BY DEF Init
  <1>2. n \in Nat /\ n <= MaxLen
    BY <1>1, MaxLenNat
  <1>3. text \in Seq(Char) /\ Len(text) = n
    BY <1>1, <1>2
  <1>4. WindowOf(iorec)
    <2>1. iorec = [pos |-> 0, win |-> "0", sync |-> TRUE, eoln |-> ftext,
                   eoff |-> FALSE, speoln |-> FALSE] /\ ftext \in BOOLEAN
      BY DEF Init
    <2> DEFINE w == "0"
    <2>w. w \in Window
      BY SomeWindows
    <2>0. 0 \in 0..MaxLen
      BY MaxLenNat
    <2>2. iorec \in Iorec
      <3>1. iorec = [pos |-> 0, win |-> w, sync |-> TRUE, eoln |-> ftext,
                     eoff |-> FALSE, speoln |-> FALSE]
        BY <2>1
      <3> HIDE DEF w
      <3> QED
        BY <2>0, <2>1, <2>w, <3>1 DEF Iorec
    <2> QED
      BY <2>1, <2>2, <1>2, <1>3 DEF WindowOf
  <1> QED
    BY <1>2, <1>3, <1>4 DEF Init, TextInv

\* What most steps have to show: the new record and the new answer.
LEMMA NewRecord ==
    ASSUME TextInv, UNCHANGED file, WindowOf(iorec'), loc' = loc,
           mode' \in {"run", "readln", "past end", "bad data"},
           answer' \in Seq(Window \cup {"true", "false"})
    PROVE  TextInv'
  BY DEF TextInv, WindowOf, Iorec, Window, file

LEMMA FailsInv == ASSUME TextInv, NEW why \in {"past end", "bad data"}, Fails(why)
                  PROVE  TextInv'
  BY DEF TextInv, WindowOf, Iorec, Window, Fails, file

LEMMA OneAnswer ==
    ASSUME NEW a \in Window \cup {"true", "false"}
    PROVE  <<a>> \in Seq(Window \cup {"true", "false"})
  OBVIOUS

LEMMA BoolAnswer ==
    ASSUME NEW b
    PROVE  Bool(b) \in Seq(Window \cup {"true", "false"})
  <1>1. Bool(b) = <<"true">> \/ Bool(b) = <<"false">>
    BY DEF Bool
  <1> QED
    BY <1>1, OneAnswer

LEMMA OldAnswer == TextInv => answer \in Seq(Window \cup {"true", "false"})
  BY DEF TextInv

LEMMA OldMode == TextInv => mode \in {"run", "readln", "past end", "bad data"}
  BY DEF TextInv

LEMMA TEOFInv == ASSUME TextInv, TEOF PROVE TextInv'
  <1>1. WindowOf(iorec')
    <2>1. CASE iorec.eoff
      BY <2>1 DEF TEOF, TextInv
    <2>2. CASE ~iorec.eoff
      BY <2>2, SyncWindow DEF TEOF, PastEnd
    <2> QED
      BY <2>1, <2>2
  <1>2. answer' \in Seq(Window \cup {"true", "false"})
    BY BoolAnswer DEF TEOF
  <1> QED
    BY <1>1, <1>2, NewRecord, OldMode DEF TEOF

LEMMA TEOLNInv == ASSUME TextInv, TEOLN PROVE TextInv'
  <1>1. CASE Fails("past end")
    BY <1>1, FailsInv
  <1>2. CASE ~Fails("past end")
    <2>1. ~PastEnd(iorec) /\ iorec' = IOSYNC(iorec) /\ answer' = Bool(iorec'.eoln)
          /\ UNCHANGED <<file, loc, mode>>
      BY <1>2 DEF TEOLN
    <2> QED
      BY <2>1, SyncWindow, BoolAnswer, NewRecord, OldMode
  <1> QED
    BY <1>1, <1>2

LEMMA FNILInv == ASSUME TextInv, FNIL PROVE TextInv'
  <1>1. CASE Fails("past end")
    BY <1>1, FailsInv
  <1>2. CASE ~Fails("past end")
    <2>1. ~PastEnd(iorec) /\ iorec' = IOSYNC(iorec) /\ answer' = <<iorec'.win>>
          /\ UNCHANGED <<file, loc, mode>>
      BY <1>2 DEF FNIL
    <2>2. WindowOf(iorec')
      BY <2>1, SyncWindow
    <2>3. iorec'.win \in Window
      BY <2>1, SyncWindow DEF WindowOf, Iorec
    <2> QED
      BY <2>1, <2>2, <2>3, OneAnswer, NewRecord, OldMode
  <1> QED
    BY <1>1, <1>2

LEMMA GETInv == ASSUME TextInv, GET PROVE TextInv'
  <1>1. CASE Fails("past end")
    BY <1>1, FailsInv
  <1>2. CASE ~Fails("past end")
    <2>1. ~PastEnd(iorec) /\ iorec' = [IOSYNC(iorec) EXCEPT !.sync = TRUE]
          /\ UNCHANGED <<file, loc, mode, answer>>
      BY <1>2 DEF GET
    <2>2. WindowOf(iorec')
      BY <2>1, SyncWindow, UsedUp
    <2> QED
      BY <2>1, <2>2, NewRecord, OldMode, OldAnswer
  <1> QED
    BY <1>1, <1>2

LEMMA READCInv == ASSUME TextInv, READC PROVE TextInv'
  <1>1. CASE Fails("past end")
    BY <1>1, FailsInv
  <1>2. CASE ~Fails("past end")
    <2>1. ~PastEnd(iorec) /\ iorec' = [IOSYNC(iorec) EXCEPT !.sync = TRUE]
          /\ answer' = <<iorec'.win>> /\ UNCHANGED <<file, loc, mode>>
      BY <1>2 DEF READC
    <2>2. WindowOf(iorec')
      BY <2>1, SyncWindow, UsedUp
    <2>3. iorec'.win \in Window
      BY <2>1, SyncWindow DEF WindowOf, Iorec
    <2> QED
      BY <2>1, <2>2, <2>3, OneAnswer, NewRecord, OldMode
  <1> QED
    BY <1>1, <1>2

LEMMA READLNInv == ASSUME TextInv, READLN PROVE TextInv'
  BY DEF TextInv, WindowOf, Iorec, Window, READLN, file

LEMMA ReadlnLoopInv == ASSUME TextInv, ReadlnLoop PROVE TextInv'
  <1>1. CASE Fails("past end")
    BY <1>1, FailsInv
  <1>2. CASE ~Fails("past end")
    <2>1. ~PastEnd(iorec) /\ iorec' = [IOSYNC(iorec) EXCEPT !.sync = TRUE]
          /\ mode' \in {"run", "readln"} /\ UNCHANGED <<file, loc, answer>>
      BY <1>2 DEF ReadlnLoop
    <2>2. WindowOf(iorec')
      BY <2>1, SyncWindow, UsedUp
    <2> QED
      BY <2>1, <2>2, NewRecord, OldAnswer
  <1> QED
    BY <1>1, <1>2

LEMMA RESETInv == ASSUME TextInv, ~ResetAnywhere, RESET PROVE TextInv'
  <1>1. iorec.eoln \in BOOLEAN /\ iorec.speoln \in BOOLEAN /\ iorec \in Iorec
    BY Typing DEF TextInv, WindowOf
  <1>2. iorec' = [iorec EXCEPT !.pos = 0, !.sync = TRUE, !.eoln = ftext,
                               !.eoff = FALSE, !.speoln = FALSE]
    BY <1>1 DEF RESET
  <1>3. ftext \in BOOLEAN /\ 0 \in 0..MaxLen
    <2>1. 0 \in 0..MaxLen
      BY MaxLenNat
    <2> QED
      BY <2>1, Typing
  <1>4. iorec' \in Iorec /\ iorec'.pos = 0 /\ ~iorec'.eoff /\ ~iorec'.speoln /\ iorec'.sync
    BY <1>1, <1>2, <1>3 DEF Iorec
  <1>5. UNCHANGED <<file, loc, mode, answer>> /\ text' = text
    BY DEF RESET, file
  <1>6. WindowOf(iorec')
    BY <1>4, <1>5, Typing DEF WindowOf
  <1> QED
    BY <1>5, <1>6, NewRecord, OldMode, OldAnswer

\* A place in the stream with nothing in the window and no flag set.
LEMMA PlainWindow ==
    ASSUME TextInv, text' = text, NEW r, r \in Iorec, r.pos <= Len(text),
           r.sync, ~r.eoff, ~r.speoln
    PROVE  WindowOf(r)
  BY DEF WindowOf

LEMMA TELLPlace ==
    ASSUME TextInv, ~TellAnywhere, TELL
    PROVE  /\ ~iorec.eoff /\ ~iorec.speoln
           /\ loc' = IF iorec.sync THEN iorec.pos ELSE iorec.pos - 1
           /\ loc' \in 0..Len(text)
           /\ iorec.sync => iorec.pos < Len(text)
           /\ iorec' = [iorec EXCEPT !.pos = loc', !.sync = TRUE]
  <1>1. iorec \in Iorec
    BY DEF TextInv, WindowOf
  <1>2. CASE iorec.sync
    <2>1. iorec.pos < Len(text)
      BY <1>2 DEF TELL
    <2>2. ~iorec.eoff /\ ~iorec.speoln
      BY <2>1, Typing
    <2>3. iorec' = [iorec EXCEPT !.pos = iorec.pos, !.sync = TRUE] /\ loc' = iorec.pos
      BY <1>1, <1>2 DEF TELL, Iorec
    <2> QED
      BY <1>2, <2>1, <2>2, <2>3, Typing
  <1>3. CASE ~iorec.sync
    <2>1. ~iorec.eoff /\ ~iorec.speoln
      BY <1>3 DEF TELL
    <2>2. iorec.pos > 0
      BY <1>3, <2>1 DEF TextInv, WindowOf
    <2>3. iorec' = [iorec EXCEPT !.pos = iorec.pos - 1, !.sync = TRUE]
      BY <1>3, <2>2 DEF TELL
    <2>4. loc' = iorec'.pos
      BY DEF TELL
    <2>5. loc' = iorec.pos - 1
      BY <1>1, <2>3, <2>4 DEF Iorec
    <2> QED
      BY <1>3, <2>1, <2>2, <2>3, <2>5, Typing
  <1> QED
    BY <1>2, <1>3

LEMMA TELLInv == ASSUME TextInv, ~TellAnywhere, TELL PROVE TextInv'
  <1>1. UNCHANGED <<file, mode, answer>> /\ text' = text
    BY DEF TELL, file
  <1>2. iorec \in Iorec /\ loc' \in 0..MaxLen /\ loc' <= Len(text)
    BY TELLPlace, Typing
  <1>3. iorec' \in Iorec /\ iorec'.pos <= Len(text) /\ iorec'.sync
        /\ ~iorec'.eoff /\ ~iorec'.speoln
    BY <1>2, TELLPlace DEF Iorec
  <1>4. WindowOf(iorec')
    BY <1>3, PlainWindow, <1>1
  <1> QED
    BY <1>1, <1>4, TELLPlace DEF TextInv, WindowOf, Iorec, Window, file

LEMMA SEEKInv == ASSUME TextInv, SEEK PROVE TextInv'
  <1>1. UNCHANGED <<file, loc, mode, answer>> /\ text' = text
    BY DEF SEEK, file
  <1>2. iorec \in Iorec /\ loc \in 0..MaxLen /\ loc <= Len(text)
    BY Typing
  <1>3. iorec' \in Iorec /\ iorec'.pos <= Len(text) /\ iorec'.sync
        /\ ~iorec'.eoff /\ ~iorec'.speoln
    BY <1>2 DEF Iorec, SEEK
  <1>4. WindowOf(iorec')
    BY <1>3, PlainWindow, <1>1
  <1> QED
    BY <1>1, <1>4, NewRecord, OldMode, OldAnswer

\* What UNSYNC leaves on the stream.
LEMMA UnsyncedSeq ==
    ASSUME TextInv
    PROVE  /\ Unsynced \in Seq(Window)
           /\ iorec.sync => Len(Unsynced) = Len(text) - iorec.pos
           /\ ~iorec.sync => /\ Len(Unsynced) = Len(text) - iorec.pos + 1
                             /\ Unsynced[1] = iorec.win
  <1> DEFINE tail == SubSeq(text, iorec.pos + 1, Len(text))
  <1>1. text \in Seq(Char)
    BY Zenon DEF TextInv
  <1>2. tail \in Seq(Char) /\ Len(tail) = Len(text) - iorec.pos
    BY <1>1, Typing
  <1>3. tail \in Seq(Window)
    BY <1>2 DEF Window
  <1>4. CASE iorec.sync
    <2>1. Unsynced = <<>> \o tail
      BY <1>4 DEF Unsynced
    <2> HIDE DEF tail
    <2>2. Unsynced = tail
      BY <1>3, <2>1
    <2> QED
      BY <1>2, <1>3, <1>4, <2>2
  <1>5. CASE ~iorec.sync
    <2>1. Unsynced = <<iorec.win>> \o tail
      BY <1>5 DEF Unsynced
    <2> HIDE DEF tail
    <2>2. <<iorec.win>> \in Seq(Window) /\ Len(<<iorec.win>>) = 1
      BY Typing
    <2>3. Unsynced \in Seq(Window) /\ Len(Unsynced) = 1 + Len(tail)
          /\ Unsynced[1] = iorec.win
      BY <1>3, <2>1, <2>2
    <2> QED
      BY <1>2, <1>5, <2>3, Typing
  <1> QED
    BY <1>4, <1>5

\* A number ends behind the place where reading began, and not behind the stream.
LEMMA READ4Inv == ASSUME TextInv, READ4 PROVE TextInv'
  <1> DEFINE s == Unsynced
             blanks == Run(s, 0, {" ", "nl"})
             digits == Run(s, blanks, {"1"})
             p == Len(text) - (Len(s) - blanks - digits)
  <1>1. CASE Fails("past end") \/ Fails("bad data")
    BY <1>1, FailsInv
  <1>2. CASE ~(Fails("past end") \/ Fails("bad data"))
    <2>1. /\ ~iorec.eoff /\ digits > 0
          /\ iorec' = [iorec EXCEPT !.sync = TRUE, !.eoln = FALSE, !.pos = p]
          /\ answer' = SubSeq(s, blanks + 1, blanks + digits)
          /\ UNCHANGED <<file, loc, mode>>
      BY <1>2 DEF READ4
    <2>2. s \in Seq(Window) /\ Len(s) \in Nat
      BY UnsyncedSeq
    <2>3. blanks \in 0..Len(s)
      <3>1. 0 \in 0..Len(s)
        BY <2>2
      <3>2. blanks \in 0..Len(s) - 0
        BY <2>2, <3>1, RunIsLongest
      <3> HIDE DEF blanks, s
      <3> QED
        BY <2>2, <3>2
    <2>4. digits \in 0..Len(s) - blanks
      BY <2>2, <2>3, RunIsLongest
    <2>5. ~iorec.speoln
      <3>1. SUFFICES ASSUME iorec.speoln PROVE FALSE
        OBVIOUS
      <3> DEFINE C == {" ", "nl"}
      <3>2. iorec.pos = Len(text)
        BY <3>1, Typing
      <3>3. CASE iorec.sync
        <4>1. Len(s) = 0
          BY <3>2, <3>3, UnsyncedSeq, Typing
        <4> HIDE DEF blanks, digits, s
        <4> QED
          BY <2>1, <2>3, <2>4, <4>1
      <3>4. CASE ~iorec.sync
        <4>1. Len(s) = 1 /\ s[1] = iorec.win
          BY <3>2, <3>4, UnsyncedSeq, Typing
        <4>2. iorec.win = " "
          BY <3>1, <3>4 DEF TextInv, WindowOf
        <4>3. s[1] \in C
          BY <4>1, <4>2
        <4>4. 0 + blanks < Len(s) => s[0 + blanks + 1] \notin C
          <5>1. 0 \in 0..Len(s)
            BY <2>2
          <5> QED
            BY <2>2, <5>1, RunIsLongest
        <4>5. blanks # 0
          <5> HIDE DEF blanks, s, C
          <5> QED
            BY <4>1, <4>3, <4>4
        <4> HIDE DEF blanks, digits, s
        <4> QED
          BY <2>1, <2>3, <2>4, <4>1, <4>5
      <3> QED
        BY <3>3, <3>4
    <2>6. p \in Nat /\ p <= Len(text) /\ p \in 0..MaxLen
      <3>1. Len(s) <= Len(text)
        <4>1. CASE iorec.sync
          BY <4>1, UnsyncedSeq, Typing
        <4>2. CASE ~iorec.sync
          <5>1. iorec.pos > 0
            BY <2>1, <2>5, <4>2 DEF TextInv, WindowOf
          <5> QED
            BY <4>2, <5>1, UnsyncedSeq, Typing
        <4> QED
          BY <4>1, <4>2
      <3> HIDE DEF blanks, digits, s
      <3> QED
        BY <2>2, <2>3, <2>4, <3>1, Typing
    <2>7. WindowOf(iorec')
      <3>1. text' = text
        BY <2>1 DEF file
      <3>2. iorec' \in Iorec /\ iorec'.pos = p /\ iorec'.sync
            /\ ~iorec'.eoff /\ ~iorec'.speoln
        <4> HIDE DEF p, digits
        <4> QED
          BY <2>1, <2>5, <2>6, Typing DEF Iorec
      <3> HIDE DEF p, digits
      <3> QED
        BY <2>6, <3>1, <3>2, PlainWindow
    <2>8. answer' \in Seq(Window \cup {"true", "false"})
      <3> HIDE DEF p, digits, blanks, s
      <3>1. \A i \in blanks + 1..blanks + digits : s[i] \in Window
        BY <2>2, <2>3, <2>4
      <3>2. SubSeq(s, blanks + 1, blanks + digits) \in Seq(Window)
        BY <2>2, <2>3, <2>4, <3>1
      <3> QED
        BY <2>1, <3>2
    <2> QED
      BY <2>1, <2>7, <2>8, NewRecord, OldMode
  <1> QED
    BY <1>1, <1>2

-----------------------------------------------------------------------------
\* One step per action.
LEMMA StepInv ==
    ASSUME TextInv, ~ResetAnywhere, ~TellAnywhere, [Next]_vars
    PROVE  TextInv'
  <1>1. CASE TEOF
    BY <1>1, TEOFInv
  <1>2. CASE TEOLN
    BY <1>2, TEOLNInv
  <1>3. CASE FNIL
    BY <1>3, FNILInv
  <1>4. CASE GET
    BY <1>4, GETInv
  <1>5. CASE READC
    BY <1>5, READCInv
  <1>6. CASE READLN
    BY <1>6, READLNInv
  <1>7. CASE ReadlnLoop
    BY <1>7, ReadlnLoopInv
  <1>8. CASE READ4
    BY <1>8, READ4Inv
  <1>9. CASE RESET
    BY <1>9, RESETInv
  <1>10. CASE TELL
    BY <1>10, TELLInv
  <1>11. CASE SEEK
    BY <1>11, SEEKInv
  <1>12. CASE UNCHANGED vars
    BY <1>12 DEF vars, TextInv, WindowOf, Iorec, Window
  <1> QED
    BY <1>1, <1>2, <1>3, <1>4, <1>5, <1>6, <1>7, <1>8, <1>9, <1>10, <1>11, <1>12
    DEF Next

\* Reset of the standard input at a pseudo end of line (RESET.c) and TELL or SEEK
\* at the end of the stream (TELL.c, SEEK.c) apart, the window and the flags of
\* libpc agree with the stream at all times.
THEOREM WindowAgrees ==
    ASSUME ~ResetAnywhere, ~TellAnywhere PROVE Spec => []TextInv
  <1>1. Init => TextInv
    BY InitInv
  <1>2. TextInv /\ [Next]_vars => TextInv'
    BY StepInv
  <1> QED
    BY <1>1, <1>2, PTL DEF Spec

\* The variables of module PcText hold what the code can put there.
THEOREM TypeCorrect ==
    ASSUME ~ResetAnywhere, ~TellAnywhere PROVE Spec => []TypeOK
  <1>1. TextInv => TypeOK
    BY DEF TextInv, TypeOK, WindowOf
  <1> QED
    BY <1>1, WindowAgrees, PTL

\* EOFF and SPEOLN (libpc.h:129) are set only at the end of the stream.
THEOREM FlagsAreTrue ==
    ASSUME ~ResetAnywhere, ~TellAnywhere PROVE Spec => []FlagsAtEof
  <1>1. TextInv => FlagsAtEof
    BY DEF TextInv, FlagsAtEof, WindowOf
  <1> QED
    BY <1>1, WindowAgrees, PTL

-----------------------------------------------------------------------------
\* Behind the last character nothing is left.
LEMMA NothingBehind == ASSUME TextInv PROVE From(Len(text)) = <<>>
  <1>1. text \in Seq(Char)
    BY Zenon DEF TextInv
  <1>2. SubSeq(text, Len(text) + 1, Len(text)) = <<>>
    BY <1>1, Typing
  <1>3. Lines(<<>>) = <<>>
    BY DEF Lines
  <1> QED
    BY <1>2, <1>3 DEF From

\* What is still to be read with the file record r.
RestOf(r) == CASE r.eoff -> <<>>
               [] r.speoln /\ ~r.eoff -> IF r.sync THEN <<>> ELSE <<"eoln">>
               [] ~r.eoff /\ ~r.speoln ->
                    IF ~r.sync THEN From(r.pos - 1)
                    ELSE IF r.pos = Len(text) /\ ftext /\ ~r.eoln THEN <<"eoln">>
                    ELSE From(r.pos)

LEMMA RestNow == Rest = RestOf(iorec)
  BY DEF Rest, RestOf

\* After a step that leaves the stream alone.
LEMMA RestNext == ASSUME UNCHANGED file PROVE Rest' = RestOf(iorec')
  BY DEF Rest, RestOf, From, Lines, file

LEMMA FromNext == ASSUME UNCHANGED file, NEW n PROVE From(n)' = From(n)
  BY DEF From, Lines, file

\* IOSYNC takes nothing away from what is left.
LEMMA SyncRest ==
    ASSUME TextInv, ~PastEnd(iorec) PROVE RestOf(IOSYNC(iorec)) = RestOf(iorec)
  <1>0. iorec \in Iorec
    BY Typing
  <1>2. CASE ~iorec.sync
    BY <1>2 DEF IOSYNC
  <1>3. CASE iorec.sync /\ iorec.speoln
    <2>1. IOSYNC(iorec) = PastPseudoEoln(iorec)
      BY <1>3 DEF IOSYNC
    <2>2. PastPseudoEoln(iorec).eoff /\ ~iorec.eoff
      BY <1>0, <1>3 DEF PastPseudoEoln, Iorec, PastEnd
    <2>3. RestOf(iorec) = <<>> /\ RestOf(PastPseudoEoln(iorec)) = <<>>
      BY <1>3, <2>2 DEF RestOf
    <2> QED
      BY <2>1, <2>3
  <1>4. CASE iorec.sync /\ ~iorec.speoln /\ iorec.pos = Len(text)
    <2>1. IOSYNC(iorec) = AtEnd(iorec) /\ ~iorec.eoff
      BY <1>4 DEF IOSYNC, PastEnd
    <2>2. CASE ftext /\ ~iorec.eoln
      <3>1. ~AtEnd(iorec).eoff /\ AtEnd(iorec).speoln /\ ~AtEnd(iorec).sync
        BY <1>0, <2>1, <2>2 DEF AtEnd, Iorec
      <3>2. RestOf(iorec) = <<"eoln">>
        BY <1>4, <2>1, <2>2 DEF RestOf
      <3>3. RestOf(AtEnd(iorec)) = <<"eoln">>
        BY <3>1 DEF RestOf
      <3> QED
        BY <2>1, <3>2, <3>3
    <2>3. CASE ~ftext \/ iorec.eoln
      <3>1. AtEnd(iorec).eoff
        BY <1>0, <2>1, <2>3 DEF AtEnd, Iorec
      <3>2. RestOf(iorec) = From(Len(text))
        BY <1>4, <2>1, <2>3 DEF RestOf
      <3>3. RestOf(AtEnd(iorec)) = <<>>
        BY <3>1 DEF RestOf
      <3> QED
        BY <2>1, <3>2, <3>3, NothingBehind
    <2> QED
      BY <2>2, <2>3
  <1>5. CASE iorec.sync /\ ~iorec.speoln /\ iorec.pos < Len(text)
    <2>1. iorec.pos # Len(text) /\ ~iorec.eoff
      BY <1>5, Typing DEF PastEnd
    <2>2. IOSYNC(iorec) = TakeChar(iorec)
      BY <1>5, <2>1 DEF IOSYNC
    <2> DEFINE r == TakeChar(iorec)
    <2>3. r.pos = iorec.pos + 1 /\ ~r.sync /\ ~r.eoff /\ ~r.speoln
      BY <1>0, <1>5, <2>1, <2>2 DEF TakeChar, Iorec
    <2>4. RestOf(iorec) = From(iorec.pos)
      BY <1>5, <2>1 DEF RestOf
    <2>5. RestOf(r) = From(iorec.pos)
      <3>1. r.pos - 1 = iorec.pos
        BY <2>3, Typing
      <3> HIDE DEF r
      <3>2. RestOf(r) = From(r.pos - 1)
        BY <2>3 DEF RestOf
      <3> QED
        BY <3>1, <3>2
    <2> QED
      BY <2>2, <2>4, <2>5
  <1> QED
    <2>1. iorec.pos = Len(text) \/ iorec.pos < Len(text)
      BY Typing
    <2> QED
      BY <2>1, <1>2, <1>3, <1>4, <1>5

\* IOSYNC fills the window with what is next.
LEMMA SyncKeepsRest ==
    ASSUME TextInv, ~PastEnd(iorec), UNCHANGED file, iorec' = IOSYNC(iorec)
    PROVE  Rest' = Rest
  BY RestNow, RestNext, SyncRest

LEMMA SameRest ==
    ASSUME UNCHANGED file, iorec' = iorec PROVE Rest' = Rest
  BY DEF Rest, From, Lines, file

\* A step that leaves the window full has left what is to be read alone.
LEMMA StepReadsNothingAhead ==
    ASSUME TextInv, [Next]_vars
    PROVE  Rest' # Rest => iorec'.sync
  <1>0. iorec \in Iorec
    BY Typing
  <1>1. CASE TEOF
    <2>1. CASE iorec.eoff
      BY <1>1, <2>1, SameRest DEF TEOF
    <2>2. CASE ~iorec.eoff
      BY <1>1, <2>2, SyncKeepsRest DEF TEOF, PastEnd
    <2> QED
      BY <2>1, <2>2
  <1>2. CASE TEOLN \/ FNIL
    <2>1. CASE Fails("past end")
      BY <2>1, SameRest DEF Fails
    <2>2. CASE ~Fails("past end")
      <3>1. UNCHANGED file /\ ~PastEnd(iorec) /\ iorec' = IOSYNC(iorec)
        BY <1>2, <2>2 DEF TEOLN, FNIL
      <3> QED
        BY <3>1, SyncKeepsRest
    <2> QED
      BY <2>1, <2>2
  <1>3. CASE GET \/ READC \/ ReadlnLoop
    <2>1. CASE Fails("past end")
      BY <2>1, SameRest DEF Fails
    <2>2. CASE ~Fails("past end")
      <3>1. iorec' = [IOSYNC(iorec) EXCEPT !.sync = TRUE] /\ ~PastEnd(iorec)
        BY <1>3, <2>2 DEF GET, READC, ReadlnLoop
      <3>2. IOSYNC(iorec) \in Iorec
        BY <3>1, SyncWindow DEF WindowOf
      <3> QED
        BY <3>1, <3>2 DEF Iorec
    <2> QED
      BY <2>1, <2>2
  <1>4. CASE READLN
    BY <1>4, SameRest DEF READLN
  <1>5. CASE READ4
    <2>1. CASE Fails("past end") \/ Fails("bad data")
      BY <2>1, SameRest DEF Fails
    <2>2. CASE ~(Fails("past end") \/ Fails("bad data"))
      <3>1. PICK p : iorec' = [iorec EXCEPT !.sync = TRUE, !.eoln = FALSE, !.pos = p]
        BY <1>5, <2>2 DEF READ4
      <3> QED
        BY <1>0, <3>1 DEF Iorec
    <2> QED
      BY <2>1, <2>2
  <1>6. CASE RESET
    BY <1>0, <1>6 DEF RESET, Iorec
  <1>7. CASE TELL
    BY <1>0, <1>7 DEF TELL, Iorec
  <1>8. CASE SEEK
    BY <1>0, <1>8 DEF SEEK, Iorec
  <1>9. CASE UNCHANGED vars
    BY <1>9, SameRest DEF vars, file
  <1> QED
    BY <1>1, <1>2, <1>3, <1>4, <1>5, <1>6, <1>7, <1>8, <1>9 DEF Next

\* After get, read or readln nothing more has been taken from the stream than
\* the program asked for (IOSYNC.c, GET.c), so it can prompt before it waits.
THEOREM NeverReadsAhead ==
    ASSUME ~ResetAnywhere, ~TellAnywhere PROVE Spec => NoReadAhead
  <1>1. TextInv /\ [Next]_vars => [Rest' # Rest => iorec'.sync]_vars
    BY StepReadsNothingAhead
  <1> QED
    BY <1>1, WindowAgrees, PTL DEF Spec, NoReadAhead

\* The place that TELL gives (TELL.c:41) is where reading goes on.
THEOREM TellIsCurrent ==
    ASSUME ~ResetAnywhere, ~TellAnywhere PROVE Spec => TellsCurrentLocation
  <1>1. ASSUME TextInv, [Next]_vars, loc' # loc
        PROVE  From(loc') = Rest
    <2>1. TELL
      BY <1>1 DEF Next, vars, Fails, TEOF, TEOLN, FNIL, GET, READC, READLN, ReadlnLoop,
                  READ4, RESET, SEEK
    <2>2. CASE iorec.sync
      <3>1. iorec.pos # Len(text) /\ ~iorec.eoff /\ ~iorec.speoln /\ loc' = iorec.pos
        BY <1>1, <2>1, <2>2, TELLPlace, Typing
      <3> QED
        BY <2>2, <3>1 DEF Rest
    <2>3. CASE ~iorec.sync
      <3>1. ~iorec.eoff /\ ~iorec.speoln /\ loc' = iorec.pos - 1
        BY <1>1, <2>1, <2>3, TELLPlace
      <3> QED
        BY <2>3, <3>1 DEF Rest
    <2> QED
      BY <2>2, <2>3
  <1>2. TextInv /\ [Next]_vars => [loc' # loc => From(loc') = Rest]_vars
    BY <1>1
  <1> QED
    BY <1>2, WindowAgrees, PTL DEF Spec, TellsCurrentLocation

-----------------------------------------------------------------------------
(* The lazy window is a file of Pascal.                                     *)

\* What a full window shows: the character of the stream, or the end of its line.
Shows(r) == /\ ~r.sync /\ ~r.eoff /\ ~r.speoln =>
                 /\ r.eoln = (ftext /\ text[r.pos] = "nl")
                 /\ r.win = IF r.eoln THEN " " ELSE text[r.pos]
            /\ ~r.sync /\ ~r.eoff /\ r.speoln => r.eoln
            /\ ftext /\ r.eoff => ~r.eoln
            /\ r.speoln => ftext

\* The marks that a program sees, one by one.
LEMMA LinesAt ==
    ASSUME NEW s \in Seq(Char)
    PROVE  /\ Lines(s) \in Seq(Window \cup {"eoln"})
           /\ Len(Lines(s)) = IF ftext /\ s # <<>> /\ s[Len(s)] # "nl" THEN Len(s) + 1 ELSE Len(s)
           /\ \A i \in 1..Len(s) : Lines(s)[i] = IF ftext /\ s[i] = "nl" THEN "eoln" ELSE s[i]
           /\ \A i \in 1..Len(Lines(s)) : i > Len(s) => Lines(s)[i] = "eoln"
  <1> DEFINE body == [i \in 1..Len(s) |-> IF ftext /\ s[i] = "nl" THEN "eoln" ELSE s[i]]
             last == IF ftext /\ s # <<>> /\ s[Len(s)] # "nl" THEN <<"eoln">> ELSE <<>>
  <1>1. Len(s) \in Nat /\ body \in Seq(Window \cup {"eoln"}) /\ Len(body) = Len(s)
    BY DEF Window
  <1>2. \A i \in 1..Len(s) : body[i] = IF ftext /\ s[i] = "nl" THEN "eoln" ELSE s[i]
    OBVIOUS
  <1>4. Lines(s) = body \o last
    BY DEF Lines
  <1>5. CASE ftext /\ s # <<>> /\ s[Len(s)] # "nl"
    <2> DEFINE e == <<"eoln">>
    <2>1. e \in Seq(Window \cup {"eoln"}) /\ Len(e) = 1 /\ e[1] = "eoln"
      OBVIOUS
    <2>2. last = e
      BY <1>5
    <2> HIDE DEF body, last, e
    <2>3. Lines(s) = body \o e
      BY <1>4, <2>2
    <2>4. /\ Lines(s) \in Seq(Window \cup {"eoln"}) /\ Len(Lines(s)) = Len(s) + 1
          /\ \A i \in 1..Len(s) : Lines(s)[i] = body[i]
          /\ Lines(s)[Len(s) + 1] = "eoln"
      <3>1. body \o e \in Seq(Window \cup {"eoln"}) /\ Len(body \o e) = Len(body) + Len(e)
        BY <1>1, <2>1, ConcatProperties
      <3>2. \A i \in 1..Len(body) + Len(e) :
              (body \o e)[i] = IF i <= Len(body) THEN body[i] ELSE e[i - Len(body)]
        BY <1>1, <2>1, ConcatProperties
      <3> QED
        BY <1>1, <2>1, <2>3, <3>1, <3>2
    <2>5. \A i \in 1..Len(Lines(s)) : i > Len(s) => Lines(s)[i] = "eoln"
      <3>1. \A i \in 1..Len(Lines(s)) : i > Len(s) => i = Len(s) + 1
        BY <1>1, <2>4
      <3> QED
        BY <2>4, <3>1
    <2>6. \A i \in 1..Len(s) : Lines(s)[i] = IF ftext /\ s[i] = "nl" THEN "eoln" ELSE s[i]
      BY <1>2, <2>4
    <2> QED
      BY <1>5, <2>4, <2>5, <2>6
  <1>6. CASE ~(ftext /\ s # <<>> /\ s[Len(s)] # "nl")
    <2>1. last = <<>>
      BY <1>6
    <2> HIDE DEF body, last
    <2>2. Lines(s) = body
      BY <1>1, <1>4, <2>1
    <2> QED
      BY <1>1, <1>2, <1>6, <2>2
  <1> QED
    BY <1>5, <1>6

\* What is left behind the first n characters.
LEMMA FromAt ==
    ASSUME TextInv, NEW n \in 0..Len(text)
    PROVE  /\ From(n) \in Seq(Window \cup {"eoln"})
           /\ Len(From(n)) = Len(text) - n + (IF ftext /\ n < Len(text) /\ text[Len(text)] # "nl" THEN 1 ELSE 0)
           /\ \A i \in 1..Len(text) - n :
                 From(n)[i] = IF ftext /\ text[n + i] = "nl" THEN "eoln" ELSE text[n + i]
           /\ \A i \in 1..Len(From(n)) : i > Len(text) - n => From(n)[i] = "eoln"
  <1> DEFINE s == SubSeq(text, n + 1, Len(text))
  <1>1. text \in Seq(Char) /\ Len(text) \in Nat
    BY Typing, Zenon DEF TextInv
  <1>2. s \in Seq(Char) /\ Len(s) = Len(text) - n /\ \A i \in 1..Len(text) - n : s[i] = text[n + i]
    BY <1>1
  <1>3. From(n) = Lines(s)
    BY DEF From
  <1>4. s # <<>> <=> n < Len(text)
    <2> HIDE DEF s
    <2> QED
      BY <1>1, <1>2
  <1>5. n < Len(text) => s[Len(s)] = text[Len(text)]
    <2> HIDE DEF s
    <2>1. n < Len(text) => n + Len(s) = Len(text) /\ Len(s) \in 1..Len(text) - n
      BY <1>1, <1>2
    <2> QED
      BY <1>2, <2>1
  <1> HIDE DEF s
  <1>6. /\ Lines(s) \in Seq(Window \cup {"eoln"})
        /\ Len(Lines(s)) = IF ftext /\ n < Len(text) /\ text[Len(text)] # "nl" THEN Len(s) + 1 ELSE Len(s)
        /\ \A i \in 1..Len(s) : Lines(s)[i] = IF ftext /\ s[i] = "nl" THEN "eoln" ELSE s[i]
        /\ \A i \in 1..Len(Lines(s)) : i > Len(s) => Lines(s)[i] = "eoln"
    BY <1>2, <1>4, <1>5, LinesAt
  <1> QED
    BY <1>1, <1>2, <1>3, <1>6

\* Characters that are used up are dropped from what is left, the last one apart: the end of
\* its line may be left.
LEMMA FromDrop ==
    ASSUME TextInv, NEW n \in 0..Len(text), NEW k \in Nat, n + k < Len(text)
    PROVE  From(n + k) = SubSeq(From(n), k + 1, Len(From(n)))
  <1>1. Len(text) \in Nat /\ n \in Nat /\ n + k \in 0..Len(text)
    BY Typing
  <1>2. From(n) \in Seq(Window \cup {"eoln"}) /\ From(n + k) \in Seq(Window \cup {"eoln"})
    BY <1>1, FromAt
  <1>3. Len(From(n + k)) = Len(From(n)) - k /\ Len(From(n)) \in Nat /\ k <= Len(From(n))
    <2> DEFINE more(m) == IF ftext /\ m < Len(text) /\ text[Len(text)] # "nl" THEN 1 ELSE 0
    <2>1. Len(From(n)) = Len(text) - n + more(n) /\ Len(From(n + k)) = Len(text) - (n + k) + more(n + k)
      BY <1>1, FromAt
    <2>2. n < Len(text)
      BY <1>1
    <2>3. more(n) = more(n + k) /\ more(n) \in {0, 1}
      BY <2>2
    <2> HIDE DEF more
    <2> QED
      BY <1>1, <2>1, <2>2, <2>3
  <1> DEFINE t == SubSeq(From(n), k + 1, Len(From(n)))
  <1>4. t \in Seq(Window \cup {"eoln"}) /\ Len(t) = Len(From(n)) - k
        /\ \A i \in 1..Len(From(n)) - k : t[i] = From(n)[k + i]
    <2> DEFINE f == From(n)
    <2>1. f \in Seq(Window \cup {"eoln"}) /\ Len(f) \in Nat /\ k <= Len(f)
      BY <1>2, <1>3
    <2> HIDE DEF f
    <2>2. SubSeq(f, k + 1, Len(f)) \in Seq(Window \cup {"eoln"})
          /\ Len(SubSeq(f, k + 1, Len(f))) = Len(f) - k
          /\ \A i \in 1..Len(f) - k : SubSeq(f, k + 1, Len(f))[i] = f[k + i]
      BY <2>1
    <2> QED
      BY <2>2 DEF f
  <1>5. ASSUME NEW i \in 1..Len(From(n)) - k
        PROVE  From(n + k)[i] = From(n)[k + i]
    <2>1. i \in Nat /\ k + i \in 1..Len(From(n)) /\ i \in 1..Len(From(n + k))
      BY <1>3
    <2>2. CASE i <= Len(text) - (n + k)
      <3>1. k + i \in 1..Len(text) - n /\ i \in 1..Len(text) - (n + k) /\ n + k + i = n + (k + i)
        BY <1>1, <2>1, <2>2
      <3> QED
        BY <1>1, <3>1, FromAt
    <2>3. CASE i > Len(text) - (n + k)
      <3>1. k + i > Len(text) - n
        BY <1>1, <2>1, <2>3
      <3> QED
        BY <1>1, <2>1, <2>3, <3>1, FromAt
    <2> QED
      BY <1>1, <2>1, <2>2, <2>3
  <1> HIDE DEF t
  <1> DEFINE u == From(n + k)
  <1>6. /\ u \in Seq(Window \cup {"eoln"}) /\ Len(u) = Len(From(n)) - k
        /\ \A i \in 1..Len(From(n)) - k : u[i] = t[i]
    BY <1>2, <1>3, <1>4, <1>5
  <1> HIDE DEF u
  <1>7. t = u
    <2>1. Len(t) = Len(u) /\ \A i \in 1..Len(t) : t[i] = u[i]
      BY <1>4, <1>6
    <2> QED
      BY <1>4, <1>6, <2>1, SeqEqual
  <1> QED
    BY <1>7 DEF t, u

\* The last characters are used up: the end of a line is left that had none.
LEMMA FromDropLast ==
    ASSUME TextInv, NEW n \in 0..Len(text) - 1
    PROVE  SubSeq(From(n), Len(text) - n + 1, Len(From(n)))
             = IF ftext /\ text[Len(text)] # "nl" THEN <<"eoln">> ELSE <<>>
  <1> DEFINE f == From(n)
             k == Len(text) - n
  <1>1. Len(text) \in Nat /\ n \in 0..Len(text) /\ k \in Nat /\ k > 0 /\ n < Len(text)
    BY Typing
  <1>2. /\ f \in Seq(Window \cup {"eoln"})
        /\ Len(f) = k + (IF ftext /\ text[Len(text)] # "nl" THEN 1 ELSE 0)
        /\ \A i \in 1..Len(f) : i > k => f[i] = "eoln"
    BY <1>1, FromAt
  <1> HIDE DEF f, k
  <1>3. CASE ftext /\ text[Len(text)] # "nl"
    <2>1. Len(f) = k + 1 /\ f[k + 1] = "eoln"
      BY <1>1, <1>2, <1>3
    <2>2. SubSeq(f, k + 1, k + 1) = <<f[k + 1]>>
      <3> DEFINE g == SubSeq(f, k + 1, k + 1)
                 h == <<f[k + 1]>>
      <3>1. g \in Seq(Window \cup {"eoln"}) /\ Len(g) = 1 /\ g[1] = f[k + 1]
        BY <1>1, <1>2, <2>1
      <3>2. h \in Seq(Window \cup {"eoln"}) /\ Len(h) = 1 /\ h[1] = f[k + 1]
        BY <2>1
      <3> HIDE DEF g, h
      <3>3. g = h
        BY <3>1, <3>2
      <3> QED
        BY <3>3 DEF g, h
    <2> QED
      BY <1>3, <2>1, <2>2 DEF f, k
  <1>4. CASE ~(ftext /\ text[Len(text)] # "nl")
    <2>1. Len(f) = k
      BY <1>1, <1>2, <1>4
    <2>2. SubSeq(f, k + 1, k) = <<>>
      BY <1>1, <1>2, <2>1
    <2> QED
      BY <1>4, <2>1, <2>2 DEF f, k
  <1> QED
    BY <1>3, <1>4

\* A full window is the first of what is left, and using it up drops it.
LEMMA FullWindow ==
    ASSUME TextInv, NEW r, WindowOf(r), Shows(r), ~r.sync, ~r.eoff,
           NEW q, q = [r EXCEPT !.sync = TRUE]
    PROVE  /\ RestOf(r) # <<>>
           /\ r.win = IF RestOf(r)[1] = "eoln" THEN " " ELSE RestOf(r)[1]
           /\ ftext => (RestOf(r)[1] = "eoln" <=> r.eoln)
           /\ RestOf(q) = SubSeq(RestOf(r), 2, Len(RestOf(r)))
  <1>0. r \in Iorec /\ q \in Iorec /\ q.sync /\ ~q.eoff /\ q.speoln = r.speoln
        /\ q.pos = r.pos /\ q.eoln = r.eoln
    BY DEF WindowOf, Iorec
  <1>1. CASE r.speoln
    <2>1. RestOf(r) = <<"eoln">> /\ RestOf(q) = <<>>
      BY <1>0, <1>1 DEF RestOf
    <2>2. r.win = " " /\ r.eoln
      BY <1>1 DEF WindowOf, Shows
    <2>3. RestOf(r) # <<>> /\ RestOf(r)[1] = "eoln"
      BY <2>1
    <2>4. SubSeq(RestOf(r), 2, Len(RestOf(r))) = <<>>
      BY <2>1
    <2> QED
      BY <2>1, <2>2, <2>3, <2>4
  <1>2. CASE ~r.speoln
    <2> DEFINE n == r.pos - 1
               c == text[r.pos]
    <2>1. /\ Len(text) \in Nat /\ r.pos \in Nat /\ r.pos > 0 /\ r.pos <= Len(text)
          /\ n \in 0..Len(text) - 1 /\ n \in 0..Len(text) /\ n + 1 = r.pos
      <3>1. r.pos \in 0..MaxLen /\ r.pos <= Len(text) /\ r.pos > 0
        BY <1>0, <1>2 DEF WindowOf, Iorec
      <3> QED
        BY <3>1, Typing
    <2>2. r.eoln = (ftext /\ c = "nl") /\ r.win = IF r.eoln THEN " " ELSE c
      BY <1>2 DEF Shows
    <2>3. c \in Char /\ c # "eoln"
      <3>1. r.pos \in 1..Len(text) /\ text \in Seq(Char)
        <4>1. text \in Seq(Char)
          BY Zenon DEF TextInv
        <4> QED
          BY <2>1, <4>1
      <3>2. c \in Char
        BY <3>1
      <3> QED
        BY <3>2, CharAssumption
    <2>4. RestOf(r) = From(n)
      BY <1>2 DEF RestOf
    <2> HIDE DEF n
    <2>5. From(n)[1] = (IF ftext /\ c = "nl" THEN "eoln" ELSE c) /\ Len(From(n)) > 0
          /\ From(n) \in Seq(Window \cup {"eoln"})
      <3>1. 1 \in 1..Len(text) - n
        BY <2>1
      <3>2. From(n)[1] = IF ftext /\ text[n + 1] = "nl" THEN "eoln" ELSE text[n + 1]
        BY <2>1, <3>1, FromAt
      <3>3. From(n) \in Seq(Window \cup {"eoln"})
            /\ Len(From(n)) = Len(text) - n + (IF ftext /\ n < Len(text) /\ text[Len(text)] # "nl"
                                              THEN 1 ELSE 0)
        BY <2>1, FromAt
      <3>4. Len(From(n)) > 0
        BY <2>1, <3>3
      <3> QED
        BY <2>1, <3>2, <3>3, <3>4
    <2>6. RestOf(q) = SubSeq(From(n), 2, Len(From(n)))
      <3>1. CASE r.pos < Len(text)
        <4>1. RestOf(q) = From(r.pos)
          BY <1>0, <1>2, <2>1, <3>1 DEF RestOf
        <4>2. From(n + 1) = SubSeq(From(n), 1 + 1, Len(From(n)))
          BY <2>1, <3>1, FromDrop
        <4>3. From(n + 1) = From(r.pos) /\ 1 + 1 = 2
          BY <2>1
        <4> QED
          BY <4>1, <4>2, <4>3
      <3>2. CASE r.pos = Len(text)
        <4>1. RestOf(q) = IF ftext /\ ~r.eoln THEN <<"eoln">> ELSE <<>>
          BY <1>0, <1>2, <3>2, NothingBehind DEF RestOf
        <4>2. SubSeq(From(n), Len(text) - n + 1, Len(From(n)))
                = IF ftext /\ text[Len(text)] # "nl" THEN <<"eoln">> ELSE <<>>
          BY <2>1, FromDropLast
        <4>3. Len(text) - n + 1 = 2
          BY <2>1, <3>2
        <4> QED
          BY <2>2, <3>2, <4>1, <4>2, <4>3
      <3>3. r.pos = Len(text) \/ r.pos < Len(text)
        BY <2>1
      <3> QED
        BY <3>1, <3>2, <3>3
    <2>7. From(n) # <<>>
      BY <2>5
    <2> HIDE DEF c
    <2>8. r.win = IF From(n)[1] = "eoln" THEN " " ELSE From(n)[1]
      BY <2>2, <2>3, <2>5
    <2>9. ftext => (From(n)[1] = "eoln" <=> r.eoln)
      BY <2>2, <2>3, <2>5
    <2> QED
      BY <2>4, <2>6, <2>7, <2>8, <2>9
  <1> QED
    BY <1>1, <1>2

\* IOSYNC shows in the window what it takes.
LEMMA SyncShows ==
    ASSUME TextInv, Shows(iorec), ~PastEnd(iorec) PROVE Shows(IOSYNC(iorec))
  <1>0. iorec \in Iorec /\ ftext \in BOOLEAN
    BY Typing
  <1>1. CASE ~iorec.sync
    BY <1>1 DEF IOSYNC
  <1>2. CASE iorec.sync /\ iorec.speoln
    <2>1. IOSYNC(iorec) = PastPseudoEoln(iorec)
      BY <1>2 DEF IOSYNC
    <2> QED
      BY <1>0, <2>1 DEF PastPseudoEoln, Iorec, Shows
  <1>3. CASE iorec.sync /\ ~iorec.speoln /\ iorec.pos = Len(text)
    <2>1. IOSYNC(iorec) = AtEnd(iorec) /\ ~iorec.eoff
      BY <1>3 DEF IOSYNC, PastEnd
    <2>2. CASE ~ftext
      BY <1>0, <1>3, <2>1, <2>2 DEF AtEnd, Iorec, Shows
    <2>3. CASE ftext /\ iorec.eoln
      BY <1>0, <1>3, <2>1, <2>3 DEF AtEnd, Iorec, Shows
    <2>4. CASE ftext /\ ~iorec.eoln
      BY <1>0, <1>3, <2>1, <2>4 DEF AtEnd, Iorec, Shows
    <2> QED
      BY <2>2, <2>3, <2>4
  <1>4. CASE iorec.sync /\ ~iorec.speoln /\ iorec.pos < Len(text)
    <2>1. iorec.pos # Len(text) /\ ~iorec.eoff
      BY <1>4, Typing DEF PastEnd
    <2>2. IOSYNC(iorec) = TakeChar(iorec)
      BY <1>4, <2>1 DEF IOSYNC
    <2> DEFINE c == text[iorec.pos + 1]
    <2>3. TakeChar(iorec) = [iorec EXCEPT !.sync = FALSE, !.pos = iorec.pos + 1,
                                          !.eoln = (ftext /\ c = "nl"),
                                          !.win = IF ftext /\ c = "nl" THEN " " ELSE c]
      BY DEF TakeChar
    <2> DEFINE r == TakeChar(iorec)
    <2>4. /\ r.pos = iorec.pos + 1 /\ ~r.speoln /\ ~r.eoff
          /\ r.eoln = (ftext /\ c = "nl") /\ r.win = IF ftext /\ c = "nl" THEN " " ELSE c
      <3> HIDE DEF c
      <3> QED
        BY <1>0, <1>4, <2>1, <2>3 DEF Iorec
    <2>5. text[r.pos] = c
      BY <2>4
    <2> HIDE DEF r, c
    <2>6. Shows(r)
      BY <2>4, <2>5 DEF Shows
    <2> QED
      BY <2>2, <2>6 DEF r
  <1> QED
    <2>1. iorec.pos = Len(text) \/ iorec.pos < Len(text)
      BY Typing
    <2> QED
      BY <2>1, <1>1, <1>2, <1>3, <1>4

LEMMA UsedShows ==
    ASSUME NEW r \in Iorec, Shows(r), NEW q, q = [r EXCEPT !.sync = TRUE] PROVE Shows(q)
  BY DEF Shows, Iorec

LEMMA ShowsNext == ASSUME UNCHANGED file, Shows(iorec') PROVE Shows(iorec)'
  BY DEF Shows, file

\* The window is full or used up as the flags say, and only a text file skips lines.
ShownInv == TextInv /\ Shows(iorec) /\ (mode = "readln" => ftext)

LEMMA ShownInit == Init => ShownInv
  <1> SUFFICES ASSUME Init PROVE ShownInv
    OBVIOUS
  <1>1. iorec = [pos |-> 0, win |-> "0", sync |-> TRUE, eoln |-> ftext,
                 eoff |-> FALSE, speoln |-> FALSE] /\ mode = "run"
    BY DEF Init
  <1>2. Shows(iorec)
    BY <1>1 DEF Shows
  <1> QED
    BY <1>1, <1>2, InitInv DEF ShownInv

LEMMA ShownStep ==
    ASSUME ShownInv, ~ResetAnywhere, ~TellAnywhere, [Next]_vars
    PROVE  ShownInv'
  <1>0. TextInv /\ Shows(iorec) /\ iorec \in Iorec /\ ftext \in BOOLEAN /\ TextInv'
    BY StepInv, Typing DEF ShownInv
  <1>f. CASE Fails("past end") \/ Fails("bad data")
    <2>1. UNCHANGED file /\ iorec' = iorec /\ mode' # "readln"
      BY <1>f DEF Fails
    <2> QED
      BY <1>0, <2>1, ShowsNext DEF ShownInv
  <1>u. CASE UNCHANGED vars
    <2>1. UNCHANGED file /\ iorec' = iorec /\ mode' = mode /\ ftext' = ftext
      BY <1>u DEF vars, file
    <2> QED
      BY <1>0, <2>1, ShowsNext DEF ShownInv
  <1>1. CASE TEOF
    <2>1. UNCHANGED file /\ mode' = "run"
      BY <1>1 DEF TEOF
    <2>2. iorec' = IF iorec.eoff THEN iorec ELSE IOSYNC(iorec)
      BY <1>1 DEF TEOF
    <2>3. Shows(iorec')
      <3>1. CASE iorec.eoff
        BY <1>0, <2>2, <3>1
      <3>2. CASE ~iorec.eoff
        BY <1>0, <2>2, <3>2, SyncShows DEF PastEnd
      <3> QED
        BY <3>1, <3>2
    <2> QED
      BY <1>0, <2>1, <2>3, ShowsNext DEF ShownInv
  <1>2. CASE (TEOLN \/ FNIL) /\ ~Fails("past end")
    <2>1. UNCHANGED file /\ mode' = "run" /\ ~PastEnd(iorec) /\ iorec' = IOSYNC(iorec)
      BY <1>2 DEF TEOLN, FNIL
    <2>2. Shows(iorec')
      BY <1>0, <2>1, SyncShows
    <2> QED
      BY <1>0, <2>1, <2>2, ShowsNext DEF ShownInv
  <1>3. CASE (GET \/ READC \/ ReadlnLoop) /\ ~Fails("past end")
    <2>1. /\ UNCHANGED file /\ ~PastEnd(iorec)
          /\ iorec' = [IOSYNC(iorec) EXCEPT !.sync = TRUE]
      BY <1>3 DEF GET, READC, ReadlnLoop
    <2>2. (mode = "run" /\ mode' = mode) \/ ReadlnLoop
      BY <1>3 DEF GET, READC
    <2>3. mode' = "readln" => ftext'
      BY <2>1, <2>2 DEF file, ReadlnLoop, ShownInv
    <2>4. IOSYNC(iorec) \in Iorec
      BY <1>0, <2>1, SyncWindow DEF WindowOf
    <2>5. Shows(iorec')
      BY <1>0, <2>1, <2>4, SyncShows, UsedShows
    <2> QED
      BY <1>0, <2>1, <2>3, <2>5, ShowsNext DEF ShownInv
  <1>4. CASE READLN
    <2>1. UNCHANGED file /\ iorec' = iorec /\ ftext /\ ftext' = ftext
      BY <1>4 DEF READLN, file
    <2> QED
      BY <1>0, <2>1, ShowsNext DEF ShownInv
  <1>5. CASE READ4 /\ ~Fails("past end") /\ ~Fails("bad data")
    <2>1. UNCHANGED file /\ mode' = "run"
      BY <1>5 DEF READ4
    <2>2. PICK p : iorec' = [iorec EXCEPT !.sync = TRUE, !.eoln = FALSE, !.pos = p]
      BY <1>5 DEF READ4
    <2>3. Shows(iorec')
      BY <1>0, <2>2 DEF Shows, Iorec
    <2> QED
      BY <1>0, <2>1, <2>3, ShowsNext DEF ShownInv
  <1>6. CASE RESET
    <2>1. UNCHANGED file /\ mode' = "run"
      BY <1>6 DEF RESET
    <2>2. iorec'.sync /\ ~iorec'.eoff /\ (iorec'.speoln => ftext)
      BY <1>0, <1>6 DEF RESET, Shows, Iorec
    <2>3. Shows(iorec')
      BY <2>2 DEF Shows
    <2> QED
      BY <1>0, <2>1, <2>3, ShowsNext DEF ShownInv
  <1>7. CASE TELL
    <2>1. UNCHANGED file /\ mode' = "run"
      BY <1>7 DEF TELL
    <2>2. iorec'.sync /\ iorec'.eoff = iorec.eoff /\ iorec'.eoln = iorec.eoln
          /\ iorec'.speoln = iorec.speoln
      BY <1>0, <1>7 DEF TELL, Iorec
    <2>3. Shows(iorec')
      BY <1>0, <2>2 DEF Shows
    <2> QED
      BY <1>0, <2>1, <2>3, ShowsNext DEF ShownInv
  <1>8. CASE SEEK
    <2>1. UNCHANGED file /\ mode' = "run"
      BY <1>8 DEF SEEK
    <2>2. iorec'.sync /\ ~iorec'.eoff /\ ~iorec'.speoln
      BY <1>0, <1>8 DEF SEEK, Iorec
    <2>3. Shows(iorec')
      BY <2>2 DEF Shows
    <2> QED
      BY <1>0, <2>1, <2>3, ShowsNext DEF ShownInv
  <1> QED
    BY <1>f, <1>u, <1>1, <1>2, <1>3, <1>4, <1>5, <1>6, <1>7, <1>8 DEF Next

\* What UNSYNC leaves on the stream, one by one.
LEMMA UnsyncedAt ==
    ASSUME TextInv
    PROVE  /\ iorec.sync => \A i \in 1..Len(text) - iorec.pos : Unsynced[i] = text[iorec.pos + i]
           /\ ~iorec.sync => \A i \in 1..Len(text) - iorec.pos : Unsynced[1 + i] = text[iorec.pos + i]
  <1> DEFINE tail == SubSeq(text, iorec.pos + 1, Len(text))
             w == <<iorec.win>>
  <1>1. text \in Seq(Char)
    BY Zenon DEF TextInv
  <1>2. /\ tail \in Seq(Char) /\ Len(tail) = Len(text) - iorec.pos
        /\ \A i \in 1..Len(text) - iorec.pos : tail[i] = text[iorec.pos + i]
    BY <1>1, Typing
  <1>3. tail \in Seq(Window) /\ w \in Seq(Window) /\ Len(w) = 1
    BY <1>2, Typing DEF Window
  <1>4. Unsynced = (IF iorec.sync THEN <<>> ELSE w) \o tail
    BY DEF Unsynced
  <1> HIDE DEF tail, w
  <1>5. CASE iorec.sync
    <2>1. Unsynced = tail
      BY <1>3, <1>4, <1>5
    <2> QED
      BY <1>2, <1>5, <2>1
  <1>6. CASE ~iorec.sync
    <2>1. Unsynced = w \o tail
      BY <1>4, <1>6
    <2>2. \A i \in 1..Len(w) + Len(tail) :
            (w \o tail)[i] = IF i <= Len(w) THEN w[i] ELSE tail[i - Len(w)]
      BY <1>3, ConcatProperties
    <2>3. ASSUME NEW i \in 1..Len(text) - iorec.pos
          PROVE  (w \o tail)[1 + i] = tail[i]
      <3>1. 1 + i \in 1..Len(w) + Len(tail) /\ ~(1 + i <= Len(w)) /\ (1 + i) - Len(w) = i
        BY <1>2, <1>3, Typing
      <3> QED
        BY <2>2, <3>1
    <2> QED
      BY <1>2, <1>6, <2>1, <2>3
  <1> QED
    BY <1>5, <1>6

\* Where fscanf begins to read: unless nothing but an end of line is left, behind n characters.
LEMMA UnsyncedFrom ==
    ASSUME ShownInv, ~iorec.eoff, ~iorec.speoln,
           iorec.sync => iorec.pos < Len(text)
    PROVE  \E n \in 0..Len(text) - 1 :
              /\ RestOf(iorec) = From(n)
              /\ Len(Unsynced) = Len(text) - n
              /\ \A i \in 1..Len(text) - n :
                    \/ Unsynced[i] = text[n + i]
                    \/ (ftext /\ Unsynced[i] = " " /\ text[n + i] = "nl")
  <1>0. TextInv /\ Shows(iorec) /\ WindowOf(iorec)
    BY DEF ShownInv, TextInv
  <1>1. CASE iorec.sync
    <2>1. iorec.pos \in 0..Len(text) - 1 /\ iorec.pos # Len(text)
      BY <1>0, <1>1, Typing
    <2>2. RestOf(iorec) = From(iorec.pos)
      BY <1>1, <2>1 DEF RestOf
    <2>3. Len(Unsynced) = Len(text) - iorec.pos
      BY <1>0, <1>1, UnsyncedSeq
    <2>4. \A i \in 1..Len(text) - iorec.pos : Unsynced[i] = text[iorec.pos + i]
      BY <1>0, <1>1, UnsyncedAt
    <2> QED
      BY <2>1, <2>2, <2>3, <2>4
  <1>2. CASE ~iorec.sync
    <2> DEFINE n == iorec.pos - 1
    <2>1. iorec.pos > 0
      BY <1>0, <1>2 DEF WindowOf
    <2>2. n \in 0..Len(text) - 1 /\ n + 1 = iorec.pos /\ Len(text) - iorec.pos + 1 = Len(text) - n
      <3>1. iorec.pos \in Nat /\ Len(text) \in Nat /\ iorec.pos <= Len(text)
        BY <1>0, Typing
      <3> QED
        BY <2>1, <3>1
    <2>3. RestOf(iorec) = From(n)
      BY <1>2 DEF RestOf
    <2>4. Len(Unsynced) = Len(text) - n /\ Unsynced[1] = iorec.win
      BY <1>0, <1>2, <2>2, UnsyncedSeq
    <2>5. iorec.win = text[iorec.pos] \/ (ftext /\ iorec.win = " " /\ text[iorec.pos] = "nl")
      BY <1>0, <1>2 DEF Shows
    <2> HIDE DEF n
    <2>6. ASSUME NEW i \in 1..Len(text) - n
          PROVE  \/ Unsynced[i] = text[n + i]
                 \/ (ftext /\ Unsynced[i] = " " /\ text[n + i] = "nl")
      <3>1. CASE i = 1
        BY <2>2, <2>4, <2>5, <3>1
      <3>2. CASE i # 1
        <4>1. i - 1 \in 1..Len(text) - iorec.pos /\ 1 + (i - 1) = i /\ iorec.pos + (i - 1) = n + i
          BY <1>0, <2>2, <3>2, Typing
        <4>2. Unsynced[1 + (i - 1)] = text[iorec.pos + (i - 1)]
          BY <1>0, <1>2, <4>1, UnsyncedAt
        <4> QED
          BY <4>1, <4>2
      <3> QED
        BY <3>1, <3>2
    <2> QED
      BY <2>2, <2>3, <2>4, <2>6
  <1> QED
    BY <1>1, <1>2

\* What fscanf reads and what is left agree on blanks and digits; behind it there can be the
\* end of the last line.
LEMMA UnsyncedRest ==
    ASSUME ShownInv, ftext, ~iorec.eoff
    PROVE  /\ RestOf(iorec) \in Seq(Window \cup {"eoln"})
           /\ Len(RestOf(iorec)) >= Len(Unsynced)
           /\ \A i \in 1..Len(Unsynced) :
                 /\ Unsynced[i] \in {" ", "nl"} <=> RestOf(iorec)[i] \in {" ", "eoln"}
                 /\ Unsynced[i] = "1" <=> RestOf(iorec)[i] = "1"
           /\ \A i \in 1..Len(RestOf(iorec)) : i > Len(Unsynced) => RestOf(iorec)[i] = "eoln"
  <1>0. TextInv /\ WindowOf(iorec) /\ iorec.pos <= Len(text) /\ iorec.pos \in Nat
        /\ Len(text) \in Nat
    BY Typing DEF ShownInv, TextInv
  <1>1. CASE iorec.speoln
    <2>1. iorec.pos = Len(text)
      BY <1>0, <1>1, Typing
    <2>2. CASE iorec.sync
      <3>1. RestOf(iorec) = <<>>
        BY <1>1, <2>2 DEF RestOf
      <3>2. Len(Unsynced) = 0
        BY <1>0, <2>1, <2>2, UnsyncedSeq
      <3> QED
        BY <3>1, <3>2
    <2>3. CASE ~iorec.sync
      <3>1. RestOf(iorec) = <<"eoln">>
        BY <1>1, <2>3 DEF RestOf
      <3>2. iorec.win = " "
        BY <1>0, <1>1, <2>3 DEF WindowOf
      <3>3. Len(Unsynced) = Len(text) - iorec.pos + 1 /\ Unsynced[1] = iorec.win
        BY <1>0, <2>3, UnsyncedSeq
      <3>5. Len(Unsynced) = 1
        <4>1. Len(text) - iorec.pos + 1 = 1
          BY <1>0, <2>1
        <4> QED
          BY <3>3, <4>1
      <3>7. Unsynced[1] = " "
        BY <3>2, <3>3
      <3>6. \A i \in 1..1 : i = 1
        OBVIOUS
      <3> DEFINE u == Unsynced
                 e == <<"eoln">>
      <3>8. e \in Seq(Window \cup {"eoln"}) /\ Len(e) = 1 /\ e[1] = "eoln"
        OBVIOUS
      <3>9. Len(u) = 1 /\ u[1] = " "
        BY <3>5, <3>7
      <3> HIDE DEF u, e
      <3>10. \A i \in 1..Len(u) : (u[i] \in {" ", "nl"} <=> e[i] \in {" ", "eoln"})
                                   /\ (u[i] = "1" <=> e[i] = "1")
        BY <3>6, <3>8, <3>9
      <3>11. \A i \in 1..Len(e) : i > Len(u) => e[i] = "eoln"
        BY <3>6, <3>8, <3>9
      <3>12. RestOf(iorec) = e /\ Unsynced = u
        BY <3>1 DEF u, e
      <3>13. Len(e) >= Len(u)
        <4>1. Len(e) = 1
          BY <3>8
        <4>2. Len(u) = 1
          BY <3>9
        <4> QED
          BY <4>1, <4>2
      <3> QED
        BY <3>8, <3>10, <3>11, <3>12, <3>13
    <2> QED
      BY <2>2, <2>3
  <1>2. CASE ~iorec.speoln /\ iorec.sync /\ iorec.pos = Len(text)
    <2>1. RestOf(iorec) = <<"eoln">> \/ RestOf(iorec) = <<>>
      BY <1>0, <1>2, NothingBehind DEF RestOf
    <2>2. Len(Unsynced) = 0
      BY <1>0, <1>2, UnsyncedSeq
    <2>3. CASE RestOf(iorec) = <<"eoln">>
      <3>1. <<"eoln">> \in Seq(Window \cup {"eoln"}) /\ Len(<<"eoln">>) = 1 /\ <<"eoln">>[1] = "eoln"
        OBVIOUS
      <3> QED
        BY <2>2, <2>3, <3>1
    <2>4. CASE RestOf(iorec) = <<>>
      BY <2>2, <2>4
    <2> QED
      BY <2>1, <2>3, <2>4
  <1>3. CASE ~iorec.speoln /\ (iorec.sync => iorec.pos < Len(text))
    <2>1. PICK n \in 0..Len(text) - 1 :
              /\ RestOf(iorec) = From(n)
              /\ Len(Unsynced) = Len(text) - n
              /\ \A i \in 1..Len(text) - n :
                    \/ Unsynced[i] = text[n + i]
                    \/ (ftext /\ Unsynced[i] = " " /\ text[n + i] = "nl")
      BY <1>3, UnsyncedFrom
    <2>2. n \in 0..Len(text)
      BY <1>0
    <2>3. /\ From(n) \in Seq(Window \cup {"eoln"})
          /\ Len(From(n)) = Len(text) - n + (IF ftext /\ n < Len(text) /\ text[Len(text)] # "nl" THEN 1 ELSE 0)
          /\ \A i \in 1..Len(text) - n :
                From(n)[i] = IF ftext /\ text[n + i] = "nl" THEN "eoln" ELSE text[n + i]
          /\ \A i \in 1..Len(From(n)) : i > Len(text) - n => From(n)[i] = "eoln"
      BY <1>0, <2>2, FromAt
    <2>4. ASSUME NEW i \in 1..Len(text) - n PROVE text[n + i] # "eoln"
      <3>1. text \in Seq(Char)
        BY <1>0, Zenon DEF TextInv
      <3>2. n + i \in 1..Len(text)
        BY <1>0, <2>2
      <3>3. text[n + i] \in Char
        BY <3>1, <3>2
      <3> QED
        BY <3>3, CharAssumption
    <2>5. ASSUME NEW i \in 1..Len(text) - n
          PROVE  /\ Unsynced[i] \in {" ", "nl"} <=> From(n)[i] \in {" ", "eoln"}
                 /\ Unsynced[i] = "1" <=> From(n)[i] = "1"
      <3> DEFINE c == text[n + i]
      <3>1. Unsynced[i] = c \/ (Unsynced[i] = " " /\ c = "nl")
        BY <2>1
      <3>2. From(n)[i] = IF c = "nl" THEN "eoln" ELSE c
        BY <2>3
      <3>3. c # "eoln"
        BY <2>4
      <3> HIDE DEF c
      <3> QED
        BY <3>1, <3>2, <3>3
    <2>6. Len(From(n)) >= Len(text) - n
      BY <1>0, <2>2, <2>3
    <2> QED
      BY <2>1, <2>3, <2>5, <2>6
  <1>4. iorec.pos = Len(text) \/ iorec.pos < Len(text)
    BY <1>0
  <1> QED
    BY <1>1, <1>2, <1>3, <1>4

-----------------------------------------------------------------------------
(* Every step is a step of the file of Pascal, or changes nothing of it.    *)

\* The end of the abstract file is where nothing is left.
LEMMA EofIsEmpty ==
    ASSUME TextInv, NEW r, r.eoff PROVE RestOf(r) = <<>>
  BY DEF RestOf

\* What the file of Pascal consists of stays as it is.
LEMMA FileStays ==
    ASSUME UNCHANGED file, loc' = loc
    PROVE  From(0)' = From(0) /\ From(loc)' = From(loc)
  BY DEF From, Lines, file

\* An error is one of the file of Pascal, too.
LEMMA FailMaps ==
    ASSUME NEW why \in {"past end", "bad data"}, Fails(why), mode \in {"run", "readln"},
           why = "past end" => Rest = <<>>,
           why = "bad data" =>
               /\ mode # "readln"
               /\ \E i \in 1..Len(Rest) : /\ Rest[i] \notin {" ", "eoln"} \cup {"1"}
                                          /\ \A j \in 1..i - 1 : Rest[j] \in {" ", "eoln"}
    PROVE  Lazy!Next
  <1>1. /\ UNCHANGED <<file, iorec, loc, answer>> /\ mode' = why
    BY DEF Fails
  <1>2. Rest' = Rest /\ From(0)' = From(0) /\ From(loc)' = From(loc)
    BY <1>1, SameRest, FileStays
  <1>3. (IF mode' \in {"past end", "bad data"} THEN mode' ELSE "") = why
    BY <1>1
  <1>4. (IF mode \in {"past end", "bad data"} THEN mode ELSE "") = ""
    OBVIOUS
  <1>5. (mode' = "readln") = FALSE
    BY <1>1
  <1>6. CASE why = "past end"
    <2>1. Lazy!PastEnd
      BY <1>3, <1>6 DEF Lazy!PastEnd
    <2>2. Lazy!Fail
      BY <1>1, <1>2, <1>5, <2>1 DEF Lazy!Fail
    <2> QED
      BY <1>4, <2>2 DEF Lazy!Next
  <1>7. CASE why = "bad data"
    <2>1. Lazy!BadData
      BY <1>3, <1>7 DEF Lazy!BadData
    <2>2. Lazy!Fail
      BY <1>1, <1>2, <1>5, <2>1 DEF Lazy!Fail
    <2> QED
      BY <1>4, <2>2 DEF Lazy!Next
  <1> QED
    BY <1>6, <1>7

LEMMA WiderSeq == ASSUME NEW S, NEW T, NEW s \in Seq(S) PROVE s \in Seq(S \cup T)
  OBVIOUS

\* Past the end of the file, in a call that asks for the next component.
LEMMA PastEndMaps ==
    ASSUME TextInv, NEW why, why = "past end", Fails(why), mode \in {"run", "readln"},
           PastEnd(iorec) \/ IOSYNC(iorec).eoff
    PROVE  Lazy!Next
  <1>1. Rest = <<>>
    <2>1. CASE PastEnd(iorec)
      BY <2>1, RestNow, EofIsEmpty DEF PastEnd
    <2>2. CASE ~PastEnd(iorec) /\ IOSYNC(iorec).eoff
      BY <2>2, RestNow, SyncRest, EofIsEmpty
    <2> QED
      BY <2>1, <2>2
  <1>2. why \in {"past end", "bad data"} /\ why # "bad data"
    OBVIOUS
  <1> QED
    BY <1>1, <1>2, FailMaps

\* A call that is no error, and no readln.
LEMMA CallMaps ==
    ASSUME UNCHANGED <<file, mode>>, mode = "run",
           UNCHANGED <<From(0), mode = "readln",
                       IF mode \in {"past end", "bad data"} THEN mode ELSE "">> =>
              \/ Lazy!Reset \/ Lazy!Eof \/ Lazy!Eoln \/ Lazy!Look \/ Lazy!Get \/ Lazy!Read
              \/ Lazy!ReadInt \/ Lazy!Tell \/ Lazy!Seek
    PROVE  Lazy!Next
  <1>1. From(0)' = From(0)
    BY FromNext
  <1>2. UNCHANGED <<From(0), mode = "readln",
                    IF mode \in {"past end", "bad data"} THEN mode ELSE "">>
    BY <1>1
  <1>3. \/ Lazy!Reset \/ Lazy!Eof \/ Lazy!Eoln \/ Lazy!Look \/ Lazy!Get \/ Lazy!Read
        \/ Lazy!ReadInt \/ Lazy!Tell \/ Lazy!Seek
    BY <1>2
  <1>4. (IF mode \in {"past end", "bad data"} THEN mode ELSE "") = "" /\ mode # "readln"
    OBVIOUS
  <1> QED
    BY <1>3, <1>4 DEF Lazy!Next

\* What FullWindow says of the window that IOSYNC fills.
LEMMA NextComponent ==
    ASSUME ShownInv, ~PastEnd(iorec), ~IOSYNC(iorec).eoff
    PROVE  /\ Rest # <<>>
           /\ IOSYNC(iorec).win = Lazy!Shown(Rest[1])
           /\ ftext => (Rest[1] = "eoln" <=> IOSYNC(iorec).eoln)
           /\ RestOf([IOSYNC(iorec) EXCEPT !.sync = TRUE]) = SubSeq(Rest, 2, Len(Rest))
  <1>1. TextInv /\ Shows(iorec)
    BY DEF ShownInv
  <1>2. WindowOf(IOSYNC(iorec)) /\ ~IOSYNC(iorec).sync /\ Shows(IOSYNC(iorec))
    BY <1>1, SyncWindow, SyncShows
  <1>3. RestOf(IOSYNC(iorec)) = Rest
    BY <1>1, SyncRest, RestNow
  <1> DEFINE r == IOSYNC(iorec)
             q == [IOSYNC(iorec) EXCEPT !.sync = TRUE]
  <1>4. q = [r EXCEPT !.sync = TRUE]
    OBVIOUS
  <1>5. WindowOf(r) /\ ~r.sync /\ Shows(r) /\ ~r.eoff /\ RestOf(r) = Rest
    BY <1>2, <1>3
  <1> HIDE DEF r, q
  <1>6. /\ RestOf(r) # <<>>
        /\ r.win = IF RestOf(r)[1] = "eoln" THEN " " ELSE RestOf(r)[1]
        /\ ftext => (RestOf(r)[1] = "eoln" <=> r.eoln)
        /\ RestOf(q) = SubSeq(RestOf(r), 2, Len(RestOf(r)))
    BY <1>1, <1>4, <1>5, FullWindow
  <1>7. /\ Rest # <<>>
        /\ r.win = Lazy!Shown(Rest[1])
        /\ ftext => (Rest[1] = "eoln" <=> r.eoln)
        /\ RestOf(q) = SubSeq(Rest, 2, Len(Rest))
    BY <1>5, <1>6 DEF Lazy!Shown
  <1> QED
    BY <1>7 DEF r, q

LEMMA TEOFMaps == ASSUME ShownInv, TEOF PROVE Lazy!Next
  <1> DEFINE r == IF iorec.eoff THEN iorec ELSE IOSYNC(iorec)
  <1>1. /\ mode = "run" /\ iorec' = r /\ answer' = Bool(r.eoff)
        /\ UNCHANGED <<file, loc, mode>>
    BY DEF TEOF
  <1>2. RestOf(r) = Rest /\ (Rest = <<>> <=> r.eoff)
    <2>1. CASE iorec.eoff
      BY <2>1, RestNow, EofIsEmpty DEF ShownInv
    <2>2. CASE ~iorec.eoff
      <3>1. ~PastEnd(iorec) /\ r = IOSYNC(iorec)
        BY <2>2 DEF PastEnd
      <3> HIDE DEF r
      <3>2. RestOf(r) = Rest
        BY <3>1, RestNow, SyncRest DEF ShownInv
      <3>3. CASE r.eoff
        BY <3>2, <3>3, EofIsEmpty DEF ShownInv
      <3>4. CASE ~r.eoff
        BY <3>1, <3>2, <3>4, NextComponent
      <3> QED
        BY <3>2, <3>3, <3>4
    <2> QED
      BY <2>1, <2>2
  <1> HIDE DEF r
  <1>3. Rest' = Rest /\ From(loc)' = From(loc)
    BY <1>1, <1>2, RestNext, FileStays
  <1>4. answer' = <<IF Rest = <<>> THEN "true" ELSE "false">>
    BY <1>1, <1>2 DEF Bool
  <1>5. UNCHANGED <<From(0), mode = "readln",
                    IF mode \in {"past end", "bad data"} THEN mode ELSE "">> => Lazy!Eof
    BY <1>3, <1>4 DEF Lazy!Eof
  <1> QED
    BY <1>1, <1>5, CallMaps

LEMMA TEOLNMaps == ASSUME ShownInv, TEOLN PROVE Lazy!Next
  <1>1. CASE Fails("past end")
    BY <1>1, PastEndMaps DEF TEOLN, ShownInv, Fails
  <1>2. CASE ~Fails("past end")
    <2>1. /\ mode = "run" /\ ftext /\ ~PastEnd(iorec) /\ ~IOSYNC(iorec).eoff
          /\ iorec' = IOSYNC(iorec) /\ answer' = Bool(iorec'.eoln)
          /\ UNCHANGED <<file, loc, mode>>
      BY <1>2 DEF TEOLN
    <2>2. Rest' = Rest /\ From(loc)' = From(loc)
      BY <2>1, RestNext, RestNow, SyncRest, FileStays DEF ShownInv
    <2>3. Rest # <<>> /\ answer' = <<IF Rest[1] = "eoln" THEN "true" ELSE "false">>
      BY <2>1, NextComponent DEF Bool
    <2>4. UNCHANGED <<From(0), mode = "readln",
                      IF mode \in {"past end", "bad data"} THEN mode ELSE "">> => Lazy!Eoln
      BY <2>2, <2>3 DEF Lazy!Eoln
    <2> QED
      BY <2>1, <2>4, CallMaps
  <1> QED
    BY <1>1, <1>2

LEMMA FNILMaps == ASSUME ShownInv, FNIL PROVE Lazy!Next
  <1>1. CASE Fails("past end")
    <2>1. PastEnd(iorec)
      BY <1>1 DEF FNIL, Fails
    <2> QED
      BY <1>1, <2>1, PastEndMaps DEF FNIL, ShownInv
  <1>2. CASE ~Fails("past end")
    <2>1. /\ mode = "run" /\ ~PastEnd(iorec)
          /\ iorec' = IOSYNC(iorec) /\ answer' = <<iorec'.win>>
          /\ UNCHANGED <<file, loc, mode>>
      BY <1>2 DEF FNIL
    <2>2. Rest' = Rest /\ From(loc)' = From(loc)
      BY <2>1, RestNext, RestNow, SyncRest, FileStays DEF ShownInv
    <2>3. iorec'.win \in Window
      BY <2>1, SyncWindow DEF ShownInv, WindowOf, Iorec
    <2>4. Rest # <<>> => iorec'.win = Lazy!Shown(Rest[1])
      <3>1. CASE IOSYNC(iorec).eoff
        BY <2>1, <3>1, RestNow, SyncRest, EofIsEmpty DEF ShownInv
      <3>2. CASE ~IOSYNC(iorec).eoff
        BY <2>1, <3>2, NextComponent
      <3> QED
        BY <3>1, <3>2
    <2>5. UNCHANGED <<From(0), mode = "readln",
                      IF mode \in {"past end", "bad data"} THEN mode ELSE "">> => Lazy!Look
      BY <2>1, <2>2, <2>3, <2>4 DEF Lazy!Look
    <2> QED
      BY <2>1, <2>5, CallMaps
  <1> QED
    BY <1>1, <1>2

LEMMA GETMaps == ASSUME ShownInv, GET PROVE Lazy!Next
  <1>1. CASE Fails("past end")
    BY <1>1, PastEndMaps DEF GET, ShownInv, Fails
  <1>2. CASE ~Fails("past end")
    <2>1. /\ mode = "run" /\ ~PastEnd(iorec) /\ ~IOSYNC(iorec).eoff
          /\ iorec' = [IOSYNC(iorec) EXCEPT !.sync = TRUE]
          /\ UNCHANGED <<file, loc, mode, answer>>
      BY <1>2 DEF GET
    <2>2. Rest # <<>> /\ Rest' = SubSeq(Rest, 2, Len(Rest)) /\ From(loc)' = From(loc)
      BY <2>1, RestNext, NextComponent, FileStays
    <2>3. Lazy!Drop(1)
      BY <2>2 DEF Lazy!Drop
    <2>4. UNCHANGED <<From(0), mode = "readln",
                      IF mode \in {"past end", "bad data"} THEN mode ELSE "">> => Lazy!Get
      BY <2>1, <2>2, <2>3 DEF Lazy!Get
    <2> QED
      BY <2>1, <2>4, CallMaps
  <1> QED
    BY <1>1, <1>2

LEMMA READCMaps == ASSUME ShownInv, READC PROVE Lazy!Next
  <1>1. CASE Fails("past end")
    BY <1>1, PastEndMaps DEF READC, ShownInv, Fails
  <1>2. CASE ~Fails("past end")
    <2>1. /\ mode = "run" /\ ~PastEnd(iorec) /\ ~IOSYNC(iorec).eoff
          /\ iorec' = [IOSYNC(iorec) EXCEPT !.sync = TRUE] /\ answer' = <<iorec'.win>>
          /\ UNCHANGED <<file, loc, mode>>
      BY <1>2 DEF READC
    <2>2. Rest # <<>> /\ Rest' = SubSeq(Rest, 2, Len(Rest)) /\ From(loc)' = From(loc)
      BY <2>1, RestNext, NextComponent, FileStays
    <2>3. Lazy!Drop(1)
      BY <2>2 DEF Lazy!Drop
    <2>4. iorec'.win = IOSYNC(iorec).win
      <3>1. IOSYNC(iorec) \in Iorec
        BY <2>1, SyncWindow DEF WindowOf, ShownInv
      <3> QED
        BY <2>1, <3>1 DEF Iorec
    <2>5. answer' = <<Lazy!Shown(Rest[1])>>
      BY <2>1, <2>4, NextComponent
    <2>6. UNCHANGED <<From(0), mode = "readln",
                      IF mode \in {"past end", "bad data"} THEN mode ELSE "">> => Lazy!Read
      BY <2>1, <2>2, <2>3, <2>5 DEF Lazy!Read
    <2> QED
      BY <2>1, <2>6, CallMaps
  <1> QED
    BY <1>1, <1>2

LEMMA READLNMaps == ASSUME READLN PROVE Lazy!Next
  <1>1. /\ mode = "run" /\ mode' = "readln" /\ UNCHANGED <<file, iorec, loc, answer>>
    BY DEF READLN
  <1>2. Rest' = Rest /\ From(0)' = From(0) /\ From(loc)' = From(loc)
    BY <1>1, SameRest, FileStays
  <1>3. Lazy!Readln
    BY <1>1, <1>2 DEF Lazy!Readln
  <1> QED
    BY <1>1, <1>3 DEF Lazy!Next

\* One round of the loop skips one component; at the end of the file it skips none.
LEMMA ReadlnLoopMaps == ASSUME ShownInv, ReadlnLoop PROVE Lazy!Next \/ UNCHANGED Lazy!vars
  <1>1. CASE Fails("past end")
    <2>1. PastEnd(iorec)
      BY <1>1 DEF ReadlnLoop, Fails
    <2> QED
      BY <1>1, <2>1, PastEndMaps DEF ReadlnLoop, ShownInv
  <1>2. CASE ~Fails("past end")
    <2> DEFINE r == IOSYNC(iorec)
    <2>1. /\ mode = "readln" /\ ~PastEnd(iorec)
          /\ iorec' = [r EXCEPT !.sync = TRUE]
          /\ mode' = IF iorec'.eoln THEN "run" ELSE "readln"
          /\ UNCHANGED <<file, loc, answer>>
      BY <1>2 DEF ReadlnLoop
    <2>2. From(0)' = From(0) /\ From(loc)' = From(loc)
      BY <2>1, FileStays
    <2>3. TextInv /\ ftext /\ r \in Iorec /\ Shows(r)
      BY <2>1, SyncWindow, SyncShows DEF WindowOf, ShownInv
    <2>4. iorec'.eoln = r.eoln /\ iorec'.eoff = r.eoff
      <3> HIDE DEF r
      <3> QED
        BY <2>1, <2>3 DEF Iorec
    <2>5. CASE r.eoff
      <3>1. ~r.eoln
        BY <2>3, <2>5 DEF Shows
      <3>2. mode' = mode
        BY <2>1, <2>4, <3>1
      <3>3. Rest' = <<>>
        BY <2>1, <2>3, <2>4, <2>5, RestNext, EofIsEmpty DEF RestOf
      <3>4. Rest = <<>>
        BY <2>1, <2>3, <2>5, RestNow, SyncRest, EofIsEmpty
      <3> QED
        BY <2>1, <2>2, <3>2, <3>3, <3>4 DEF Lazy!vars
    <2>6. CASE ~r.eoff
      <3>1. Rest # <<>> /\ Rest' = SubSeq(Rest, 2, Len(Rest))
        BY <2>1, <2>6, RestNext, NextComponent
      <3>2. (mode' = "readln") = (Rest[1] # "eoln")
        <4>1. Rest[1] = "eoln" <=> r.eoln
          BY <2>1, <2>3, <2>6, NextComponent
        <4> HIDE DEF r
        <4> QED
          BY <2>1, <2>4, <4>1
      <3>3. Lazy!Drop(1)
        BY <3>1 DEF Lazy!Drop
      <3>4. UNCHANGED (IF mode \in {"past end", "bad data"} THEN mode ELSE "")
            /\ (IF mode \in {"past end", "bad data"} THEN mode ELSE "") = ""
        BY <2>1
      <3>5. Lazy!Skip
        BY <2>1, <2>2, <3>1, <3>2, <3>3, <3>4 DEF Lazy!Skip
      <3> QED
        BY <2>1, <3>4, <3>5 DEF Lazy!Next
    <2> QED
      BY <2>5, <2>6
  <1> QED
    BY <1>1, <1>2

LEMMA RESETMaps == ASSUME ShownInv, ~ResetAnywhere, RESET PROVE Lazy!Next
  <1>0. iorec \in Iorec /\ ftext \in BOOLEAN
    BY Typing DEF ShownInv
  <1>1. mode = "run" /\ UNCHANGED <<file, loc, mode, answer>>
    BY DEF RESET
  <1>2. iorec'.pos = 0 /\ iorec'.sync /\ iorec'.eoln = ftext /\ ~iorec'.eoff /\ ~iorec'.speoln
    BY <1>0 DEF RESET, Iorec
  <1>3. RestOf(iorec') = From(0)
    BY <1>2 DEF RestOf
  <1>4. Rest' = From(0) /\ From(loc)' = From(loc)
    BY <1>1, <1>3, RestNext, FileStays
  <1>5. UNCHANGED <<From(0), mode = "readln",
                    IF mode \in {"past end", "bad data"} THEN mode ELSE "">> => Lazy!Reset
    BY <1>1, <1>4 DEF Lazy!Reset
  <1> QED
    BY <1>1, <1>5, CallMaps

LEMMA TELLMaps == ASSUME ShownInv, ~TellAnywhere, TELL PROVE Lazy!Next
  <1>0. TextInv /\ iorec \in Iorec /\ Len(text) \in Nat /\ iorec.pos \in Nat
    BY Typing DEF ShownInv
  <1>1. mode = "run" /\ UNCHANGED <<file, mode, answer>> /\ text' = text
    BY DEF TELL, file
  <1>2. /\ ~iorec.eoff /\ ~iorec.speoln
        /\ loc' = IF iorec.sync THEN iorec.pos ELSE iorec.pos - 1
        /\ loc' \in 0..Len(text)
        /\ iorec.sync => iorec.pos < Len(text)
        /\ iorec' = [iorec EXCEPT !.pos = loc', !.sync = TRUE]
    BY <1>0, TELLPlace
  <1>3. loc' < Len(text)
    <2>1. iorec.pos <= Len(text)
      BY <1>0, Typing
    <2> QED
      BY <1>0, <1>2, <2>1
  <1>4. iorec'.pos = loc' /\ iorec'.sync /\ ~iorec'.eoff /\ ~iorec'.speoln
    BY <1>0, <1>2 DEF Iorec
  <1>5. Rest = From(loc')
    <2>1. CASE iorec.sync
      <3>1. iorec.pos # Len(text)
        BY <1>0, <1>2, <2>1
      <3> QED
        BY <1>2, <2>1, <3>1 DEF Rest
    <2>2. CASE ~iorec.sync
      BY <1>2, <2>2 DEF Rest
    <2> QED
      BY <2>1, <2>2
  <1>6. Rest' = From(loc')
    <2>1. iorec'.pos # Len(text)
      BY <1>0, <1>3, <1>4
    <2>2. RestOf(iorec') = From(iorec'.pos)
      BY <1>4, <2>1 DEF RestOf
    <2> QED
      BY <1>1, <1>4, <2>2, RestNext
  <1>7. From(loc)' = From(loc')
    BY <1>1 DEF From, Lines, file
  <1>8. UNCHANGED <<From(0), mode = "readln",
                    IF mode \in {"past end", "bad data"} THEN mode ELSE "">> => Lazy!Tell
    BY <1>1, <1>5, <1>6, <1>7 DEF Lazy!Tell
  <1> QED
    BY <1>1, <1>8, CallMaps

LEMMA SEEKMaps == ASSUME ShownInv, ~TellAnywhere, SEEK PROVE Lazy!Next
  <1>0. iorec \in Iorec /\ Len(text) \in Nat /\ loc \in Nat
    BY Typing DEF ShownInv
  <1>1. mode = "run" /\ loc < Len(text) /\ UNCHANGED <<file, loc, mode, answer>>
    BY DEF SEEK
  <1>2. iorec'.pos = loc /\ iorec'.sync /\ ~iorec'.eoff /\ ~iorec'.speoln
    BY <1>0 DEF SEEK, Iorec
  <1>3. iorec'.pos # Len(text)
    BY <1>0, <1>1, <1>2
  <1>4. RestOf(iorec') = From(loc)
    BY <1>2, <1>3 DEF RestOf
  <1>5. Rest' = From(loc) /\ From(loc)' = From(loc)
    BY <1>1, <1>4, RestNext, FileStays
  <1>6. UNCHANGED <<From(0), mode = "readln",
                    IF mode \in {"past end", "bad data"} THEN mode ELSE "">> => Lazy!Seek
    BY <1>1, <1>5 DEF Lazy!Seek
  <1> QED
    BY <1>1, <1>6, CallMaps

\* What READ4 takes for blanks, and for digits.
BlankRun == Run(Unsynced, 0, {" ", "nl"})
DigitRun == Run(Unsynced, BlankRun, {"1"})

LEMMA READ4Runs ==
    ASSUME ShownInv
    PROVE  /\ Unsynced \in Seq(Window) /\ Len(Unsynced) \in Nat
           /\ BlankRun \in 0..Len(Unsynced) /\ DigitRun \in 0..Len(Unsynced) - BlankRun
           /\ \A i \in 1..BlankRun : Unsynced[i] \in {" ", "nl"}
           /\ BlankRun < Len(Unsynced) => Unsynced[BlankRun + 1] \notin {" ", "nl"}
           /\ \A i \in BlankRun + 1..BlankRun + DigitRun : Unsynced[i] = "1"
           /\ BlankRun + DigitRun < Len(Unsynced) => Unsynced[BlankRun + DigitRun + 1] # "1"
  <1> DEFINE s == Unsynced
             b == BlankRun
             d == DigitRun
             z == 0
             B == {" ", "nl"}
             D == {"1"}
  <1>0. s \in Seq(Window) /\ Len(s) \in Nat
    BY UnsyncedSeq DEF ShownInv
  <1>1. z \in 0..Len(s) /\ z = 0
    BY <1>0
  <1>2. b = Run(s, z, B) /\ d = Run(s, b, D)
    BY DEF BlankRun, DigitRun
  <1> HIDE DEF s, b, d, z, B, D
  <1>3. /\ b \in 0..Len(s) - z
        /\ \A i \in z + 1..z + b : s[i] \in B
        /\ z + b < Len(s) => s[z + b + 1] \notin B
    BY <1>0, <1>1, <1>2, RunIsLongest
  <1>4. /\ b \in 0..Len(s)
        /\ \A i \in 1..b : s[i] \in B
        /\ b < Len(s) => s[b + 1] \notin B
    BY <1>0, <1>1, <1>3
  <1>5. /\ d \in 0..Len(s) - b
        /\ \A i \in b + 1..b + d : s[i] \in D
        /\ b + d < Len(s) => s[b + d + 1] \notin D
    BY <1>0, <1>2, <1>4, RunIsLongest
  <1> QED
    BY <1>0, <1>4, <1>5 DEF s, b, d, B, D

\* Nothing but blanks is left.
LEMMA BlankRest ==
    ASSUME ShownInv, ftext, ~iorec.eoff, BlankRun = Len(Unsynced)
    PROVE  \A i \in 1..Len(Rest) : Rest[i] \in {" ", "eoln"}
  <1> DEFINE s == Unsynced
  <1>1. Len(s) \in Nat /\ \A i \in 1..Len(s) : s[i] \in {" ", "nl"}
    BY READ4Runs
  <1>2. /\ Rest \in Seq(Window \cup {"eoln"}) /\ Len(Rest) >= Len(s)
        /\ \A i \in 1..Len(s) : s[i] \in {" ", "nl"} <=> Rest[i] \in {" ", "eoln"}
        /\ \A i \in 1..Len(Rest) : i > Len(s) => Rest[i] = "eoln"
    BY RestNow, UnsyncedRest
  <1> HIDE DEF s
  <1>3. Len(Rest) \in Nat /\ Len(s) \in Nat
    BY <1>1, <1>2, LenProperties
  <1> SUFFICES ASSUME NEW i \in 1..Len(Rest) PROVE Rest[i] \in {" ", "eoln"}
    OBVIOUS
  <1>4. i \in 1..Len(s) \/ i > Len(s)
    BY <1>3
  <1> QED
    BY <1>1, <1>2, <1>4

\* Behind the blanks there is something that is no digit.
LEMMA BadRest ==
    ASSUME ShownInv, ftext, ~iorec.eoff, BlankRun < Len(Unsynced), DigitRun = 0
    PROVE  \E i \in 1..Len(Rest) : /\ Rest[i] \notin {" ", "eoln"} \cup {"1"}
                                   /\ \A j \in 1..i - 1 : Rest[j] \in {" ", "eoln"}
  <1> DEFINE s == Unsynced
             b == BlankRun
             d == DigitRun
  <1>1. Len(s) \in Nat /\ b \in 0..Len(s)
    BY READ4Runs
  <1>2. \A i \in 1..b : s[i] \in {" ", "nl"}
    BY READ4Runs
  <1>3. s[b + 1] \notin {" ", "nl"}
    BY READ4Runs
  <1>4. b + d < Len(s) => s[b + d + 1] # "1"
    BY READ4Runs
  <1>5. b < Len(s) /\ d = 0
    OBVIOUS
  <1>6. Rest \in Seq(Window \cup {"eoln"}) /\ Len(Rest) >= Len(s)
    BY RestNow, UnsyncedRest
  <1>7. \A i \in 1..Len(s) : /\ s[i] \in {" ", "nl"} <=> Rest[i] \in {" ", "eoln"}
                             /\ s[i] = "1" <=> Rest[i] = "1"
    BY RestNow, UnsyncedRest
  <1> HIDE DEF s, b, d
  <1>8. Len(Rest) \in Nat
    BY <1>6, LenProperties
  <1>9. b + 1 \in 1..Len(s) /\ (b + 1) - 1 = b /\ b + 1 \in 1..Len(Rest)
        /\ b + d = b /\ \A j \in 1..b : j \in 1..Len(s)
    BY <1>1, <1>5, <1>6, <1>8
  <1>10. s[b + 1] # "1"
    BY <1>4, <1>5, <1>9
  <1>11. Rest[b + 1] \notin {" ", "eoln"} \cup {"1"}
    BY <1>3, <1>7, <1>9, <1>10
  <1>12. \A j \in 1..(b + 1) - 1 : Rest[j] \in {" ", "eoln"}
    BY <1>2, <1>7, <1>9
  <1> QED
    BY <1>9, <1>11, <1>12, Zenon

\* The errors of READ4 are those of the file, but for the one where blanks are left.
LEMMA READ4Fails ==
    ASSUME ShownInv, READ4, NEW why \in {"past end", "bad data"}, Fails(why)
    PROVE  Lazy!Next \/ BlanksPastEnd
  <1>1. /\ mode = "run" /\ ftext
        /\ \/ (why = "past end" /\ (iorec.eoff \/ BlankRun = Len(Unsynced)))
           \/ (why = "bad data" /\ ~iorec.eoff /\ DigitRun = 0 /\ BlankRun < Len(Unsynced))
    BY DEF READ4, Fails, BlankRun, DigitRun
  <1>2. CASE iorec.eoff /\ why = "past end"
    <2>1. TextInv /\ mode \in {"run", "readln"}
      BY <1>1 DEF ShownInv
    <2>2. PastEnd(iorec) \/ IOSYNC(iorec).eoff
      BY <1>2 DEF PastEnd, IOSYNC
    <2> QED
      BY <1>2, <2>1, <2>2, PastEndMaps
  <1>3. CASE ~iorec.eoff /\ why = "past end"
    <2>1. \A i \in 1..Len(Rest) : Rest[i] \in {" ", "eoln"}
      BY <1>1, <1>3, BlankRest
    <2>2. CASE Rest = <<>>
      BY <1>1, <1>3, <2>2, FailMaps
    <2>3. CASE Rest # <<>>
      BY <1>3, <2>1, <2>3 DEF BlanksPastEnd, OnlyBlanks, Fails
    <2> QED
      BY <2>2, <2>3
  <1>4. CASE why = "bad data"
    <2>1. \E i \in 1..Len(Rest) : /\ Rest[i] \notin {" ", "eoln"} \cup {"1"}
                                  /\ \A j \in 1..i - 1 : Rest[j] \in {" ", "eoln"}
      BY <1>1, <1>4, BadRest
    <2> QED
      BY <1>1, <1>4, <2>1, FailMaps
  <1> QED
    BY <1>2, <1>3, <1>4

\* A number ends in the stream where it ends in what is left.
LEMMA READ4Drops ==
    ASSUME ShownInv, ftext, ~iorec.eoff, ~iorec.speoln,
           NEW k \in 1..Len(Unsynced), Unsynced[k] = "1",
           NEW q, q = [iorec EXCEPT !.sync = TRUE, !.eoln = FALSE,
                                    !.pos = Len(text) - (Len(Unsynced) - k)]
    PROVE  RestOf(q) = SubSeq(Rest, k + 1, Len(Rest))
  <1>0. TextInv /\ iorec \in Iorec
    BY Typing DEF ShownInv
  <1>n. Len(text) \in Nat /\ iorec.pos \in Nat /\ iorec.pos <= Len(text)
    BY <1>0, Typing
  <1>1. iorec.sync => iorec.pos < Len(text)
    <2>1. iorec.sync => Len(Unsynced) = Len(text) - iorec.pos
      BY <1>0, UnsyncedSeq
    <2>2. iorec.sync => k \in 1..Len(text) - iorec.pos
      BY <2>1
    <2> QED
      BY <1>n, <2>2
  <1>2. PICK n \in 0..Len(text) - 1 :
              /\ RestOf(iorec) = From(n)
              /\ Len(Unsynced) = Len(text) - n
              /\ \A i \in 1..Len(text) - n :
                    \/ Unsynced[i] = text[n + i]
                    \/ (ftext /\ Unsynced[i] = " " /\ text[n + i] = "nl")
    BY <1>1, UnsyncedFrom
  <1>u. Len(Unsynced) = Len(text) - n
    BY <1>2
  <1>3. k \in Nat /\ n \in 0..Len(text) /\ n \in Nat /\ Len(text) - (Len(Unsynced) - k) = n + k
        /\ n + k <= Len(text) /\ k \in 1..Len(text) - n
    BY <1>n, <1>u
  <1>4. q.pos = n + k /\ q.sync /\ ~q.eoln /\ ~q.eoff /\ ~q.speoln
    <2>1. q = [iorec EXCEPT !.sync = TRUE, !.eoln = FALSE, !.pos = n + k]
      BY <1>3
    <2> QED
      BY <1>0, <2>1 DEF Iorec
  <1>5. Rest = From(n)
    BY <1>2, RestNow
  <1>6. CASE n + k < Len(text)
    <2>1. n + k # Len(text)
      BY <1>3, <1>n, <1>6
    <2>2. RestOf(q) = From(n + k)
      BY <1>4, <2>1 DEF RestOf
    <2>3. From(n + k) = SubSeq(From(n), k + 1, Len(From(n)))
      BY <1>0, <1>3, <1>6, FromDrop
    <2> QED
      BY <1>5, <2>2, <2>3
  <1>7. CASE n + k = Len(text)
    <2>1. text[n + k] = "1"
      BY <1>2, <1>3
    <2>2. text[Len(text)] # "nl"
      BY <1>7, <2>1
    <2>3. SubSeq(From(n), Len(text) - n + 1, Len(From(n))) = <<"eoln">>
      BY <1>0, <2>2, FromDropLast
    <2>4. Len(text) - n + 1 = k + 1
      BY <1>n, <1>3, <1>7
    <2>5. RestOf(q) = <<"eoln">>
      BY <1>4, <1>7 DEF RestOf
    <2> QED
      BY <1>5, <2>3, <2>4, <2>5
  <1>8. n + k < Len(text) \/ n + k = Len(text)
    <2>1. k \in Nat /\ n \in Nat /\ n + k <= Len(text)
      BY <1>3
    <2> QED
      BY <1>n, <2>1
  <1> QED
    BY <1>6, <1>7, <1>8

LEMMA READ4Maps == ASSUME ShownInv, READ4 PROVE Lazy!Next \/ BlanksPastEnd
  <1>1. CASE Fails("past end") \/ Fails("bad data")
    <2>1. \E why \in {"past end", "bad data"} : Fails(why)
      BY <1>1
    <2> QED
      BY <2>1, READ4Fails
  <1>2. CASE ~(Fails("past end") \/ Fails("bad data"))
    <2> DEFINE s == Unsynced
               b == BlankRun
               d == DigitRun
    <2>1. /\ mode = "run" /\ ftext /\ ~iorec.eoff /\ d > 0
          /\ iorec' = [iorec EXCEPT !.sync = TRUE, !.eoln = FALSE,
                           !.pos = Len(text) - (Len(s) - b - d)]
          /\ answer' = SubSeq(s, b + 1, b + d)
          /\ UNCHANGED <<file, loc, mode>>
      BY <1>2 DEF READ4, BlankRun, DigitRun
    <2> DEFINE k == b + d
    <2>2. Len(s) \in Nat /\ b \in 0..Len(s) /\ d \in 0..Len(s) - b
      BY READ4Runs
    <2>3. /\ s \in Seq(Window)
          /\ \A i \in 1..b : s[i] \in {" ", "nl"}
          /\ \A i \in b + 1..k : s[i] = "1"
          /\ k < Len(s) => s[k + 1] # "1"
      BY READ4Runs
    <2>s. s = Unsynced
      OBVIOUS
    <2> HIDE DEF s, b, d
    <2>4. /\ b \in Nat /\ d \in Nat /\ k \in Nat /\ k \in 1..Len(s) /\ k \in b + 1..k
          /\ Len(s) - b - d = Len(s) - k /\ b < k /\ k <= Len(s)
      <3>1. d > 0
        BY <2>1
      <3> QED
        BY <2>2, <3>1
    <2>5. Rest \in Seq(Window \cup {"eoln"}) /\ Len(Rest) \in Nat /\ Len(Rest) >= Len(s)
      <3>1. Rest \in Seq(Window \cup {"eoln"}) /\ Len(Rest) >= Len(s)
        BY <2>1, <2>s, RestNow, UnsyncedRest
      <3>2. Len(Rest) \in Nat
        BY <3>1, Zenon, LenProperties
      <3> QED
        BY <3>1, <3>2
    <2>6. \A i \in 1..Len(s) : /\ s[i] \in {" ", "nl"} <=> Rest[i] \in {" ", "eoln"}
                               /\ s[i] = "1" <=> Rest[i] = "1"
      BY <2>1, <2>s, RestNow, UnsyncedRest
    <2>7. \A i \in 1..Len(Rest) : i > Len(s) => Rest[i] = "eoln"
      BY <2>1, <2>s, RestNow, UnsyncedRest
    <2>8. s[k] = "1" /\ Rest[k] = "1"
      BY <2>3, <2>4, <2>6, Zenon
    <2>e. /\ iorec' = [iorec EXCEPT !.sync = TRUE, !.eoln = FALSE,
                                    !.pos = Len(text) - (Len(s) - k)]
          /\ answer' = SubSeq(s, b + 1, k)
      BY <2>1, <2>4
    <2> HIDE DEF k
    <2>9. Len(Rest) >= Len(s) /\ k \in 1..Len(Rest) /\ k \in 0..Len(Rest) /\ b \in 0..Len(Rest)
          /\ (\A i \in 1..b : i \in 1..Len(s))
          /\ (\A i \in b + 1..k : i \in 1..Len(s) /\ i \in 1..Len(Rest))
      <3>1. Len(Rest) \in Nat /\ Len(Rest) >= Len(s)
        BY <2>5
      <3> QED
        BY <2>2, <2>4, <3>1
    <2>10. ~iorec.speoln
      <3>1. SUFFICES ASSUME iorec.speoln PROVE FALSE
        OBVIOUS
      <3>2. Rest = IF iorec.sync THEN <<>> ELSE <<"eoln">>
        BY <2>1, <3>1, RestNow DEF RestOf
      <3>3. k \in 1..Len(Rest)
        BY <2>9
      <3>4. CASE iorec.sync
        <4>1. Len(Rest) = 0
          BY <3>2, <3>4
        <4> QED
          BY <3>3, <4>1
      <3>5. CASE ~iorec.sync
        <4>1. Len(Rest) = 1 /\ Rest[1] = "eoln"
          BY <3>2, <3>5
        <4>2. k = 1
          <5>1. Len(Rest) = 1
            BY <4>1
          <5> QED
            BY <3>3, <5>1
        <4> QED
          BY <2>8, <4>1, <4>2
      <3> QED
        BY <3>4, <3>5
    <2>11. RestOf(iorec') = SubSeq(Rest, k + 1, Len(Rest))
      <3>1. iorec' = [iorec EXCEPT !.sync = TRUE, !.eoln = FALSE,
                                   !.pos = Len(text) - (Len(Unsynced) - k)]
        BY <2>e, <2>s
      <3>2. Unsynced[k] = "1" /\ k \in 1..Len(Unsynced)
        BY <2>4, <2>8, <2>s
      <3>3. ftext /\ ~iorec.eoff
        BY <2>1
      <3> QED
        BY <2>10, <3>1, <3>2, <3>3, READ4Drops
    <2>12. Rest' = SubSeq(Rest, k + 1, Len(Rest)) /\ From(loc)' = From(loc)
      BY <2>1, <2>11, RestNext, FileStays
    <2>13. Lazy!Number(b, k)
      <3>1. \A i \in 1..b : Rest[i] \in {" ", "eoln"}
        BY <2>3, <2>6, <2>9
      <3>2. \A i \in b + 1..k : Rest[i] = "1"
        BY <2>3, <2>6, <2>9
      <3>3. k < Len(Rest) => Rest[k + 1] # "1"
        <4>1. CASE k < Len(s)
          <5>1. k + 1 \in 1..Len(s)
            BY <2>2, <2>4, <4>1
          <5>2. s[k + 1] # "1"
            BY <2>3, <4>1
          <5> QED
            BY <2>6, <5>1, <5>2
        <4>2. CASE k = Len(s) /\ k < Len(Rest)
          <5>1. Len(Rest) \in Nat
            BY <2>5
          <5>2. k + 1 \in 1..Len(Rest) /\ k + 1 > Len(s)
            BY <2>2, <2>4, <4>2, <5>1
          <5>3. Rest[k + 1] = "eoln"
            BY <2>7, <5>2
          <5> QED
            BY <5>3
        <4>3. k < Len(s) \/ k = Len(s)
          BY <2>2, <2>4
        <4> QED
          BY <4>1, <4>2, <4>3
      <3>4. b < k
        BY <2>4
      <3> QED
        BY <3>1, <3>2, <3>3, <3>4 DEF Lazy!Number
    <2>14. answer' = SubSeq(Rest, b + 1, k)
      <3> DEFINE t == SubSeq(s, b + 1, k)
                 u == SubSeq(Rest, b + 1, k)
      <3>1. \A i \in 1..k - b : b + i \in b + 1..k
        BY <2>4
      <3>2. \A i \in b + 1..k : s[i] = "1" /\ Rest[i] = "1"
        BY <2>3, <2>6, <2>9
      <3>3. t \in Seq(Window \cup {"eoln"}) /\ Len(t) = k - b
            /\ \A i \in 1..k - b : t[i] = s[b + i]
        <4>1. s \in Seq(Window \cup {"eoln"})
          BY <2>3, WiderSeq
        <4> QED
          BY <2>2, <2>4, <4>1
      <3>4. u \in Seq(Window \cup {"eoln"}) /\ Len(u) = k - b
            /\ \A i \in 1..k - b : u[i] = Rest[b + i]
        BY <2>4, <2>5, <2>9
      <3> HIDE DEF t, u
      <3>6. \A i \in 1..Len(t) : t[i] = u[i]
        BY <3>1, <3>2, <3>3, <3>4
      <3>5. t = u
        BY <3>3, <3>4, <3>6, SeqEqual
      <3> QED
        BY <2>e, <3>5 DEF t, u
    <2>15. Lazy!Drop(k)
      BY <2>12 DEF Lazy!Drop
    <2>16. UNCHANGED <<From(0), mode = "readln",
                       IF mode \in {"past end", "bad data"} THEN mode ELSE "">> => Lazy!ReadInt
      BY <2>9, <2>12, <2>13, <2>14, <2>15 DEF Lazy!ReadInt
    <2> QED
      BY <2>1, <2>16, CallMaps
  <1> QED
    BY <1>1, <1>2

-----------------------------------------------------------------------------
LEMMA LazyInit == Init => Lazy!Init
  <1> SUFFICES ASSUME Init PROVE Lazy!Init
    OBVIOUS
  <1>1. TextInv /\ 0 \in 0..Len(text)
    BY InitInv, Typing
  <1>2. iorec.pos = 0 /\ iorec.sync /\ iorec.eoln = ftext /\ ~iorec.eoff /\ ~iorec.speoln
        /\ loc = 0 /\ mode = "run" /\ answer = <<>>
    BY DEF Init
  <1>3. From(0) \in Seq(Window \cup {"eoln"})
    BY <1>1, FromAt
  <1>4. Rest = From(0)
    BY <1>2, RestNow DEF RestOf
  <1> QED
    BY <1>2, <1>3, <1>4 DEF Lazy!Init

LEMMA LazyStep ==
    ASSUME ShownInv, ~ResetAnywhere, ~TellAnywhere, [Next]_vars
    PROVE  Lazy!Next \/ BlanksPastEnd \/ UNCHANGED Lazy!vars
  <1>1. CASE UNCHANGED vars
    <2>1. UNCHANGED <<file, iorec, loc, mode, answer>>
      BY <1>1 DEF vars, file
    <2>2. Rest' = Rest /\ From(0)' = From(0) /\ From(loc)' = From(loc)
      BY <2>1, SameRest, FileStays
    <2> QED
      BY <2>1, <2>2 DEF Lazy!vars
  <1> QED
    BY <1>1, TEOFMaps, TEOLNMaps, FNILMaps, GETMaps, READCMaps, READLNMaps, ReadlnLoopMaps,
       READ4Maps, RESETMaps, TELLMaps, SEEKMaps DEF Next

\* Whatever calls a program makes of libpc (IOSYNC.c, GET.c, READC.c, READLN.c, READ4.c, RESET.c,
\* TELL.c, SEEK.c), it gets the components of the file, each once and in order, although the
\* window is filled only when it is asked for; with the two edges kept out as above.  Of its
\* errors only READ4's, where blanks are left (READ4.c:55), is not one of the file.
THEOREM LazyWindowIsTextFile ==
    ASSUME ~ResetAnywhere, ~TellAnywhere PROVE Spec => ImplementsTextFile
  <1>1. Init => ShownInv
    BY ShownInit
  <1>2. ShownInv /\ [Next]_vars => ShownInv'
    BY ShownStep
  <1>3. Init => Lazy!Init
    BY LazyInit
  <1>4. ShownInv /\ [Next]_vars => [Lazy!Next \/ BlanksPastEnd]_(Lazy!vars)
    BY LazyStep
  <1> QED
    BY <1>1, <1>2, <1>3, <1>4, PTL DEF Spec, ImplementsTextFile

=============================================================================
