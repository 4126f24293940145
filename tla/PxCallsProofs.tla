---------------------------- MODULE PxCallsProofs ----------------------------
(***************************************************************************)
(* Proofs about PxCalls, PxCallsRefine and PxBacktrace, for every program. *)
(*                                                                         *)
(* What makes the display right again after a return is not in the state:  *)
(* it is that every frame holds what turns the display of its activation   *)
(* into the display of its caller's.  The invariant says so with a witness *)
(* h: h[i] is the display of the activation of frame i, display itself for *)
(* the youngest frame not yet left, and frame i gives back h[i - 1].       *)
(***************************************************************************)
EXTENDS PxCallsRefine, PxBacktrace, WellFoundedInduction, TLAPS

Display == [Levels -> FrameOrNone]

\* The youngest frame that a goto under way has not left.
top == display[dp]

\* In display d, frame i sees active frames of the blocks around its own.
Sees(d, i) == /\ Level(stack[i].rtn) \in Levels
              /\ d[Level(stack[i].rtn)] = i
              /\ \A l \in 1..Level(stack[i].rtn) :
                    d[l] \in 1..i /\ stack[d[l]].rtn = Nest[stack[i].rtn][l]

\* Frame i restores its caller's display level and display.
Restores(h, i) == /\ stack[i].dp = Level(stack[i - 1].rtn)
                  /\ h[i - 1] = GiveBack(stack[i], Level(stack[i].rtn), h[i])

\* h explains the frames up to the youngest one.
Explains(h) == /\ h[top] = display
               /\ \A i \in 1..top : Sees(h[i], i)
               /\ \A i \in 2..top : Restores(h, i)

\* A procedural parameter was passed with the environment of its declaration.
GoodFormal(i) ==
    stack[i].rtn \in TakesFormal =>
      /\ stack[i].formal.rtn \in Passable
      /\ \A l \in 1..Level(stack[i].formal.rtn) - 1 :
           /\ stack[i].formal.fdisp[l] \in 1..i - 1
           /\ stack[stack[i].formal.fdisp[l]].rtn = Nest[stack[i].formal.rtn][l]

\* Only the oldest frame belongs to the program block.
GoodFrame(i) == /\ stack[i].rtn \in Routine
                /\ stack[i].rtn = Main <=> i = 1
                /\ stack[i].file \in FrameOrNone
                /\ GoodFormal(i)

GoodStack == /\ Len(stack) \in Frames
             /\ \A i \in 1..Len(stack) : GoodFrame(i)

GoodDisplay == mode \in {"run", "goto"} =>
                 /\ dp \in Levels
                 /\ dp = Level(stack[top].rtn)
                 /\ top \in 1..Len(stack)
                 /\ mode = "run" => top = Len(stack)
                 /\ \E h \in [1..top -> Display] : Explains(h)

GoodTarget == mode = "goto" => /\ target \in 1..top
                               /\ \A i \in target + 1..top : stack[i].saved = <<>>

DisplayInv == /\ stack \in Seq(BlockMark)
              /\ display \in Display
              /\ curfile \in FrameOrNone
              /\ mode \in {"run", "goto", "done"}
              /\ GoodStack
              /\ GoodDisplay
              /\ GoodTarget

-----------------------------------------------------------------------------
\* Every nonempty set of naturals has a smallest element.
LEMMA Smallest ==
    ASSUME NEW S \in SUBSET Nat, S # {}
    PROVE  \E x \in S : \A y \in S : x <= y
  <1> DEFINE less == { ss \in Nat \X Nat : ss[1] < ss[2] }
  <1>1. IsWellFoundedOn(less, Nat)
    BY NatLessThanWellFounded DEF OpToRel
  <1>2. \E x \in S : \A y \in S : ~(<<y, x>> \in less)
    <2> HIDE DEF less
    <2> QED BY <1>1, WFMin
  <1>3. PICK x \in S : \A y \in S : ~(<<y, x>> \in less)
    BY <1>2
  <1>4. ASSUME NEW y \in S
        PROVE  x <= y
    <2>1. x \in Nat /\ y \in Nat /\ ~(<<y, x>> \in less)
      BY <1>3
    <2>2. ~(y < x)
      BY <2>1
    <2> QED
      BY <2>1, <2>2
  <1> QED
    BY <1>4

\* What the compiler's static levels guarantee: the blocks around a block are
\* at consecutive levels and have the same blocks around them.
LEMMA NestFacts ==
    ASSUME NEW r \in Routine
    PROVE  /\ Level(r) \in Levels
           /\ Nest[r] \in Seq(Routine)
           /\ Nest[r][1] = Main /\ Nest[r][Level(r)] = r
           /\ Level(r) = 1 => r = Main
           /\ \A l \in 1..Level(r) : /\ Nest[r][l] \in Routine
                                     /\ Level(Nest[r][l]) = l
                                     /\ \A k \in 1..l : Nest[Nest[r][l]][k] = Nest[r][k]
  <1>1. Nest[r] \in Seq(Routine)
    BY ProgramAssumption
  <1>2. Level(r) \in Nat /\ Level(r) >= 1 /\ Level(r) <= DSPLYSZ /\ DSPLYSZ \in Nat
    BY <1>1, ProgramAssumption, InterpreterAssumption DEF Level
  <1>3. \A l \in 1..Level(r) : Nest[r][l] \in Routine
    BY <1>1, <1>2 DEF Level
  <1> QED
    BY <1>1, <1>2, <1>3, ProgramAssumption DEF Levels

\* The program block is at level 1.
LEMMA MainFacts == Main \in Routine /\ Level(Main) = 1
  <1>1. Main \in Routine
    BY ProgramAssumption
  <1>2. Nest[Main][1] = Main /\ 1 \in 1..Level(Main)
    BY <1>1, NestFacts DEF Levels
  <1> QED
    BY <1>1, <1>2, NestFacts

\* The invariant holds when the main program is about to run.
LEMMA InitDisplay == Init => DisplayInv
  <1> SUFFICES ASSUME Init PROVE DisplayInv
    OBVIOUS
  <1>1. /\ Main \in Routine /\ Level(Main) = 1 /\ 1 \in Levels /\ 1 \in Frames
        /\ Nest[Main][1] = Main /\ Main \notin TakesFormal
        /\ 0 \in FrameOrNone /\ 1 \in FrameOrNone /\ 0 \in 0..DSPLYSZ
        /\ DSPLYSZ \in Nat
    BY MainFacts, NestFacts, ProgramAssumption,
       InterpreterAssumption DEF Levels, Frames, FrameOrNone
  <1>2. NoFormal \in Closure
    BY <1>1 DEF NoFormal, Closure
  <1>3. /\ stack \in Seq(BlockMark) /\ Len(stack) = 1
        /\ stack[1].rtn = Main /\ stack[1].file = 0
    <2> DEFINE b == [rtn |-> Main, dp |-> 0, odisp |-> 0, file |-> 0,
                     formal |-> NoFormal, saved |-> <<>>]
    <2>1. b \in BlockMark
      BY <1>1, <1>2 DEF BlockMark
    <2>2. stack = <<b>>
      BY DEF Init
    <2> QED
      BY <2>1, <2>2
  <1>4. /\ display \in Display /\ dp = 1 /\ top = 1 /\ mode = "run"
        /\ curfile \in FrameOrNone
    BY <1>1 DEF Init, Display, top, Levels
  <1>5. GoodStack
    BY <1>1, <1>3 DEF GoodStack, GoodFrame, GoodFormal
  <1>6. GoodDisplay
    <2>1. [i \in 1..1 |-> display] \in [1..top -> Display]
      BY <1>4
    <2>2. Explains([i \in 1..1 |-> display])
      BY <1>1, <1>3, <1>4 DEF Explains, Sees, top
    <2> QED
      BY <1>1, <1>3, <1>4, <2>1, <2>2 DEF GoodDisplay
  <1>7. GoodTarget
    BY <1>4 DEF GoodTarget
  <1> QED
    BY <1>3, <1>4, <1>5, <1>6, <1>7 DEF DisplayInv

\* What the running block sees, from its display.
LEMMA RunningFacts ==
    ASSUME DisplayInv, mode = "run"
    PROVE  /\ top = Len(stack) /\ Len(stack) \in 1..MaxDepth
           /\ dp = Level(running) /\ dp \in Levels
           /\ running \in Routine
           /\ stp = stack[Len(stack)]
           /\ \A l \in 1..dp : /\ display[l] \in 1..Len(stack)
                               /\ stack[display[l]].rtn = Nest[running][l]
  <1>1. PICK h \in [1..top -> Display] : Explains(h)
    BY DEF DisplayInv, GoodDisplay
  <1>2. /\ top = Len(stack) /\ Len(stack) \in 1..MaxDepth
        /\ dp = Level(stack[top].rtn) /\ dp \in Levels
    BY DEF DisplayInv, GoodDisplay, GoodStack, Frames
  <1>3. Sees(display, Len(stack))
    BY <1>1, <1>2 DEF Explains
  <1>4. stack[Len(stack)].rtn \in Routine
    BY <1>2 DEF DisplayInv, GoodStack, GoodFrame
  <1> QED
    BY <1>2, <1>3, <1>4 DEF Sees, running, stp, top

\* Entering a frame for q on top of a display d that shows q's environment
\* keeps the invariant, when the new frame can restore the old display from d.
LEMMA BeginDisplay ==
    ASSUME DisplayInv, mode = "run",
           NEW n \in Nat, n = Len(stack) + 1,
           NEW q \in Routine, q # Main,
           NEW d \in Display,
           NEW formal \in Closure,
           NEW saved \in Seq(FrameOrNone),
           \A l \in 1..Level(q) - 1 : /\ d[l] \in 1..Len(stack)
                                      /\ stack[d[l]].rtn = Nest[q][l],
           \A k \in Levels : display[k] = IF k \in DOMAIN saved THEN saved[k] ELSE d[k],
           q \in TakesFormal =>
             /\ formal.rtn \in Passable
             /\ \A l \in 1..Level(formal.rtn) - 1 :
                  /\ formal.fdisp[l] \in 1..Len(stack)
                  /\ stack[formal.fdisp[l]].rtn = Nest[formal.rtn][l],
           Begin(q, d, formal, saved)
    PROVE  DisplayInv'
  <1> DEFINE b == [rtn |-> q, dp |-> dp, odisp |-> d[Level(q)],
                    file |-> curfile, formal |-> formal, saved |-> saved]
  <1>1. /\ Level(q) \in Levels /\ Level(q) \in 0..DSPLYSZ
        /\ dp \in Levels /\ dp \in 0..DSPLYSZ /\ dp = Level(stack[Len(stack)].rtn)
        /\ top = Len(stack) /\ Len(stack) \in 1..MaxDepth
        /\ Len(stack) < MaxDepth /\ n \in Frames /\ n \in FrameOrNone
        /\ d[Level(q)] \in FrameOrNone /\ curfile \in FrameOrNone
    <2>1. /\ top = Len(stack) /\ Len(stack) \in 1..MaxDepth
          /\ dp = Level(running) /\ dp \in Levels
      BY RunningFacts
    <2>2. Level(q) \in Levels
      BY NestFacts
    <2>3. MaxDepth \in Nat /\ DSPLYSZ \in Nat
      BY ProgramAssumption, InterpreterAssumption
    <2>4. Len(stack) < MaxDepth /\ curfile \in FrameOrNone
      BY DEF Begin, DisplayInv
    <2>5. d[Level(q)] \in FrameOrNone
      BY <2>2 DEF Display
    <2> QED
      BY <2>1, <2>2, <2>3, <2>4, <2>5 DEF Levels, Frames, FrameOrNone, running
  <1>2. b \in BlockMark
    BY <1>1 DEF BlockMark
  <1>3. /\ stack' \in Seq(BlockMark) /\ Len(stack') = n /\ stack'[n] = b
        /\ \A i \in 1..Len(stack) : stack'[i] = stack[i]
    BY <1>1, <1>2 DEF Begin, DisplayInv
  <1>4. /\ display' \in Display /\ display'[Level(q)] = n
        /\ \A k \in Levels \ {Level(q)} : display'[k] = d[k]
        /\ dp' = Level(q) /\ top' = n /\ mode' = "run" /\ curfile' \in FrameOrNone
    BY <1>1 DEF Begin, Display, top
  <1>5. GoodStack'
    <2>1. ASSUME NEW i \in 1..Len(stack) PROVE GoodFrame(i)'
      <3>1. GoodFrame(i) /\ stack'[i] = stack[i] /\ i \in Int
        BY <1>3 DEF DisplayInv, GoodStack
      <3>2. GoodFormal(i)'
        <4>1. ASSUME NEW f \in 1..i - 1 PROVE stack'[f] = stack[f]
          BY <1>1, <1>3
        <4> QED
          BY <3>1, <4>1 DEF GoodFrame, GoodFormal
      <3> QED
        BY <3>1, <3>2 DEF GoodFrame
    <2>2. GoodFrame(n)'
      <3>1. GoodFormal(n)'
        <4>1. n - 1 = Len(stack)
          BY <1>1
        <4> QED
          BY <1>3, <4>1 DEF GoodFormal
      <3>2. n # 1
        BY <1>1
      <3> QED
        BY <1>1, <1>3, <3>1, <3>2 DEF GoodFrame
    <2> QED
      BY <1>1, <1>3, <2>1, <2>2 DEF GoodStack
  <1>6. GoodDisplay'
    <2>1. PICK h \in [1..top -> Display] : Explains(h)
      BY DEF DisplayInv, GoodDisplay
    <2>2. PICK g \in [1..n -> Display] :
             g = [i \in 1..n |-> IF i = n THEN display' ELSE h[i]]
      <3>1. ASSUME NEW i \in 1..n, i # n PROVE h[i] \in Display
        <4>1. i \in 1..top
          BY <1>1, <3>1
        <4> QED
          BY <2>1, <4>1
      <3>2. [i \in 1..n |-> IF i = n THEN display' ELSE h[i]] \in [1..n -> Display]
        BY <1>4, <3>1
      <3> QED
        BY <3>2
    <2>3. /\ g[n] = display' /\ n - 1 = top /\ g[n - 1] = display
          /\ \A i \in 1..top : g[i] = h[i]
      BY <1>1, <2>1, <2>2 DEF Explains
    <2>4. Sees(g[n], n)'
      <3>1. \A l \in 1..Level(q) - 1 : l \in Levels \ {Level(q)}
        BY <1>1, InterpreterAssumption DEF Levels
      <3>2. ASSUME NEW l \in 1..Level(q)
            PROVE  display'[l] \in 1..n /\ stack'[display'[l]].rtn = Nest[q][l]
        <4>1. CASE l = Level(q)
          BY <4>1, <1>3, <1>4, NestFacts
        <4>2. CASE l # Level(q)
          <5>1. l \in 1..Level(q) - 1
            BY <1>1, <4>2 DEF Levels
          <5> QED
            BY <1>1, <1>3, <1>4, <3>1, <5>1
        <4> QED
          BY <4>1, <4>2
      <3> QED
        BY <1>1, <1>3, <1>4, <2>3, <3>2 DEF Sees
    <2>5. ASSUME NEW i \in 1..Len(stack) PROVE Sees(g[i], i)'
      <3>1. Sees(g[i], i) /\ stack'[i] = stack[i]
        BY <1>1, <1>3, <2>1, <2>3 DEF Explains
      <3>2. \A f \in 1..i : stack'[f] = stack[f]
        BY <1>1, <1>3
      <3> QED
        BY <3>1, <3>2 DEF Sees
    <2>6. Restores(g, n)'
      <3>1. display = GiveBack(b, Level(q), display')
        <4>1. GiveBack(b, Level(q), display') =
                [k \in Levels |-> IF k \in DOMAIN saved THEN saved[k]
                                  ELSE IF k = Level(q) THEN d[Level(q)]
                                  ELSE display'[k]]
          BY DEF GiveBack
        <4>2. ASSUME NEW k \in Levels
              PROVE  display[k] = IF k \in DOMAIN saved THEN saved[k]
                                  ELSE IF k = Level(q) THEN d[Level(q)]
                                  ELSE display'[k]
          BY <1>1, <1>4
        <4>3. display = [k \in Levels |-> display[k]]
          BY DEF DisplayInv, Display
        <4> QED
          BY <4>1, <4>2, <4>3
      <3>2. stack'[n - 1] = stack[Len(stack)]
        BY <1>1, <1>3
      <3> QED
        BY <1>1, <1>3, <2>3, <3>1, <3>2 DEF Restores
    <2>7. ASSUME NEW i \in 2..Len(stack) PROVE Restores(g, i)'
      <3>1. /\ Restores(h, i) /\ g[i] = h[i] /\ g[i - 1] = h[i - 1]
            /\ stack'[i] = stack[i] /\ stack'[i - 1] = stack[i - 1]
        BY <1>1, <1>3, <2>1, <2>3 DEF Explains
      <3> QED
        BY <3>1 DEF Restores
    <2> QED
      <3>1. Explains(g)'
        <4>1. ASSUME NEW i \in 1..n PROVE Sees(g[i], i)'
          <5>1. i = n \/ i \in 1..Len(stack)
            BY <1>1
          <5> QED
            BY <5>1, <2>4, <2>5
        <4>2. ASSUME NEW i \in 2..n PROVE Restores(g, i)'
          <5>1. i = n \/ i \in 2..Len(stack)
            BY <1>1
          <5> QED
            BY <5>1, <2>6, <2>7
        <4> QED
          BY <1>4, <2>3, <4>1, <4>2 DEF Explains
      <3> QED
        BY <1>1, <1>3, <1>4, <2>2, <3>1 DEF GoodDisplay
  <1>7. GoodTarget'
    BY <1>4 DEF GoodTarget
  <1> QED
    BY <1>3, <1>4, <1>5, <1>6, <1>7 DEF DisplayInv

\* A routine that the running block may name is declared in a block on display.
LEMMA VisibleEnv ==
    ASSUME DisplayInv, mode = "run", NEW q \in Routine, Visible(q, running)
    PROVE  /\ Level(q) \in 2..DSPLYSZ
           /\ \A l \in 1..Level(q) - 1 : /\ l \in 1..dp
                                         /\ display[l] \in 1..Len(stack)
                                         /\ stack[display[l]].rtn = Nest[q][l]
  <1>1. Level(q) \in 2..DSPLYSZ
    BY NestFacts, InterpreterAssumption DEF Visible, Levels
  <1>2. ASSUME NEW l \in 1..Level(q) - 1
        PROVE  l \in 1..dp /\ Nest[q][l] = Nest[running][l]
    <2> DEFINE p == Nest[q][Level(q) - 1]
    <2>1. /\ Level(q) - 1 \in 1..Level(q) /\ Level(q) - 1 \in 1..Level(running)
          /\ l \in 1..Level(running) /\ running \in Routine
      BY <1>1, RunningFacts, InterpreterAssumption DEF Visible, Levels
    <2>2. Nest[p][l] = Nest[q][l]
      BY <2>1, NestFacts
    <2>3. p = Nest[running][Level(q) - 1]
      BY DEF Visible
    <2>4. Nest[p][l] = Nest[running][l]
      BY <2>1, <2>3, NestFacts
    <2> QED
      BY <2>1, <2>2, <2>4, RunningFacts
  <1> QED
    BY <1>1, <1>2, RunningFacts

\* O_FSAV makes a closure whose frames are active.
LEMMA FsavClosure ==
    ASSUME DisplayInv, mode = "run", NEW q \in Passable, Visible(q, running)
    PROVE  /\ Fsav(q) \in Closure
           /\ Fsav(q).rtn = q
           /\ \A l \in 1..Level(q) - 1 :
                /\ Fsav(q).fdisp[l] \in 1..Len(stack)
                /\ stack[Fsav(q).fdisp[l]].rtn = Nest[q][l]
  <1>1. q \in Routine
    BY DEF Passable
  <1>2. Level(q) - 1 \in Nat /\ \A l \in 1..Level(q) - 1 : display[l] \in FrameOrNone
    BY <1>1, VisibleEnv, InterpreterAssumption, RunningFacts
       DEF DisplayInv, Display, Levels, FrameOrNone
  <1>3. [l \in 1..Level(q) - 1 |-> display[l]] \in Seq(FrameOrNone)
    BY <1>2
  <1> QED
    BY <1>1, <1>3, VisibleEnv DEF Fsav, Closure

\* The procedural parameters of active frames have their environments active.
LEMMA FormalFacts ==
    ASSUME DisplayInv, NEW i \in 1..Len(stack), stack[i].rtn \in TakesFormal
    PROVE  /\ stack[i].formal \in Closure
           /\ stack[i].formal.rtn \in Passable
           /\ \A l \in 1..Level(stack[i].formal.rtn) - 1 :
                /\ stack[i].formal.fdisp[l] \in 1..Len(stack)
                /\ stack[stack[i].formal.fdisp[l]].rtn = Nest[stack[i].formal.rtn][l]
  <1>1. GoodFormal(i) /\ stack[i] \in BlockMark
    BY DEF DisplayInv, GoodStack, GoodFrame
  <1>2. \A f \in 1..i - 1 : f \in 1..Len(stack)
    BY DEF DisplayInv, GoodStack, Frames
  <1> QED
    BY <1>1, <1>2 DEF GoodFormal, BlockMark

\* O_CALL and O_BEG preserve the invariant: the display already shows the
\* environment of a routine that may be named.
LEMMA CallDisplay ==
    ASSUME DisplayInv, NEW q \in Routine, Call(q)
    PROVE  DisplayInv'
  <1>1. mode = "run" /\ Visible(q, running) /\ q # Main
    BY DEF Call, Visible
  <1>2. PICK f \in IF q \in TakesFormal THEN Actuals ELSE {NoFormal} :
               Begin(q, display, f, <<>>)
    BY DEF Call
  <1>3. /\ f \in Closure
        /\ q \in TakesFormal =>
             /\ f.rtn \in Passable
             /\ \A l \in 1..Level(f.rtn) - 1 :
                  /\ f.fdisp[l] \in 1..Len(stack)
                  /\ stack[f.fdisp[l]].rtn = Nest[f.rtn][l]
    <2>1. CASE q \notin TakesFormal
      <3>1. f = NoFormal
        BY <1>2, <2>1
      <3>2. NoFormal \in Closure
        BY MainFacts DEF NoFormal, Closure
      <3> QED
        BY <2>1, <3>1, <3>2
    <2>2. CASE \E p \in Passable : Visible(p, running) /\ f = Fsav(p)
      <3>1. PICK p \in Passable : Visible(p, running) /\ f = Fsav(p)
        BY <2>2
      <3> QED
        BY <1>1, <3>1, FsavClosure
    <2>3. CASE \E l \in 1..dp : Nest[running][l] \in TakesFormal
                                /\ f = stack[display[l]].formal
      <3>1. PICK l \in 1..dp : Nest[running][l] \in TakesFormal
                               /\ f = stack[display[l]].formal
        BY <2>3
      <3>2. display[l] \in 1..Len(stack) /\ stack[display[l]].rtn \in TakesFormal
        BY <1>1, <3>1, RunningFacts
      <3> QED
        BY <3>1, <3>2, FormalFacts
    <2> QED
      <3>1. q \in TakesFormal => f \in Actuals
        BY <1>2
      <3>2. f \in Actuals => \/ \E p \in Passable : Visible(p, running) /\ f = Fsav(p)
                             \/ \E l \in 1..dp : Nest[running][l] \in TakesFormal
                                               /\ f = stack[display[l]].formal
        BY DEF Actuals
      <3> QED
        BY <3>1, <3>2, <2>1, <2>2, <2>3
  <1>4. /\ <<>> \in Seq(FrameOrNone) /\ DOMAIN <<>> = {} /\ display \in Display
        /\ Len(stack) + 1 \in Nat
    BY DEF DisplayInv, GoodStack, Frames
  <1>5. \A l \in 1..Level(q) - 1 : /\ display[l] \in 1..Len(stack)
                                   /\ stack[display[l]].rtn = Nest[q][l]
    BY <1>1, VisibleEnv
  <1> QED
    BY <1>1, <1>2, <1>3, <1>4, <1>5, BeginDisplay

\* O_FCALL and O_BEG preserve the invariant: the closure's display shows the
\* routine's environment, the save area restores the caller's.
LEMMA CallFormalDisplay ==
    ASSUME DisplayInv, NEW l \in 1..dp, CallFormal(l)
    PROVE  DisplayInv'
  <1> DEFINE tfp == stack[display[l]].formal
             fbn == Level(tfp.rtn) - 1
             d == [k \in Levels |-> IF k \in 1..fbn THEN tfp.fdisp[k] ELSE display[k]]
             saved == [k \in 1..fbn |-> display[k]]
  <1>1. mode = "run" /\ Nest[running][l] \in TakesFormal /\ Begin(tfp.rtn, d, NoFormal, saved)
    BY DEF CallFormal
  <1>2. display[l] \in 1..Len(stack) /\ stack[display[l]].rtn \in TakesFormal
    BY <1>1, RunningFacts
  <1>3. /\ tfp.rtn \in Routine /\ tfp.rtn # Main /\ tfp.rtn \notin TakesFormal
        /\ \A k \in 1..fbn : /\ tfp.fdisp[k] \in 1..Len(stack)
                             /\ stack[tfp.fdisp[k]].rtn = Nest[tfp.rtn][k]
    BY <1>2, FormalFacts DEF Passable
  <1>4. fbn \in Nat /\ fbn + 1 \in Levels /\ \A k \in 1..fbn : k \in Levels
    BY <1>3, NestFacts, InterpreterAssumption DEF Levels
  <1>5. d \in Display
    <2> HIDE DEF tfp
    <2>1. ASSUME NEW k \in 1..fbn PROVE tfp.fdisp[k] \in FrameOrNone
      <3>1. Len(stack) \in 1..MaxDepth /\ MaxDepth \in Nat
        BY <1>1, RunningFacts, ProgramAssumption
      <3> QED
        BY <1>3, <3>1 DEF FrameOrNone
    <2>2. ASSUME NEW k \in Levels PROVE display[k] \in FrameOrNone
      BY DEF DisplayInv, Display
    <2>3. ASSUME NEW k \in Levels
          PROVE  (IF k \in 1..fbn THEN tfp.fdisp[k] ELSE display[k]) \in FrameOrNone
      BY <2>1, <2>2
    <2> QED
      BY <2>3 DEF Display
  <1>6. saved \in Seq(FrameOrNone) /\ DOMAIN saved = 1..fbn
    BY <1>4 DEF DisplayInv, Display
  <1>7. NoFormal \in Closure /\ Len(stack) + 1 \in Nat
    BY MainFacts DEF NoFormal, Closure, DisplayInv, GoodStack, Frames
  <1>8. \A k \in Levels : display[k] = IF k \in DOMAIN saved THEN saved[k] ELSE d[k]
    BY <1>6
  <1>9. \A k \in 1..Level(tfp.rtn) - 1 : /\ d[k] \in 1..Len(stack)
                                         /\ stack[d[k]].rtn = Nest[tfp.rtn][k]
    BY <1>3, <1>4
  <1> HIDE DEF d, saved, tfp
  <1> QED
    BY <1>1, <1>3, <1>5, <1>6, <1>7, <1>8, <1>9, BeginDisplay

\* When the youngest frame gives back its caller's display, the frames below it
\* are explained by the rest of the same witness.
LEMMA PopDisplay ==
    ASSUME DisplayInv, mode \in {"run", "goto"}, top # 1,
           display' = GiveBack(stp, dp, display),
           dp' = stp.dp,
           \A i \in 1..top - 1 : stack'[i] = stack[i]
    PROVE  /\ display' \in Display
           /\ dp' \in Levels
           /\ dp' = Level(stack'[top - 1].rtn)
           /\ top' = top - 1
           /\ top - 1 \in 1..Len(stack)
           /\ \E h \in [1..top - 1 -> Display] : Explains(h)'
  <1>1. PICK h \in [1..top -> Display] : Explains(h)
    BY DEF DisplayInv, GoodDisplay
  <1>2. PICK n \in 1..Len(stack) : n = top
    BY DEF DisplayInv, GoodDisplay
  <1>3. n \in Nat /\ n - 1 \in 1..Len(stack) /\ n \in 2..n
    BY <1>2
  <1>4. /\ h[n] = display /\ Restores(h, n) /\ Sees(h[n - 1], n - 1)
        /\ dp = Level(stack[n].rtn) /\ stp = stack[n]
    BY <1>1, <1>2, <1>3 DEF Explains, DisplayInv, GoodDisplay, stp, top
  <1>5. display' = h[n - 1] /\ dp' = Level(stack[n - 1].rtn)
    BY <1>4 DEF Restores
  <1>6. display' \in Display /\ dp' \in Levels /\ display'[dp'] = n - 1
    BY <1>1, <1>2, <1>3, <1>4, <1>5 DEF Sees
  <1>7. PICK g \in [1..n - 1 -> Display] : g = [i \in 1..n - 1 |-> h[i]]
    <2>1. \A i \in 1..n - 1 : h[i] \in Display
      BY <1>1, <1>2, <1>3
    <2>2. [i \in 1..n - 1 |-> h[i]] \in [1..n - 1 -> Display]
      BY <2>1
    <2> QED
      BY <2>2
  <1>8. Explains(g)'
    <2>1. g[n - 1] = display' /\ top' = n - 1
      BY <1>3, <1>5, <1>6, <1>7 DEF top
    <2>2. ASSUME NEW i \in 1..n - 1 PROVE Sees(g[i], i)'
      <3>1. Sees(h[i], i) /\ g[i] = h[i]
        BY <1>1, <1>2, <1>3, <1>7, <2>2 DEF Explains
      <3>2. \A f \in 1..i : stack'[f] = stack[f]
        BY <1>2, <1>3, <2>2
      <3> QED
        BY <3>1, <3>2 DEF Sees
    <2>3. ASSUME NEW i \in 2..n - 1 PROVE Restores(g, i)'
      <3>1. Restores(h, i) /\ g[i] = h[i] /\ g[i - 1] = h[i - 1]
        BY <1>1, <1>2, <1>3, <1>7, <2>3 DEF Explains
      <3>2. stack'[i] = stack[i] /\ stack'[i - 1] = stack[i - 1]
        BY <1>2, <1>3, <2>3
      <3> QED
        BY <3>1, <3>2 DEF Restores
    <2> QED
      BY <2>1, <2>2, <2>3 DEF Explains
  <1> QED
    BY <1>2, <1>3, <1>5, <1>6, <1>7, <1>8 DEF top

\* O_END and O_FRTN preserve the invariant.
LEMMA EndDisplay == ASSUME DisplayInv, End PROVE DisplayInv'
  <1>1. /\ mode = "run" /\ mode' = "run" /\ top = Len(stack) /\ Len(stack) \in 1..MaxDepth
        /\ stp = stack[Len(stack)] /\ dp = Level(running) /\ running \in Routine
        /\ MaxDepth \in Nat
    BY RunningFacts, ProgramAssumption DEF End, LeaveBlock
  <1>2. top # 1
    <2>1. Level(running) # 1
      BY <1>1 DEF End, LeaveBlock
    <2>2. running # Main
      BY <2>1, MainFacts
    <2> QED
      BY <1>1, <2>2 DEF DisplayInv, GoodStack, GoodFrame, running
  <1>3. /\ stack' \in Seq(BlockMark) /\ Len(stack') = top - 1
        /\ \A i \in 1..top - 1 : stack'[i] = stack[i]
    BY <1>1, <1>2 DEF End, LeaveBlock, DisplayInv
  <1>4. /\ display' \in Display /\ dp' \in Levels
        /\ dp' = Level(stack'[top - 1].rtn) /\ top' = top - 1
        /\ \E h \in [1..top - 1 -> Display] : Explains(h)'
    BY <1>1, <1>2, <1>3, PopDisplay DEF End, LeaveBlock
  <1>5. GoodStack'
    <2>1. ASSUME NEW i \in 1..top - 1 PROVE GoodFrame(i)'
      <3>1. GoodFrame(i) /\ stack'[i] = stack[i]
        BY <1>1, <1>3 DEF DisplayInv, GoodStack
      <3>2. \A f \in 1..i - 1 : stack'[f] = stack[f]
        BY <1>1, <1>3
      <3> QED
        BY <3>1, <3>2 DEF GoodFrame, GoodFormal
    <2> QED
      BY <1>1, <1>2, <1>3, <2>1 DEF GoodStack, Frames
  <1>6. curfile' \in FrameOrNone
    BY <1>1 DEF End, LeaveBlock, DisplayInv, GoodStack, GoodFrame
  <1>7. GoodDisplay'
    BY <1>1, <1>2, <1>3, <1>4 DEF GoodDisplay
  <1> QED
    BY <1>1, <1>3, <1>4, <1>5, <1>6, <1>7 DEF DisplayInv, GoodTarget

\* A step that leaves the stack and the display alone leaves them explained.
LEMMA SameFrames ==
    ASSUME DisplayInv, UNCHANGED <<stack, display, dp>>
    PROVE  /\ top' = top
           /\ GoodStack'
           /\ \A h : Explains(h) => Explains(h)'
  <1>1. top' = top
    BY DEF top
  <1>2. GoodStack'
    BY DEF DisplayInv, GoodStack, GoodFrame, GoodFormal
  <1>3. ASSUME NEW h, Explains(h) PROVE Explains(h)'
    <2>1. \A i \in 1..top : Sees(h[i], i)'
      BY <1>3 DEF Explains, Sees
    <2>2. \A i \in 2..top : Restores(h, i)'
      BY <1>3 DEF Explains, Restores
    <2> QED
      BY <1>1, <1>3, <2>1, <2>2 DEF Explains
  <1> QED
    BY <1>1, <1>2, <1>3

\* O_GOTO starts at a frame that the invariant explains.
LEMMA GotoDisplay ==
    ASSUME DisplayInv, ~GotoOutOfFormals, NEW l \in 1..dp, Goto(l) PROVE DisplayInv'
  <1>1. /\ mode = "run" /\ mode' = "goto" /\ target' = display[l]
        /\ \A i \in display[l] + 1..Len(stack) : stack[i].saved = <<>>
        /\ UNCHANGED <<stack, display, dp, curfile>>
    BY DEF Goto, MayJump, Search
  <1>2. display[l] \in 1..Len(stack) /\ top = Len(stack)
    BY <1>1, RunningFacts
  <1>3. GoodDisplay'
    <2>1. PICK h \in [1..top -> Display] : Explains(h)
      BY <1>1 DEF DisplayInv, GoodDisplay
    <2>2. top' = top /\ Explains(h)'
      BY <1>1, <2>1, SameFrames
    <2> QED
      BY <1>1, <1>2, <2>1, <2>2 DEF DisplayInv, GoodDisplay
  <1>4. GoodStack'
    BY <1>1, SameFrames
  <1>5. GoodTarget'
    BY <1>1, <1>2 DEF GoodTarget, top
  <1> QED
    BY <1>1, <1>3, <1>4, <1>5 DEF DisplayInv

\* O_GOTO's ERROR is out of reach: the frame of the program block is the target
\* when no other is.
LEMMA NoGotoError == ASSUME DisplayInv, Unwind PROVE dp # 1
  <1> SUFFICES ASSUME dp = 1 PROVE FALSE
    OBVIOUS
  <1>1. mode = "goto" /\ top # target /\ dp = 1
    BY DEF Unwind, top
  <1>2. target \in 1..top /\ top \in 1..Len(stack) /\ Level(stack[top].rtn) = 1
    BY <1>1 DEF DisplayInv, GoodDisplay, GoodTarget
  <1>3. stack[top].rtn = Main /\ top = 1
    BY <1>2, NestFacts DEF DisplayInv, GoodStack, GoodFrame
  <1> QED
    BY <1>1, <1>2, <1>3

\* One iteration of O_GOTO's loop leaves the youngest frame, which is above
\* the target and was not called as a formal.
LEMMA UnwindPops ==
    ASSUME DisplayInv, Unwind
    PROVE  /\ target \in 1..top - 1 /\ top \in 1..Len(stack) /\ stp = stack[top]
           /\ display' \in Display /\ dp' \in Levels
           /\ dp' = Level(stack'[top - 1].rtn) /\ top' = top - 1
           /\ top - 1 \in 1..Len(stack)
           /\ \E h \in [1..top - 1 -> Display] : Explains(h)'
  <1>1. /\ mode = "goto" /\ mode' = "goto" /\ top # target /\ stack' = stack
        /\ display' = [display EXCEPT ![dp] = stp.odisp] /\ dp' = stp.dp
        /\ target' = target /\ curfile' = stp.file
    BY NoGotoError DEF Unwind, top
  <1>2. /\ target \in 1..top - 1 /\ top \in 1..Len(stack) /\ Len(stack) \in Nat
        /\ stp = stack[top] /\ stp.saved = <<>> /\ dp \in Levels
    BY <1>1 DEF DisplayInv, GoodDisplay, GoodTarget, GoodStack, Frames, stp, top
  <1>3. display' = GiveBack(stp, dp, display)
    <2>1. DOMAIN stp.saved = {}
      BY <1>2
    <2>2. display \in Display
      BY DEF DisplayInv
    <2>3. GiveBack(stp, dp, display) =
            [k \in Levels |-> IF k = dp THEN stp.odisp ELSE display[k]]
      BY <2>1 DEF GiveBack
    <2> QED
      BY <1>1, <2>2, <2>3 DEF Display
  <1>4. /\ display' \in Display /\ dp' \in Levels
        /\ dp' = Level(stack'[top - 1].rtn) /\ top' = top - 1
        /\ top - 1 \in 1..Len(stack)
        /\ \E h \in [1..top - 1 -> Display] : Explains(h)'
    <2>1. top # 1 /\ mode \in {"run", "goto"}
      BY <1>1, <1>2
    <2>2. \A i \in 1..top - 1 : stack'[i] = stack[i]
      BY <1>1
    <2> QED
      BY <1>1, <1>3, <2>1, <2>2, PopDisplay
  <1> QED
    BY <1>2, <1>4

\* One iteration of O_GOTO's loop preserves the invariant.
LEMMA UnwindDisplay == ASSUME DisplayInv, Unwind PROVE DisplayInv'
  <1>1. /\ mode = "goto" /\ mode' = "goto" /\ stack' = stack
        /\ target' = target /\ curfile' = stp.file
    BY NoGotoError DEF Unwind
  <1>2. /\ target \in 1..top - 1 /\ top \in 1..Len(stack) /\ stp = stack[top]
        /\ display' \in Display /\ dp' \in Levels
        /\ dp' = Level(stack'[top - 1].rtn) /\ top' = top - 1
        /\ top - 1 \in 1..Len(stack)
        /\ \E h \in [1..top - 1 -> Display] : Explains(h)'
    BY UnwindPops
  <1>3. \A i \in target + 1..top : stack[i].saved = <<>>
    BY <1>1 DEF DisplayInv, GoodTarget
  <1>4. GoodStack' /\ curfile' \in FrameOrNone
    BY <1>1, <1>2 DEF DisplayInv, GoodStack, GoodFrame, GoodFormal
  <1>5. GoodDisplay'
    BY <1>1, <1>2 DEF GoodDisplay
  <1>6. GoodTarget'
    BY <1>1, <1>2, <1>3 DEF GoodTarget
  <1> QED
    BY <1>1, <1>2, <1>4, <1>5, <1>6 DEF DisplayInv

\* The end of O_GOTO preserves the invariant.
LEMMA LandDisplay == ASSUME DisplayInv, Land PROVE DisplayInv'
  <1>1. /\ mode = "goto" /\ mode' = "run" /\ top = target /\ stack' = SubSeq(stack, 1, top)
        /\ UNCHANGED <<display, dp, curfile>>
    BY DEF Land, top
  <1>2. /\ top \in 1..Len(stack) /\ Len(stack) \in Frames
        /\ stack' \in Seq(BlockMark) /\ Len(stack') = top
        /\ \A i \in 1..top : stack'[i] = stack[i]
    BY <1>1 DEF DisplayInv, GoodDisplay, GoodStack, Frames
  <1>3. GoodStack'
    <2>1. ASSUME NEW i \in 1..top PROVE GoodFrame(i)'
      <3>1. GoodFrame(i) /\ stack'[i] = stack[i]
        BY <1>2 DEF DisplayInv, GoodStack, Frames
      <3>2. \A f \in 1..i - 1 : stack'[f] = stack[f]
        BY <1>2
      <3> QED
        BY <3>1, <3>2 DEF GoodFrame, GoodFormal
    <2>2. top \in Frames
      BY <1>2, ProgramAssumption DEF Frames
    <2> QED
      BY <1>2, <2>1, <2>2 DEF GoodStack
  <1>4. GoodDisplay'
    <2>1. PICK h \in [1..top -> Display] : Explains(h)
      BY <1>1 DEF DisplayInv, GoodDisplay
    <2>2. top' = top
      BY <1>1 DEF top
    <2>3. ASSUME NEW i \in 1..top PROVE Sees(h[i], i)'
      <3>1. Sees(h[i], i) /\ \A f \in 1..i : stack'[f] = stack[f]
        BY <1>2, <2>1 DEF Explains
      <3> QED
        BY <3>1, <1>2 DEF Sees
    <2>4. ASSUME NEW i \in 2..top PROVE Restores(h, i)'
      <3>1. Restores(h, i) /\ stack'[i] = stack[i] /\ stack'[i - 1] = stack[i - 1]
        BY <1>2, <2>1 DEF Explains
      <3> QED
        BY <3>1 DEF Restores
    <2>5. Explains(h)'
      BY <1>1, <2>1, <2>2, <2>3, <2>4 DEF Explains
    <2> QED
      BY <1>1, <1>2, <2>1, <2>2, <2>5 DEF DisplayInv, GoodDisplay
  <1> QED
    BY <1>1, <1>2, <1>3, <1>4 DEF DisplayInv, GoodTarget

\* File operations and the end of the program preserve the invariant.
LEMMA OtherDisplay ==
    ASSUME DisplayInv,
           \/ EndProgram
           \/ \E l \in 1..dp : UseFile(l)
           \/ UseOutput
           \/ UNCHANGED vars
    PROVE  DisplayInv'
  <1>1. stack' = stack /\ curfile' \in FrameOrNone
    <2>1. CASE EndProgram
      <3>1. mode = "run" /\ stack' = stack /\ curfile' = stp.file
        BY <2>1 DEF EndProgram
      <3>2. stp = stack[Len(stack)] /\ Len(stack) \in 1..Len(stack)
        BY <3>1, RunningFacts
      <3> QED
        BY <3>1, <3>2 DEF DisplayInv, GoodStack, GoodFrame
    <2>2. CASE \E l \in 1..dp : UseFile(l)
      <3>1. PICK l \in 1..dp : UseFile(l)
        BY <2>2
      <3> QED
        BY <3>1, RunningFacts, ProgramAssumption DEF UseFile, FrameOrNone
    <2>3. CASE UseOutput
      BY <2>3, ProgramAssumption DEF UseOutput, FrameOrNone
    <2> QED
      BY <2>1, <2>2, <2>3 DEF vars, DisplayInv
  <1>2. GoodStack'
    BY <1>1 DEF DisplayInv, GoodStack, GoodFrame, GoodFormal
  <1>3. CASE EndProgram
    <2>1. mode' = "done" /\ display' \in Display
      <3>1. stp.odisp \in FrameOrNone
        <4>1. mode = "run"
          BY <1>3 DEF EndProgram
        <4>2. stp = stack[Len(stack)] /\ Len(stack) \in 1..Len(stack)
          BY <4>1, RunningFacts
        <4>3. stp \in BlockMark
          BY <4>2 DEF DisplayInv
        <4> QED
          BY <4>3 DEF BlockMark
      <3> QED
        BY <1>3, <3>1 DEF EndProgram, DisplayInv, Display
    <2> QED
      BY <1>1, <1>2, <2>1 DEF DisplayInv, GoodDisplay, GoodTarget
  <1>4. CASE UNCHANGED <<display, dp, mode, target>>
    <2>1. top' = top /\ \A h : Explains(h) => Explains(h)'
      BY <1>1, <1>4, SameFrames
    <2>2. GoodDisplay'
      BY <1>1, <1>4, <2>1 DEF DisplayInv, GoodDisplay
    <2>3. GoodTarget'
      BY <1>1, <1>4, <2>1 DEF DisplayInv, GoodTarget
    <2> QED
      BY <1>1, <1>2, <1>4, <2>2, <2>3 DEF DisplayInv
  <1> QED
    BY <1>3, <1>4 DEF UseFile, UseOutput, vars

\* Every step preserves the invariant.
LEMMA NextDisplay ==
    ASSUME DisplayInv, ~GotoOutOfFormals, [Next]_vars PROVE DisplayInv'
  BY CallDisplay, CallFormalDisplay, EndDisplay, GotoDisplay, UnwindDisplay,
     LandDisplay, OtherDisplay DEF Next, GotoLoop

\* Every frame can give back its caller's display, in every reachable state of
\* a program whose gotos do not leave a formal call (O_BEG, O_FCALL, O_END,
\* O_FRTN and O_GOTO of interp.c).
THEOREM DisplayInvariant ==
    ASSUME ~GotoOutOfFormals PROVE Spec => []DisplayInv
  BY InitDisplay, NextDisplay, PTL DEF Spec

\* The display of the running block shows its static nest, in every program
\* whose gotos do not leave a routine called as a formal (pxvars.h:80).
THEOREM DisplayShowsStaticNest ==
    ASSUME ~GotoOutOfFormals PROVE Spec => []DisplayIsStaticNest
  <1>1. DisplayInv => DisplayIsStaticNest
    BY RunningFacts DEF DisplayIsStaticNest, top
  <1> QED
    BY <1>1, DisplayInvariant, PTL

\* In those programs O_GOTO never fails to find the frame it looks for.
THEOREM GotoAlwaysFindsTarget ==
    ASSUME ~GotoOutOfFormals PROVE Spec => []GotoFindsTarget
  <1>1. DisplayInv => GotoFindsTarget
    BY DEF DisplayInv, GotoFindsTarget
  <1> QED
    BY <1>1, DisplayInvariant, PTL

-----------------------------------------------------------------------------
(***************************************************************************)
(* The active files.  A block mark keeps the current file of the caller,   *)
(* which is older than the frame, so it is still active when it comes back.*)
(***************************************************************************)
FilesInv ==
    /\ mode \in {"run", "goto"} =>
         /\ \A f \in open : f \in 1..top /\ stack[f].rtn \in HasFile
         /\ curfile \in open \cup {0}
         /\ \A i \in 1..top : stack[i].file \in { f \in open : f < i } \cup {0}
    /\ mode = "done" => open = {}

\* No file is active at the start.
LEMMA InitFiles == Init => FilesInv
  <1> SUFFICES ASSUME Init PROVE FilesInv
    OBVIOUS
  <1>1. 1 \in Levels
    BY MainFacts, NestFacts
  <1>2. top = 1 /\ stack[1].file = 0
    BY <1>1 DEF Init, top
  <1> QED
    BY <1>2 DEF Init, FilesInv

\* Closing the files of the youngest frame leaves those of older frames, and
\* with them the current file of its caller.
LEMMA PopFiles ==
    ASSUME DisplayInv, FilesInv, StackAboveC, mode \in {"run", "goto"},
           top' = top - 1, \A i \in 1..top - 1 : stack'[i] = stack[i],
           open' = PClose(top), curfile' = stp.file, mode' \in {"run", "goto"}
    PROVE  FilesInv'
  <1>1. PICK n \in 1..Len(stack) : n = top
    BY DEF DisplayInv, GoodDisplay
  <1>2. n \in Nat /\ stp = stack[n] /\ open' = { f \in open : f < n } /\ top' = n - 1
    BY <1>1 DEF PClose, stp, top
  <1>3. \A f \in open' : f \in 1..n - 1 /\ stack'[f].rtn \in HasFile
    BY <1>1, <1>2 DEF FilesInv
  <1>4. curfile' \in open' \cup {0}
    BY <1>1, <1>2 DEF FilesInv
  <1>5. ASSUME NEW i \in 1..n - 1
        PROVE  stack'[i].file \in { f \in open' : f < i } \cup {0}
    <2>1. stack'[i] = stack[i] /\ stack[i].file \in { f \in open : f < i } \cup {0}
      BY <1>1, <1>2 DEF FilesInv
    <2>2. \A f \in open : f < i => f \in open'
      BY <1>1, <1>2 DEF FilesInv
    <2> QED
      BY <2>1, <2>2
  <1> QED
    BY <1>2, <1>3, <1>4, <1>5 DEF FilesInv

\* O_BEG remembers a current file that is active.
LEMMA BeginFiles ==
    ASSUME DisplayInv, FilesInv, mode = "run", NEW q, NEW d, NEW formal, NEW saved,
           Begin(q, d, formal, saved), top' = Len(stack) + 1
    PROVE  FilesInv'
  <1>1. PICK n \in Nat : n = Len(stack) /\ top = n
    BY RunningFacts
  <1>2. /\ \A i \in 1..n : stack'[i] = stack[i]
        /\ stack'[n + 1].file = curfile
        /\ open' = open /\ curfile' = curfile /\ mode' = "run"
    BY <1>1 DEF Begin, DisplayInv
  <1>3. \A f \in open : f \in 1..n /\ stack[f].rtn \in HasFile
    BY <1>1 DEF FilesInv
  <1>4. ASSUME NEW i \in 1..n + 1
        PROVE  stack'[i].file \in { f \in open : f < i } \cup {0}
    <2>1. CASE i = n + 1
      BY <1>1, <1>2, <1>3, <2>1 DEF FilesInv
    <2>2. CASE i \in 1..n
      BY <1>1, <1>2, <2>2 DEF FilesInv
    <2> QED
      BY <1>1, <2>1, <2>2
  <1> QED
    BY <1>1, <1>2, <1>3, <1>4 DEF FilesInv

\* Every step preserves the invariant about files.
LEMMA NextFiles ==
    ASSUME DisplayInv, FilesInv, ~GotoOutOfFormals, StackAboveC, [Next]_vars
    PROVE  FilesInv'
  <1>0. DisplayInv'
    BY NextDisplay
  <1>1. ASSUME NEW q \in Routine, Call(q) PROVE FilesInv'
    <2>1. PICK f : Begin(q, display, f, <<>>)
      BY <1>1 DEF Call
    <2>2. mode = "run" /\ mode' = "run" /\ Len(stack') = Len(stack) + 1
      BY <1>1, <2>1 DEF Call, Begin, DisplayInv
    <2>3. top' = Len(stack) + 1
      BY <1>0, <2>2 DEF DisplayInv, GoodDisplay
    <2> QED
      BY <2>1, <2>2, <2>3, BeginFiles
  <1>2. ASSUME NEW l \in 1..dp, CallFormal(l) PROVE FilesInv'
    <2>1. PICK q, d, saved : Begin(q, d, NoFormal, saved)
      BY <1>2 DEF CallFormal
    <2>2. mode = "run" /\ mode' = "run" /\ Len(stack') = Len(stack) + 1
      BY <1>2, <2>1 DEF CallFormal, Begin, DisplayInv
    <2>3. top' = Len(stack) + 1
      BY <1>0, <2>2 DEF DisplayInv, GoodDisplay
    <2> QED
      BY <2>1, <2>2, <2>3, BeginFiles
  <1>3. CASE End
    <2>1. /\ mode = "run" /\ mode' = "run" /\ open' = PClose(top) /\ curfile' = stp.file
          /\ stack' = SubSeq(stack, 1, Len(stack) - 1)
      BY <1>3 DEF End, LeaveBlock, top
    <2>2. top = Len(stack) /\ Len(stack) \in 1..MaxDepth
      BY <2>1, RunningFacts
    <2>3. Len(stack') = top - 1 /\ \A i \in 1..top - 1 : stack'[i] = stack[i]
      BY <2>1, <2>2 DEF DisplayInv
    <2>4. top' = top - 1
      BY <1>0, <2>1, <2>3 DEF DisplayInv, GoodDisplay
    <2> QED
      BY <2>1, <2>3, <2>4, PopFiles
  <1>4. CASE Unwind
    <2>1. /\ mode = "goto" /\ mode' = "goto" /\ open' = PClose(top) /\ curfile' = stp.file
          /\ stack' = stack
      BY <1>4, NoGotoError DEF Unwind, top
    <2>2. top' = top - 1
      BY <1>4, UnwindPops
    <2> QED
      BY <2>1, <2>2, PopFiles
  <1>5. CASE Land
    <2>1. /\ mode = "goto" /\ mode' = "run" /\ top' = top /\ top = target
          /\ UNCHANGED <<open, curfile>> /\ stack' = SubSeq(stack, 1, top)
      BY <1>5 DEF Land, top
    <2>2. \A i \in 1..top : stack'[i] = stack[i]
      BY <2>1 DEF DisplayInv, GoodDisplay, GoodStack, Frames
    <2> QED
      BY <2>1, <2>2 DEF FilesInv
  <1>6. CASE EndProgram
    <2>1. mode = "run" /\ dp = 1 /\ mode' = "done" /\ open' = PClose(display[1])
      BY <1>6 DEF EndProgram
    <2>2. top = 1
      <3>1. stack[top].rtn = Main /\ top \in 1..Len(stack)
        BY <2>1, RunningFacts, NestFacts DEF running, DisplayInv, GoodDisplay
      <3> QED
        BY <3>1 DEF DisplayInv, GoodStack, GoodFrame
    <2>3. open' = {}
      BY <2>1, <2>2 DEF FilesInv, PClose, top
    <2> QED
      BY <2>1, <2>3 DEF FilesInv
  <1>7. ASSUME NEW l \in 1..dp, UseFile(l) PROVE FilesInv'
    <2>1. /\ mode = "run" /\ mode' = "run" /\ top' = top /\ stack' = stack
          /\ open' = open \cup {display[l]} /\ curfile' = display[l]
          /\ Nest[running][l] \in HasFile
      BY <1>7 DEF UseFile, top
    <2>2. /\ display[l] \in 1..top /\ stack[display[l]].rtn \in HasFile
      BY <2>1, RunningFacts
    <2> QED
      BY <2>1, <2>2 DEF FilesInv
  <1>8. CASE UseOutput \/ UNCHANGED vars \/ \E l \in 1..dp : Goto(l)
    BY <1>8 DEF UseOutput, Goto, MayJump, Search, vars, FilesInv, top
  <1> QED
    BY <1>1, <1>2, <1>3, <1>4, <1>5, <1>6, <1>7, <1>8 DEF Next, GotoLoop

\* PCLOSE closes exactly the files of the frame that is left, and every frame
\* remembers a current file older than itself (PCLOSE.c, O_BEG and O_END).
THEOREM FilesInvariant ==
    ASSUME ~GotoOutOfFormals, StackAboveC PROVE Spec => []FilesInv
  BY DisplayInvariant, InitFiles, NextFiles, PTL DEF Spec

\* In those programs, on a machine whose interpreter stack lies above the C
\* stack, no file outlives its block on the active file chain (PCLOSE.c:39).
THEOREM OpenFilesAreActive ==
    ASSUME ~GotoOutOfFormals, StackAboveC PROVE Spec => []OpenFilesInActiveFrames
  <1>1. DisplayInv /\ FilesInv => OpenFilesInActiveFrames
    BY DEF FilesInv, DisplayInv, GoodDisplay, OpenFilesInActiveFrames
  <1> QED
    BY <1>1, DisplayInvariant, FilesInvariant, PTL

\* ... and the current file is always one that is still active.
THEOREM CurfileIsActive ==
    ASSUME ~GotoOutOfFormals, StackAboveC PROVE Spec => []CurfileActive
  <1>1. FilesInv => CurfileActive
    BY DEF FilesInv, CurfileActive
  <1> QED
    BY <1>1, FilesInvariant, PTL

\* Type correctness, for programs whose gotos do not leave a formal call.
THEOREM TypeCorrect == ASSUME ~GotoOutOfFormals PROVE Spec => []TypeOK
  <1> DEFINE Rest == /\ open \subseteq Frames /\ runtst \in BOOLEAN
                     /\ target \in FrameOrNone /\ dp \in Levels
  <1>1. Init => Rest
    BY MainFacts, NestFacts, ProgramAssumption, InterpreterAssumption DEF Init, FrameOrNone
  <1>2. ASSUME DisplayInv, Rest, [Next]_vars PROVE Rest'
    <2>0. dp' \in Levels
      <3>1. CASE mode' \in {"run", "goto"}
        BY <1>2, <3>1, NextDisplay DEF DisplayInv, GoodDisplay
      <3>2. CASE mode' \notin {"run", "goto"}
        BY <1>2, <3>2 DEF Next, Call, CallFormal, Begin, End, LeaveBlock, EndProgram,
                          Goto, MayJump, Search, GotoLoop, Unwind, Land, UseFile, UseOutput, vars
      <3> QED
        BY <3>1, <3>2
    <2>1. ASSUME mode = "run", NEW l \in 1..dp PROVE display[l] \in Frames
      <3>1. display[l] \in 1..Len(stack) /\ Len(stack) \in 1..MaxDepth /\ MaxDepth \in Nat
        BY <1>2, <2>1, RunningFacts, ProgramAssumption
      <3> QED
        BY <3>1 DEF Frames
    <2>2. Frames \subseteq FrameOrNone /\ 0 \in FrameOrNone
      BY ProgramAssumption DEF Frames, FrameOrNone
    <2>3. ASSUME NEW q \in Routine, Call(q) PROVE Rest'
      BY <1>2, <2>0, <2>3, InterpreterAssumption DEF Call, Begin
    <2>4. ASSUME NEW l \in 1..dp, CallFormal(l) PROVE Rest'
      <3>1. /\ mode = "run" /\ Nest[running][l] \in TakesFormal
            /\ runtst' = Tests[stack[display[l]].formal.rtn]
            /\ UNCHANGED <<open, target>>
        BY <2>4 DEF CallFormal, Begin
      <3>2. display[l] \in 1..Len(stack) /\ stack[display[l]].rtn \in TakesFormal
        BY <1>2, <3>1, RunningFacts
      <3> QED
        BY <1>2, <2>0, <3>1, <3>2, FormalFacts, InterpreterAssumption DEF Passable
    <2>5. CASE End
      <3>1. stp.rtn \in Routine
        BY <1>2, <2>5, RunningFacts DEF End, LeaveBlock, running
      <3> QED
        BY <1>2, <2>0, <2>5, <3>1, InterpreterAssumption DEF End, LeaveBlock, PClose
    <2>6. CASE EndProgram \/ GotoLoop \/ UseOutput \/ UNCHANGED vars
      BY <1>2, <2>0, <2>2, <2>6
         DEF EndProgram, GotoLoop, Unwind, Land, UseOutput, vars, PClose
    <2>7. ASSUME NEW l \in 1..dp, Goto(l) \/ UseFile(l) PROVE Rest'
      BY <1>2, <2>0, <2>1, <2>2, <2>7 DEF Goto, MayJump, Search, UseFile
    <2> QED
      BY <1>2, <2>3, <2>4, <2>5, <2>6, <2>7 DEF Next
  <1>3. DisplayInv /\ Rest => TypeOK
    BY DEF DisplayInv, TypeOK, Display
  <1> QED
    BY <1>1, <1>2, <1>3, DisplayInvariant, PTL DEF Spec
-----------------------------------------------------------------------------
\* A sequence is its front with its last element appended.
LEMMA OneMore ==
    ASSUME NEW k \in Nat, NEW E, NEW s \in [1..k + 1 -> E]
    PROVE  Append([j \in 1..k |-> s[j]], s[k + 1]) = s
  <1>1. [j \in 1..k |-> s[j]] \in [1..k -> E]
    OBVIOUS
  <1>2. s \in Seq(E) /\ Len(s) = k + 1
    OBVIOUS
  <1>3. PICK front \in Seq(E) : front = [j \in 1..k |-> s[j]]
    <2>1. [j \in 1..k |-> s[j]] \in Seq(E)
      BY <1>1
    <2> QED
      BY <2>1
  <1>4. Len(front) = k /\ \A j \in 1..k : front[j] = s[j]
    BY <1>3
  <1>5. /\ Append(front, s[k + 1]) \in Seq(E) /\ Len(Append(front, s[k + 1])) = k + 1
        /\ \A j \in 1..k + 1 : Append(front, s[k + 1])[j] = s[j]
    BY <1>2, <1>4
  <1> QED
    BY <1>2, <1>3, <1>5

(***************************************************************************)
(* The backtrace.  Where no frame was called as a formal, undoing one      *)
(* entry of the display is all that GiveBack does, so that the walk goes   *)
(* through the displays h[i] of the invariant.                             *)
(***************************************************************************)
\* One iteration of the loop, as Walk does it: from the walk so far to the next.
Longer(ws, n) == LET w == ws[Len(ws)]
                 IN  IF w.mydp = 1 \/ Lost(w) \/ Len(ws) < n - 1
                     THEN ws
                     ELSE Append(ws, Caller(w))

\* A function that satisfies Walk's equation is Walk.
LEMMA WalkIs ==
    ASSUME NEW W,
           W = [n \in 1..MaxDepth + 1 |-> IF n = 1 THEN <<Here>> ELSE Longer(W[n - 1], n)]
    PROVE  Walk = W
  <1> DEFINE D == 1..MaxDepth + 1
  <1>1. MaxDepth \in Nat
    BY ProgramAssumption
  <1>2. Walk = [n \in D |-> IF n = 1 THEN <<Here>> ELSE Longer(Walk[n - 1], n)]
    BY Zenon DEF Walk, Longer
  <1>3. SUFFICES ASSUME { n \in D : Walk[n] # W[n] } # {} PROVE FALSE
    BY <1>2
  <1>4. PICK m \in { n \in D : Walk[n] # W[n] } : \A n \in { k \in D : Walk[k] # W[k] } : m <= n
    <2>1. { n \in D : Walk[n] # W[n] } \in SUBSET Nat
      BY <1>1
    <2> HIDE DEF D
    <2> QED
      BY <1>3, <2>1, Smallest
  <1>5. m # 1 => m - 1 \in D /\ Walk[m - 1] = W[m - 1]
    BY <1>1, <1>4
  <1>6. m \in D /\ Walk[m] # W[m]
    BY <1>4
  <1>7. Walk[m] = IF m = 1 THEN <<Here>> ELSE Longer(Walk[m - 1], m)
    BY <1>2, <1>6
  <1>8. W[m] = IF m = 1 THEN <<Here>> ELSE Longer(W[m - 1], m)
    BY <1>6
  <1> QED
    BY <1>5, <1>6, <1>7, <1>8

\* Undoing the display entry of frame i leads to frame i - 1.
LEMMA CallerIs ==
    ASSUME DisplayInv, mode = "run", NEW h \in [1..top -> Display], Explains(h),
           NEW i \in 2..top, stack[i].saved = <<>>
    PROVE  Caller([mydp |-> Level(stack[i].rtn), disp |-> h[i]])
             = [mydp |-> Level(stack[i - 1].rtn), disp |-> h[i - 1]]
  <1> DEFINE l == Level(stack[i].rtn)
  <1>1. i \in 1..top /\ h[i] \in Display /\ Restores(h, i) /\ h[i][l] = i
    BY DEF Explains, Sees
  <1>2. GiveBack(stack[i], l, h[i]) = [h[i] EXCEPT ![l] = stack[i].odisp]
    <2>1. DOMAIN stack[i].saved = {}
      OBVIOUS
    <2>2. GiveBack(stack[i], l, h[i]) = [k \in Levels |-> IF k = l THEN stack[i].odisp ELSE h[i][k]]
      BY <2>1 DEF GiveBack
    <2> QED
      BY <1>1, <2>2 DEF Display
  <1> QED
    BY <1>1, <1>2 DEF Caller, Restores

\* Between statements the backtrace names every active block, each once, from the running one
\* to the program block, unless one of them was called as a formal (px_backtrace of utilities.c).
THEOREM BacktraceIsRight ==
    ASSUME ~GotoOutOfFormals PROVE Spec => []BacktraceOutsideFormals
  <1>1. ASSUME DisplayInv, mode = "run", \A i \in 1..Len(stack) : stack[i].saved = <<>>
        PROVE  Backtrace = [n \in 1..Len(stack) |-> Len(stack) + 1 - n]
    <2>1. PICK h \in [1..top -> Display] : Explains(h)
      BY <1>1 DEF DisplayInv, GoodDisplay
    <2>2. PICK N \in 1..MaxDepth : N = Len(stack) /\ N = top
      BY <1>1, RunningFacts
    <2>3. MaxDepth \in Nat /\ N \in Nat
      BY <2>2, ProgramAssumption
    <2> DEFINE Stop(j) == [mydp |-> Level(stack[N + 1 - j].rtn), disp |-> h[N + 1 - j]]
               Reach(n) == IF n <= N THEN n ELSE N
               W == [n \in 1..MaxDepth + 1 |-> [j \in 1..Reach(n) |-> Stop(j)]]
    <2>4. ASSUME NEW j \in 1..N
          PROVE  /\ N + 1 - j \in 1..N
                 /\ Stop(j).mydp = 1 <=> j = N
                 /\ Stop(j).disp[Stop(j).mydp] = N + 1 - j
                 /\ ~Lost(Stop(j))
                 /\ j # N => Caller(Stop(j)) = Stop(j + 1)
      <3>1. PICK i \in 1..N : i = N + 1 - j
        BY <2>3
      <3>2. GoodFrame(i) /\ Sees(h[i], i)
        BY <1>1, <2>1, <2>2 DEF DisplayInv, GoodStack, Explains
      <3>3. Level(stack[i].rtn) = 1 <=> i = 1
        BY <3>2, NestFacts, MainFacts DEF GoodFrame
      <3>4. h[i][Level(stack[i].rtn)] = i
        BY <3>2 DEF Sees
      <3>5. j # N => /\ i \in 2..top /\ N + 1 - (j + 1) = i - 1 
                     /\ stack[i].saved = <<>>
        BY <1>1, <2>2, <2>3, <3>1
      <3>6. j # N => Caller(Stop(j)) = Stop(j + 1)
        BY <1>1, <2>1, <3>1, <3>5, CallerIs
      <3> QED
        BY <2>3, <3>1, <3>3, <3>4, <3>6 DEF Lost
    <2>5. ASSUME NEW n \in 1..MaxDepth + 1
          PROVE  /\ n \in Nat /\ Reach(n) \in 1..N
                 /\ W[n] \in Seq({ Stop(j) : j \in 1..N }) /\ Len(W[n]) = Reach(n)
                 /\ \A j \in 1..Reach(n) : j \in 1..N /\ W[n][j] = Stop(j)
      <3> HIDE DEF Stop
      <3>1. n \in Nat /\ Reach(n) \in 1..N
        BY <2>3
      <3>2. W[n] = [j \in 1..Reach(n) |-> Stop(j)]
        OBVIOUS
      <3> HIDE DEF W, Reach
      <3>3. \A j \in 1..Reach(n) : j \in 1..N
        BY <2>3, <3>1
      <3>4. W[n] \in Seq({ Stop(j) : j \in 1..N })
        BY <2>3, <3>1, <3>2, <3>3
      <3> QED
        BY <2>3, <3>1, <3>2, <3>3, <3>4
    <2> HIDE DEF Stop
    <2>6. ASSUME NEW n \in 1..MaxDepth + 1
          PROVE  W[n] = IF n = 1 THEN <<Here>> ELSE Longer(W[n - 1], n)
      <3>1. CASE n = 1
        <4>1. Here = Stop(1)
          BY <1>1, <2>1, <2>2, <2>3, RunningFacts DEF Stop, Here, Explains, running
        <4>2. Reach(1) = 1
          BY <2>3
        <4>3. W[1] = [j \in 1..1 |-> Stop(j)]
          BY <2>3, <4>2
        <4> QED
          BY <3>1, <4>1, <4>3
      <3>2. CASE n # 1
        <4> DEFINE m == Reach(n - 1)
        <4>1. n - 1 \in 1..MaxDepth + 1 /\ n \in Nat
          BY <2>3, <3>2
        <4>2. W[n - 1] = [j \in 1..m |-> Stop(j)] /\ m \in 1..N /\ Len(W[n - 1]) = m /\ W[n - 1][m] = Stop(m)
          BY <2>3, <4>1, <2>5
        <4>3. CASE m = N
          <5>1. Reach(n) = N
            BY <2>3, <4>1, <4>3
          <5>2. W[n] = [j \in 1..N |-> Stop(j)]
            BY <5>1
          <5>3. Longer(W[n - 1], n) = W[n - 1]
            BY <2>4, <4>2, <4>3 DEF Longer
          <5> QED
            BY <3>2, <4>2, <4>3, <5>2, <5>3
        <4>4. CASE m # N
          <5>1. m = n - 1 /\ Reach(n) = n /\ m + 1 = n /\ n \in 1..N
            BY <2>3, <4>1, <4>4
          <5>2. Longer(W[n - 1], n) = Append(W[n - 1], Stop(m + 1))
            <6>1. ~(Stop(m).mydp = 1 \/ Lost(Stop(m)) \/ m < n - 1) /\ Caller(Stop(m)) = Stop(m + 1)
              BY <2>4, <4>2, <4>4, <5>1
            <6> HIDE DEF W
            <6> QED
              BY <4>2, <6>1 DEF Longer
          <5>3. W[n] = [j \in 1..n |-> Stop(j)]
            BY <5>1
          <5>4. Append([j \in 1..m |-> Stop(j)], Stop(m + 1)) = [j \in 1..n |-> Stop(j)]
            <6>1. PICK k \in Nat : k = m /\ n = k + 1
              BY <4>1, <5>1
            <6>2. PICK all : all = [j \in 1..k + 1 |-> Stop(j)]
              OBVIOUS
            <6>3. all \in [1..k + 1 -> { Stop(j) : j \in 1..k + 1 }]
              BY <6>2
            <6>4. Append([j \in 1..k |-> all[j]], all[k + 1]) = all
              BY <6>3, OneMore
            <6>5. all[k + 1] = Stop(m + 1) /\ [j \in 1..k |-> all[j]] = [j \in 1..m |-> Stop(j)]
              BY <6>1, <6>2
            <6> HIDE DEF m, Reach
            <6>6. [j \in 1..n |-> Stop(j)] = all
              BY <6>1, <6>2
            <6>7. Append([j \in 1..m |-> Stop(j)], Stop(m + 1)) = all
              BY <6>4, <6>5
            <6> QED
              BY <6>6, <6>7
          <5>5. Longer(W[n - 1], n) = W[n]
            <6> HIDE DEF W, m, Reach
            <6>1. W[n - 1] = [j \in 1..m |-> Stop(j)]
              BY <4>2
            <6> QED
              BY <5>2, <5>3, <5>4, <6>1
          <5> HIDE DEF W
          <5> QED
            BY <3>2, <5>5
        <4> QED
          BY <4>3, <4>4
      <3> QED
        BY <3>1, <3>2
    <2>7. Walk = W
      <3>1. W = [n \in 1..MaxDepth + 1 |-> W[n]]
        OBVIOUS
      <3> HIDE DEF W
      <3>2. [n \in 1..MaxDepth + 1 |-> W[n]]
              = [n \in 1..MaxDepth + 1 |-> IF n = 1 THEN <<Here>> ELSE Longer(W[n - 1], n)]
        BY <2>6
      <3> QED
        BY <3>1, <3>2, WalkIs
    <2>8. Reach(MaxDepth + 1) = N /\ MaxDepth + 1 \in 1..MaxDepth + 1
      BY <2>3
    <2>9. Walk[MaxDepth + 1] = [j \in 1..N |-> Stop(j)] /\ Len(Walk[MaxDepth + 1]) = N
      BY <2>5, <2>7, <2>8
    <2>10. Backtrace = [n \in 1..N |-> Stop(n).disp[Stop(n).mydp]]
      BY <2>9 DEF Backtrace
    <2> QED
      BY <2>2, <2>4, <2>10
  <1>2. DisplayInv => BacktraceOutsideFormals
    BY <1>1 DEF BacktraceOutsideFormals, BacktraceListsCallers
  <1> QED
    BY <1>2, DisplayInvariant, PTL
-----------------------------------------------------------------------------
(***************************************************************************)
(* The refinement.  The walk of DisplayAt down the stack finds the         *)
(* displays h[i] of the invariant.  A step that enters or leaves a frame   *)
(* changes the walk above the frame only, and with it the activations.     *)
(***************************************************************************)
\* g walks from frame t of the frames s, whose display is d, down to the first one.
Unwinding(g, s, t, d) ==
    g = [i \in 1..t |-> IF i = t THEN d
                        ELSE GiveBack(s[i + 1], Level(s[i + 1].rtn), g[i + 1])]

\* Two walks that agree at frame m agree below it, if the frames are the same.
LEMMA SameWalk ==
    ASSUME NEW g, NEW s, NEW t \in Nat, NEW d, Unwinding(g, s, t, d),
           NEW g2, NEW s2, NEW t2 \in Nat, NEW d2, Unwinding(g2, s2, t2, d2),
           NEW m \in Nat, m <= t, m <= t2, m > 0 => g2[m] = g[m],
           \A i \in 2..m : s2[i] = s[i]
    PROVE  \A i \in 1..m : g2[i] = g[i]
  <1> DEFINE Bad == { k \in Nat : k < m /\ g2[m - k] # g[m - k] }
  <1>1. SUFFICES ASSUME Bad # {} PROVE FALSE
    <2>1. ASSUME NEW i \in 1..m, g2[i] # g[i], Bad = {} PROVE FALSE
      <3>1. m - i \in Nat /\ m - i < m /\ m - (m - i) = i
        OBVIOUS
      <3> QED
        BY <2>1, <3>1
    <2> QED
      BY <2>1
  <1>2. PICK k \in Bad : \A j \in Bad : k <= j
    <2>1. Bad \in SUBSET Nat
      OBVIOUS
    <2> HIDE DEF Bad
    <2> QED
      BY <1>1, <2>1, Smallest
  <1>3. PICK i \in 1..m : i = m - k /\ g2[i] # g[i]
    BY <1>2
  <1>4. i # m /\ i + 1 \in 2..m
    BY <1>3
  <1>5. g2[i + 1] = g[i + 1]
    <2>1. k - 1 \in Nat /\ k - 1 < m /\ m - (k - 1) = i + 1 /\ ~(k <= k - 1)
      BY <1>2, <1>3, <1>4
    <2> QED
      BY <1>2, <2>1
  <1>6. i \in 1..t /\ i # t /\ i \in 1..t2 /\ i # t2
    BY <1>3, <1>4
  <1>7. g[i] = GiveBack(s[i + 1], Level(s[i + 1].rtn), g[i + 1])
    BY <1>6 DEF Unwinding
  <1>8. g2[i] = GiveBack(s2[i + 1], Level(s2[i + 1].rtn), g2[i + 1])
    BY <1>6 DEF Unwinding
  <1> QED
    BY <1>3, <1>4, <1>5, <1>7, <1>8

\* The witness of the invariant is such a walk.
LEMMA ExplainsWalk ==
    ASSUME NEW s, NEW t \in Nat, NEW d, NEW h \in [1..t -> Display], h[t] = d,
           \A i \in 2..t : h[i - 1] = GiveBack(s[i], Level(s[i].rtn), h[i])
    PROVE  Unwinding(h, s, t, d)
  <1>1. ASSUME NEW i \in 1..t
        PROVE  h[i] = IF i = t THEN d ELSE GiveBack(s[i + 1], Level(s[i + 1].rtn), h[i + 1])
    <2>1. i # t => i + 1 \in 2..t /\ (i + 1) - 1 = i
      OBVIOUS
    <2> QED
      BY <2>1
  <1>2. h = [i \in 1..t |-> h[i]]
    OBVIOUS
  <1> QED
    BY <1>1, <1>2 DEF Unwinding

\* DisplayAt walks down from the youngest frame that is not left.
LEMMA DisplayAtWalks ==
    DisplayInv /\ mode \in {"run", "goto"} => Unwinding(DisplayAt, stack, top, display)
  <1> SUFFICES ASSUME DisplayInv, mode \in {"run", "goto"}
               PROVE  Unwinding(DisplayAt, stack, top, display)
    OBVIOUS
  <1>1. PICK h \in [1..top -> Display] : Explains(h)
    BY DEF DisplayInv, GoodDisplay
  <1>2. top \in Nat
    BY DEF DisplayInv, GoodDisplay, GoodStack
  <1>3. Unwinding(h, stack, top, display)
    BY <1>1, <1>2, ExplainsWalk DEF Explains, Restores
  <1> QED
    BY <1>3, Zenon DEF DisplayAt, Unwinding, top

\* The same of the next state.
LEMMA DisplayAtWalksNext ==
    ASSUME DisplayInv', mode' \in {"run", "goto"}
    PROVE  Unwinding(DisplayAt', stack', top', display')
  <1>1. (DisplayInv /\ mode \in {"run", "goto"} => Unwinding(DisplayAt, stack, top, display))'
    BY DisplayAtWalks, PTL
  <1> QED
    BY <1>1

\* It begins at the display itself.
LEMMA DisplayAtTop ==
    ASSUME DisplayInv, mode \in {"run", "goto"} PROVE DisplayAt[top] = display
  <1>1. top \in 1..top
    BY DEF DisplayInv, GoodDisplay, GoodStack
  <1> QED
    BY <1>1, DisplayAtWalks DEF Unwinding

\* The variables of PxActivations.
Acts == [i \in 1..Live |-> Activation(i)]
Opened == { f \in open : f <= Live }
Current == IF mode = "goto" /\ target < Len(stack) THEN stack[target + 1].file ELSE curfile

\* The frames up to m stay the same activations, if frame m gets back the same display.
LEMMA KeepsActivations ==
    ASSUME DisplayInv, mode \in {"run", "goto"}, DisplayInv', mode' \in {"run", "goto"},
           NEW m \in Nat, m <= top, m <= top', \A i \in 1..m : stack'[i] = stack[i],
           m > 0 => DisplayAt'[m] = DisplayAt[m]
    PROVE  \A i \in 1..m : Activation(i)' = Activation(i)
  <1>1. top \in Nat /\ top' \in Nat
    BY DEF DisplayInv, GoodDisplay, GoodStack
  <1>2. \A i \in 2..m : stack'[i] = stack[i]
    OBVIOUS
  <1>3. \A i \in 1..m : DisplayAt'[i] = DisplayAt[i]
    BY <1>1, <1>2, DisplayAtWalks, DisplayAtWalksNext, SameWalk
  <1> QED
    BY <1>3 DEF Activation

\* The activation that runs.
LEMMA MeIs ==
    ASSUME DisplayInv, mode = "run"
    PROVE  /\ Live = Len(stack) /\ Len(stack) \in 1..MaxDepth /\ Len(Acts) = Len(stack) /\ Acts # <<>>
           /\ Current = curfile
           /\ Abs!me = Activation(Len(stack)) /\ Abs!me.rtn = running
           /\ Abs!me.env = [l \in 1..dp |-> display[l]] /\ Len(Abs!me.env) = dp
           /\ dp \in 1..DSPLYSZ
  <1>1. /\ top = Len(stack) /\ Len(stack) \in 1..MaxDepth /\ dp = Level(running) /\ dp \in Levels
        /\ MaxDepth \in Nat /\ DSPLYSZ \in Nat
    BY RunningFacts, ProgramAssumption, InterpreterAssumption
  <1>2. Live = Len(stack) /\ Current = curfile
    BY DEF Live, Current
  <1>3. Acts \in Seq({ Activation(i) : i \in 1..Live }) /\ Len(Acts) = Len(stack)
        /\ Acts[Len(stack)] = Activation(Len(stack))
    BY <1>1, <1>2 DEF Acts
  <1>4. DisplayAt[Len(stack)] = display
    BY <1>1, DisplayAtTop
  <1>5. SubSeq(display, 1, dp) = [l \in 1..dp |-> display[l]] /\ Len([l \in 1..dp |-> display[l]]) = dp
    BY <1>1 DEF DisplayInv, Display, Levels
  <1>6. Abs!me = Activation(Len(stack))
    BY <1>3 DEF Abs!me, Acts
  <1> QED
    BY <1>1, <1>2, <1>3, <1>4, <1>5, <1>6 DEF Activation, running, Levels

\* In a formal argument: the closure as a procedure value of PxActivations.
Value(c) == [rtn |-> c.rtn, env |-> c.fdisp]

\* O_BEG puts one block mark on the stack.
LEMMA Pushed ==
    ASSUME DisplayInv, NEW q, NEW d, NEW formal, NEW saved, Begin(q, d, formal, saved)
    PROVE  /\ Len(stack) \in Nat /\ Len(stack') = Len(stack) + 1
           /\ \A i \in 1..Len(stack) : stack'[i] = stack[i]
           /\ stack'[Len(stack) + 1] = [rtn |-> q, dp |-> dp, odisp |-> d[Level(q)], file |-> curfile,
                                        formal |-> formal, saved |-> saved]
  <1> DEFINE b == [rtn |-> q, dp |-> dp, odisp |-> d[Level(q)], file |-> curfile,
                   formal |-> formal, saved |-> saved]
  <1>1. stack \in Seq(BlockMark) /\ stack' = Append(stack, b)
    BY DEF Begin, DisplayInv
  <1> HIDE DEF b
  <1>2. PICK S : stack \in Seq(S) /\ b \in S
    <2>1. stack \in Seq(BlockMark \cup {b})
      BY <1>1
    <2> QED
      BY <2>1
  <1>3. PICK t : t = Append(stack, b)
    OBVIOUS
  <1>4. Len(stack) \in Nat /\ Len(t) = Len(stack) + 1
    BY <1>2, <1>3
  <1>5. t[Len(stack) + 1] = b
    BY <1>2, <1>3
  <1>6. \A i \in 1..Len(stack) : t[i] = stack[i]
    BY <1>2, <1>3
  <1> QED
    BY <1>1, <1>3, <1>4, <1>5, <1>6 DEF b

\* O_BEG enters an activation of q in the environment that display d shows.
LEMMA BeginEnters ==
    ASSUME DisplayInv, FilesInv, mode = "run", DisplayInv',
           NEW q \in Routine, NEW d \in Display, NEW formal, NEW saved,
           \A k \in Levels : display[k] = IF k \in DOMAIN saved THEN saved[k] ELSE d[k],
           Begin(q, d, formal, saved),
           NEW env, env = [l \in 1..Level(q) - 1 |-> d[l]]
    PROVE  Abs!Enter(q, env, Value(formal))
  <1>1. PICK n \in Nat : n = Len(stack) /\ n = top /\ n \in 1..MaxDepth /\ MaxDepth \in Nat
    BY RunningFacts, ProgramAssumption
  <1>2. /\ n < MaxDepth /\ mode' = "run" /\ open' = open /\ curfile' = curfile
        /\ Len(stack') = n + 1 /\ \A i \in 1..n : stack'[i] = stack[i]
        /\ stack'[n + 1] = [rtn |-> q, dp |-> dp, odisp |-> d[Level(q)], file |-> curfile,
                            formal |-> formal, saved |-> saved]
        /\ display' = [k \in Levels |-> IF k = Level(q) THEN n + 1 ELSE d[k]] /\ dp' = Level(q)
    BY <1>1, Pushed DEF Begin
  <1>3. Level(q) \in Levels /\ DSPLYSZ \in Nat /\ top' = n + 1
    BY <1>2, NestFacts, InterpreterAssumption DEF top
  <1>4. DisplayAt'[n + 1] = display' /\ DisplayAt'[n] = display
    <2>1. Unwinding(DisplayAt', stack', n + 1, display')
      BY <1>2, <1>3, DisplayAtWalksNext
    <2>2. DisplayAt'[n + 1] = display'
          /\ DisplayAt'[n] = GiveBack(stack'[n + 1], Level(q), display')
      BY <1>1, <1>2, <2>1 DEF Unwinding
    <2>3. GiveBack(stack'[n + 1], Level(q), display')
            = [k \in Levels |-> IF k \in DOMAIN saved THEN saved[k]
                                ELSE IF k = Level(q) THEN d[Level(q)] ELSE display'[k]]
      BY <1>2 DEF GiveBack
    <2>4. ASSUME NEW k \in Levels
          PROVE  display[k] = IF k \in DOMAIN saved THEN saved[k]
                              ELSE IF k = Level(q) THEN d[Level(q)] ELSE display'[k]
      BY <1>2
    <2>5. display = [k \in Levels |-> display[k]]
      BY DEF DisplayInv, Display
    <2> QED
      BY <2>2, <2>3, <2>4, <2>5
  <1>5. \A i \in 1..n : Activation(i)' = Activation(i)
    <2>1. DisplayAt[n] = display
      BY <1>1, DisplayAtTop
    <2> QED
      BY <1>1, <1>2, <1>3, <1>4, <2>1, KeepsActivations
  <1>6. SubSeq(display', 1, Level(q)) = Append(env, n + 1)
    <2>1. PICK m \in Nat : Level(q) = m + 1
      BY <1>3 DEF Levels
    <2>2. PICK s : s = [l \in 1..m + 1 |-> display'[l]]
      OBVIOUS
    <2>3. s \in [1..m + 1 -> FrameOrNone]
      <3>1. \A l \in 1..m + 1 : l \in Levels
        BY <1>3, <2>1 DEF Levels
      <3> QED
        BY <2>2, <3>1 DEF DisplayInv, Display
    <2>4. Append([l \in 1..m |-> s[l]], s[m + 1]) = s
      BY <2>3, OneMore
    <2>5. s[m + 1] = n + 1 /\ \A l \in 1..m : s[l] = d[l]
      BY <1>2, <1>3, <2>1, <2>2 DEF Levels
    <2>6. [l \in 1..m |-> s[l]] = env
      BY <2>1, <2>5
    <2>7. SubSeq(display', 1, Level(q)) = s
      BY <1>3, <2>1, <2>2
    <2> QED
      BY <2>4, <2>5, <2>6, <2>7
  <1>7. Activation(n + 1)' = [rtn |-> q, env |-> Append(env, n + 1),
                              formal |-> Value(formal), file |-> curfile]
    <2>1. Activation(n + 1)' = [rtn |-> stack'[n + 1].rtn,
                                env |-> SubSeq(DisplayAt'[n + 1], 1, Level(stack'[n + 1].rtn)),
                                formal |-> Value(stack'[n + 1].formal), file |-> stack'[n + 1].file]
      BY DEF Activation, Value
    <2>2. /\ stack'[n + 1].rtn = q /\ stack'[n + 1].formal = formal /\ stack'[n + 1].file = curfile
      BY <1>2
    <2> QED
      BY <1>4, <1>6, <2>1, <2>2
  <1>8. Live = n /\ Len(Acts) = n /\ Current = curfile /\ Live' = n + 1 /\ Current' = curfile
    BY <1>1, <1>2, MeIs DEF Live, Current
  <1>9. Acts' = Append(Acts, Activation(n + 1)')
    <2>1. PICK s : s = [i \in 1..n + 1 |-> Activation(i)']
      OBVIOUS
    <2>2. s \in [1..n + 1 -> { Activation(i)' : i \in 1..n + 1 }]
      BY <2>1
    <2>3. Append([i \in 1..n |-> s[i]], s[n + 1]) = s
      BY <2>2, OneMore
    <2>4. [i \in 1..n |-> s[i]] = Acts /\ s[n + 1] = Activation(n + 1)'
      BY <1>1, <1>5, <1>8, <2>1 DEF Acts
    <2>5. Acts' = s
      BY <1>8, <2>1 DEF Acts
    <2> QED
      BY <2>3, <2>4, <2>5
  <1>10. Opened' = Opened
    BY <1>1, <1>2, <1>8 DEF Opened, FilesInv
  <1> QED
    BY <1>1, <1>2, <1>7, <1>8, <1>9, <1>10 DEF Abs!Enter, Acts, Opened, Current

\* A procedural parameter carries the displays of the levels around its routine, and no more.
EnvSizes == \A i \in 1..Len(stack) :
                stack[i].rtn \in TakesFormal =>
                    Len(stack[i].formal.fdisp) = Level(stack[i].formal.rtn) - 1

\* O_GOTO has just given back the current file of the frame that it has left.
GotoFile == mode = "goto" /\ top < Len(stack) => curfile = stack[top + 1].file

MapInv == DisplayInv /\ FilesInv /\ EnvSizes /\ GotoFile

\* The program is the same in both modules.
LEMMA SameProgram ==
    /\ \A r : Abs!Level(r) = Level(r)
    /\ \A q, r : Abs!Visible(q, r) = Visible(q, r)
    /\ Abs!Passable = Passable /\ Abs!NoProc = Value(NoFormal)
  BY DEF Abs!Level, Level, Abs!Visible, Visible, Abs!Passable, Passable, Abs!NoProc, NoFormal, Value

\* The environment in which the running block may call q.
LEMMA EnvironmentOf ==
    ASSUME DisplayInv, mode = "run", NEW q \in Routine, Visible(q, running)
    PROVE  Abs!ProcValue(q) = [rtn |-> q, env |-> [l \in 1..Level(q) - 1 |-> display[l]]]
  <1>1. /\ Level(q) - 1 \in Nat /\ Level(q) - 1 <= dp /\ dp \in Nat
        /\ \A l \in 1..Level(q) - 1 : l \in 1..dp
    BY VisibleEnv, MeIs, RunningFacts, InterpreterAssumption DEF Visible
  <1>2. SubSeq([l \in 1..dp |-> display[l]], 1, Level(q) - 1) = [l \in 1..Level(q) - 1 |-> display[l]]
    BY <1>1
  <1>3. Abs!ProcValue(q) = [rtn |-> q, env |-> SubSeq(Abs!me.env, 1, Level(q) - 1)]
    BY SameProgram DEF Abs!ProcValue
  <1> QED
    BY <1>2, <1>3, MeIs

\* The procedural parameter of the block at level l.
LEMMA FormalOf ==
    ASSUME DisplayInv, mode = "run", NEW l \in 1..dp
    PROVE  /\ display[l] \in 1..Len(stack) /\ Abs!me.env[l] = display[l]
           /\ Acts[Abs!me.env[l]].formal = Value(stack[display[l]].formal)
  <1>1. display[l] \in 1..Len(stack) /\ Abs!me.env[l] = display[l] /\ Live = Len(stack)
    BY RunningFacts, MeIs
  <1>2. Acts[display[l]] = Activation(display[l])
    BY <1>1 DEF Acts
  <1> QED
    BY <1>1, <1>2 DEF Activation, Value

\* What a block may pass on is what PxActivations lets it pass on.
LEMMA ActualIsValue ==
    ASSUME MapInv, mode = "run", NEW f \in Actuals
    PROVE  /\ Value(f) \in Abs!ProcValues
           /\ Len(f.fdisp) = Level(f.rtn) - 1
  <1>1. CASE \E p \in Passable : Visible(p, running) /\ f = Fsav(p)
    <2>1. PICK p \in Passable : Visible(p, running) /\ f = Fsav(p)
      BY <1>1
    <2>2. p \in Routine /\ Level(p) - 1 \in Nat
      BY <2>1, VisibleEnv, InterpreterAssumption DEF Passable, MapInv
    <2>3. Value(f) = Abs!ProcValue(p) /\ Len(f.fdisp) = Level(f.rtn) - 1
      BY <2>1, <2>2, EnvironmentOf DEF MapInv, Value, Fsav
    <2> QED
      BY <2>1, <2>3, SameProgram, MeIs DEF MapInv, Abs!ProcValues
  <1>2. CASE \E l \in 1..dp : Nest[running][l] \in TakesFormal /\ f = stack[display[l]].formal
    <2>1. PICK l \in 1..dp : Nest[running][l] \in TakesFormal /\ f = stack[display[l]].formal
      BY <1>2
    <2>2. Acts[Abs!me.env[l]].formal = Value(f) /\ display[l] \in 1..Len(stack)
      BY <2>1, FormalOf DEF MapInv
    <2>3. l \in { k \in 1..Len(Abs!me.env) : Nest[Abs!me.rtn][k] \in TakesFormal }
      BY <2>1, MeIs DEF MapInv
    <2>4. stack[display[l]].rtn \in TakesFormal
      BY <2>1, RunningFacts DEF MapInv
    <2>5. Value(f) \in Abs!ProcValues
      BY <2>2, <2>3 DEF Abs!ProcValues, Acts
    <2> QED
      BY <2>1, <2>2, <2>4, <2>5 DEF MapInv, EnvSizes
  <1> QED
    BY <1>1, <1>2 DEF Actuals

\* O_CALL.
LEMMA CallMaps ==
    ASSUME MapInv, DisplayInv', NEW q \in Routine, Call(q)
    PROVE  Abs!ACall(q)
  <1>1. mode = "run" /\ Visible(q, running) /\ q # Main
    BY DEF Call, Visible
  <1>2. PICK f \in IF q \in TakesFormal THEN Actuals ELSE {NoFormal} : Begin(q, display, f, <<>>)
    BY DEF Call
  <1>3. Value(f) \in IF q \in TakesFormal THEN Abs!ProcValues ELSE {Abs!NoProc}
    BY <1>1, <1>2, ActualIsValue, SameProgram
  <1>4. Abs!ProcValue(q).env = [l \in 1..Level(q) - 1 |-> display[l]]
    <2>1. Abs!ProcValue(q) = [rtn |-> q, env |-> [l \in 1..Level(q) - 1 |-> display[l]]]
      BY <1>1, EnvironmentOf DEF MapInv
    <2> QED
      BY <2>1
  <1>5. Abs!Enter(q, Abs!ProcValue(q).env, Value(f))
    <2>1. \A k \in Levels : display[k] = IF k \in DOMAIN <<>> THEN <<>>[k] ELSE display[k]
      OBVIOUS
    <2>2. DisplayInv /\ FilesInv /\ display \in Display
      BY DEF MapInv, DisplayInv
    <2> QED
      BY <1>1, <1>2, <1>4, <2>1, <2>2, BeginEnters
  <1> QED
    BY <1>1, <1>3, <1>5, MeIs, SameProgram DEF MapInv, Abs!ACall, Acts

\* The display with which a procedural parameter is called.
LEMMA FormalDisplay ==
    ASSUME DisplayInv, mode = "run", NEW l \in 1..dp, stack[display[l]].rtn \in TakesFormal
    PROVE  [k \in Levels |-> IF k \in 1..Level(stack[display[l]].formal.rtn) - 1
                             THEN stack[display[l]].formal.fdisp[k] ELSE display[k]] \in Display
  <1> DEFINE tfp == stack[display[l]].formal
             fbn == Level(tfp.rtn) - 1
  <1>1. display[l] \in 1..Len(stack) /\ Len(stack) \in 1..MaxDepth /\ MaxDepth \in Nat
    BY RunningFacts, ProgramAssumption
  <1>2. \A k \in 1..fbn : tfp.fdisp[k] \in 1..Len(stack)
    BY <1>1, FormalFacts
  <1> HIDE DEF tfp
  <1>3. \A k \in 1..fbn : tfp.fdisp[k] \in FrameOrNone
    BY <1>1, <1>2 DEF FrameOrNone
  <1>4. \A k \in Levels : (IF k \in 1..fbn THEN tfp.fdisp[k] ELSE display[k]) \in FrameOrNone
    BY <1>3 DEF DisplayInv, Display
  <1> QED
    BY <1>4 DEF Display, tfp

\* O_FCALL.
LEMMA CallFormalMaps ==
    ASSUME MapInv, DisplayInv', NEW l \in 1..dp, CallFormal(l)
    PROVE  Abs!ACallFormal(l)
  <1> DEFINE tfp == stack[display[l]].formal
             fbn == Level(tfp.rtn) - 1
             d == [k \in Levels |-> IF k \in 1..fbn THEN tfp.fdisp[k] ELSE display[k]]
             saved == [k \in 1..fbn |-> display[k]]
  <1>1. mode = "run" /\ Nest[running][l] \in TakesFormal /\ Begin(tfp.rtn, d, NoFormal, saved)
    BY DEF CallFormal
  <1>2. display[l] \in 1..Len(stack) /\ stack[display[l]].rtn \in TakesFormal
    BY <1>1, RunningFacts DEF MapInv
  <1>3. tfp.rtn \in Routine /\ tfp.rtn # Main /\ tfp \in Closure /\ Len(tfp.fdisp) = fbn
    BY <1>2, FormalFacts DEF MapInv, EnvSizes, Passable
  <1>4. fbn \in Nat /\ \A k \in 1..fbn : k \in Levels
    BY <1>3, NestFacts, InterpreterAssumption DEF Levels
  <1>5. d \in Display
    BY <1>1, <1>2, FormalDisplay DEF MapInv
  <1> HIDE DEF tfp
  <1>6. tfp.fdisp = [k \in 1..Level(tfp.rtn) - 1 |-> d[k]]
    <2>1. tfp.fdisp \in Seq(FrameOrNone)
      BY <1>3 DEF Closure
    <2>2. tfp.fdisp = [k \in 1..fbn |-> tfp.fdisp[k]]
      BY <1>3, <2>1
    <2>3. \A k \in 1..fbn : d[k] = tfp.fdisp[k]
      BY <1>4
    <2> HIDE DEF d
    <2> QED
      BY <2>2, <2>3
  <1>7. \A k \in Levels : display[k] = IF k \in DOMAIN saved THEN saved[k] ELSE d[k]
    OBVIOUS
  <1> HIDE DEF d, saved
  <1>8. Abs!Enter(tfp.rtn, tfp.fdisp, Value(NoFormal))
    BY <1>1, <1>3, <1>5, <1>6, <1>7, BeginEnters DEF MapInv
  <1>9. Acts[Abs!me.env[l]].formal = Value(tfp)
    BY <1>1, FormalOf DEF MapInv, tfp
  <1>10. Value(tfp).rtn = tfp.rtn /\ Value(tfp).env = tfp.fdisp
    BY DEF Value
  <1> QED
    BY <1>1, <1>8, <1>9, <1>10, MeIs, SameProgram DEF MapInv, Abs!ACallFormal, Acts

\* A step that leaves the stack and the display alone changes no activation.
LEMMA SameActivations ==
    ASSUME UNCHANGED <<stack, display, dp>>, NEW i PROVE Activation(i)' = Activation(i)
  <1>1. DisplayAt' = DisplayAt
    BY Zenon DEF DisplayAt
  <1> QED
    BY <1>1 DEF Activation

\* When the youngest frame gives back its caller's display, the others stay the same activations.
LEMMA PopActivations ==
    ASSUME DisplayInv, mode \in {"run", "goto"}, DisplayInv', mode' \in {"run", "goto"},
           top' = top - 1, top - 1 \in 1..Len(stack),
           display' = GiveBack(stp, dp, display),
           \A i \in 1..top - 1 : stack'[i] = stack[i]
    PROVE  \A i \in 1..top - 1 : Activation(i)' = Activation(i)
  <1>1. PICK n \in Nat : n + 1 = top /\ n \in 1..Len(stack) /\ Len(stack) \in Nat
    BY DEF DisplayInv, GoodDisplay, GoodStack, Frames
  <1>2. stp = stack[n + 1] /\ dp = Level(stack[n + 1].rtn)
    BY <1>1 DEF DisplayInv, GoodDisplay, stp, top
  <1>3. DisplayAt[n + 1] = display
    BY <1>1, DisplayAtTop
  <1>4. DisplayAt[n] = GiveBack(stack[n + 1], Level(stack[n + 1].rtn), DisplayAt[n + 1])
    <2>1. Unwinding(DisplayAt, stack, n + 1, display) /\ n \in 1..n + 1 /\ n # n + 1
      BY <1>1, DisplayAtWalks
    <2> QED
      BY <2>1 DEF Unwinding
  <1>5. DisplayAt'[n] = display'
    <2>1. Unwinding(DisplayAt', stack', n, display') /\ n \in 1..n
      BY <1>1, DisplayAtWalksNext
    <2> QED
      BY <2>1 DEF Unwinding
  <1> QED
    BY <1>1, <1>2, <1>3, <1>4, <1>5, KeepsActivations

\* The activations above m end.
LEMMA FewerActs ==
    ASSUME NEW m \in Nat, Live \in Nat, m <= Live, Live' = m,
           \A i \in 1..m : Activation(i)' = Activation(i)
    PROVE  Acts' = SubSeq(Acts, 1, m)
  <1>1. Acts' = [i \in 1..m |-> Activation(i)]
    BY DEF Acts
  <1>2. \A i \in 1..m : Acts[i] = Activation(i)
    BY DEF Acts
  <1>3. SubSeq(Acts, 1, m) = [i \in 1..m |-> Acts[i]]
    OBVIOUS
  <1> QED
    BY <1>1, <1>2, <1>3

\* O_END and O_FRTN.
LEMMA EndMaps ==
    ASSUME MapInv, DisplayInv', StackAboveC, End
    PROVE  Abs!AReturn
  <1>1. PICK n \in Nat : n = Len(stack) /\ n = top /\ Live = n /\ n \in 1..MaxDepth /\ stp = stack[n]
    BY RunningFacts, MeIs DEF MapInv, End, LeaveBlock
  <1>2. n - 1 \in 1..n /\ n - 1 \in Nat
    <2>1. running # Main
      BY MainFacts, RunningFacts DEF End, LeaveBlock, MapInv
    <2>2. n # 1
      BY <1>1, <2>1 DEF MapInv, DisplayInv, GoodStack, GoodFrame, running
    <2> QED
      BY <1>1, <2>2
  <1>3. /\ mode = "run" /\ mode' = "run" /\ curfile' = stack[n].file /\ open' = { g \in open : g < n }
        /\ Len(stack') = n - 1 /\ \A i \in 1..n - 1 : stack'[i] = stack[i]
    BY <1>1, <1>2 DEF End, LeaveBlock, PClose, top, MapInv, DisplayInv
  <1>4. Live' = n - 1 /\ top' = n - 1
    BY <1>3 DEF Live, DisplayInv, GoodDisplay
  <1>5. \A i \in 1..n - 1 : Activation(i)' = Activation(i)
    BY <1>1, <1>2, <1>3, <1>4, PopActivations DEF MapInv, End, LeaveBlock
  <1>6. Acts' = SubSeq(Acts, 1, n - 1)
    BY <1>1, <1>2, <1>4, <1>5, FewerActs
  <1>7. Opened' = { f \in Opened : f <= n - 1 }
    BY <1>1, <1>2, <1>3, <1>4 DEF Opened, MapInv, FilesInv
  <1>8. Current' = Acts[(n - 1) + 1].file /\ n - 1 < n
    <2>1. Acts[n] = Activation(n)
      BY <1>1, <1>2 DEF Acts
    <2> QED
      BY <1>2, <1>3, <2>1 DEF Current, Activation
  <1> QED
    BY <1>1, <1>3, <1>6, <1>7, <1>8, MeIs DEF MapInv, Abs!AReturn, Abs!Leave, Acts, Opened, Current

\* O_END of the program block.
LEMMA EndProgramMaps ==
    ASSUME MapInv, StackAboveC, EndProgram
    PROVE  Abs!AReturn
  <1>1. /\ mode = "run" /\ mode' = "done" /\ dp = 1 /\ open' = { f \in open : f < display[1] }
        /\ curfile' = stp.file
    BY DEF EndProgram, PClose
  <1>2. Len(stack) = 1 /\ display[1] = 1 /\ Live = 1 /\ Len(Acts) = 1 /\ Acts # <<>> /\ Current = curfile
    <2>1. running = Main /\ Len(stack) \in 1..Len(stack)
      BY <1>1, RunningFacts, NestFacts DEF MapInv
    <2>2. Len(stack) = 1
      BY <2>1 DEF MapInv, DisplayInv, GoodStack, GoodFrame, running
    <2> QED
      BY <1>1, <2>2, MeIs, RunningFacts DEF MapInv, top
  <1>3. Live' = 0 /\ Acts' = SubSeq(Acts, 1, 0)
    BY <1>1, <1>2, FewerActs DEF Live
  <1>4. Opened' = { f \in Opened : f <= 0 }
    BY <1>1, <1>2, <1>3 DEF Opened, MapInv, FilesInv, top
  <1>5. Current' = Acts[0 + 1].file
    <2>1. Acts[1] = Activation(1) /\ stp = stack[1]
      BY <1>1, <1>2 DEF Acts, stp
    <2> QED
      BY <1>1, <2>1 DEF Current, Activation
  <1> QED
    BY <1>2, <1>3, <1>4, <1>5 DEF Abs!AReturn, Abs!Leave, Acts, Opened, Current

\* O_GOTO, when it begins: for PxActivations the jump is over.
LEMMA GotoMaps ==
    ASSUME MapInv, NEW l \in 1..dp, Goto(l)
    PROVE  Abs!AGoto(l)
  <1>1. /\ mode = "run" /\ mode' = "goto" /\ target' = display[l] /\ Nest[running][l] \in HasLabel
        /\ UNCHANGED <<stack, display, dp, curfile, open>>
    BY DEF Goto, MayJump, Search
  <1>2. PICK t \in 1..Len(stack) : t = display[l] /\ t = Abs!me.env[l]
    BY <1>1, FormalOf DEF MapInv
  <1>3. /\ Live = Len(stack) /\ Len(stack) \in Nat /\ Live' = t /\ t \in Nat /\ Len(Acts) = Len(stack)
        /\ Current = curfile /\ Abs!me.rtn = running
    BY <1>1, <1>2, MeIs, ProgramAssumption DEF Live, MapInv
  <1>4. Acts' = SubSeq(Acts, 1, t)
    BY <1>1, <1>2, <1>3, FewerActs, SameActivations
  <1>5. Opened' = { f \in Opened : f <= t }
    BY <1>1, <1>2, <1>3 DEF Opened, MapInv, FilesInv, DisplayInv, GoodDisplay
  <1>6. Current' = IF t < Len(Acts) THEN Acts[t + 1].file ELSE Current
    <2>1. t < Len(stack) => Acts[t + 1].file = stack[t + 1].file
      BY <1>2, <1>3 DEF Acts, Activation
    <2> QED
      BY <1>1, <1>2, <1>3, <2>1 DEF Current
  <1> QED
    BY <1>1, <1>2, <1>3, <1>4, <1>5, <1>6 DEF Abs!AGoto, Abs!Leave, Acts, Opened, Current

\* O_GOTO pops frames that were not called as formals, each of which gives back what it replaced.
LEMMA UnwindGivesBack ==
    ASSUME DisplayInv, Unwind PROVE display' = GiveBack(stp, dp, display)
  <1>1. mode = "goto" /\ display' = [display EXCEPT ![dp] = stp.odisp] /\ top # target
    BY NoGotoError DEF Unwind, top
  <1>2. stp.saved = <<>>
    BY <1>1, UnwindPops DEF DisplayInv, GoodTarget
  <1>3. DOMAIN stp.saved = {}
    BY <1>2
  <1>4. GiveBack(stp, dp, display) = [k \in Levels |-> IF k = dp THEN stp.odisp ELSE display[k]]
    BY <1>3 DEF GiveBack
  <1> QED
    BY <1>1, <1>4 DEF DisplayInv, Display

\* An iteration of O_GOTO's loop changes nothing for PxActivations.
LEMMA UnwindMaps ==
    ASSUME MapInv, DisplayInv', StackAboveC, Unwind
    PROVE  Acts' = Acts /\ Opened' = Opened /\ Current' = Current
  <1>1. /\ mode = "goto" /\ mode' = "goto" /\ stack' = stack /\ target' = target
        /\ open' = { f \in open : f < top }
    BY NoGotoError DEF Unwind, PClose, top, MapInv
  <1>2. /\ target \in 1..top - 1 /\ top \in 1..Len(stack) /\ Len(stack) \in Nat
        /\ top' = top - 1 /\ top - 1 \in 1..Len(stack)
    BY UnwindPops DEF MapInv, DisplayInv, GoodStack, Frames
  <1>3. display' = GiveBack(stp, dp, display)
    BY UnwindGivesBack DEF MapInv
  <1>4. \A i \in 1..target : Activation(i)' = Activation(i)
    <2>1. \A i \in 1..top - 1 : Activation(i)' = Activation(i)
      BY <1>1, <1>2, <1>3, PopActivations DEF MapInv
    <2> QED
      BY <1>2, <2>1
  <1>5. Live = target /\ Live' = target
    BY <1>1 DEF Live
  <1>6. Acts' = Acts
    BY <1>4, <1>5 DEF Acts
  <1>7. Opened' = Opened
    BY <1>1, <1>2, <1>5 DEF Opened, MapInv, FilesInv
  <1>8. Current' = Current
    BY <1>1, <1>2 DEF Current
  <1> QED
    BY <1>6, <1>7, <1>8

\* Nor does the end of O_GOTO.
LEMMA LandMaps ==
    ASSUME MapInv, DisplayInv', Land
    PROVE  Acts' = Acts /\ Opened' = Opened /\ Current' = Current
  <1>1. /\ mode = "goto" /\ mode' = "run" /\ target = top /\ stack' = SubSeq(stack, 1, top) /\ top' = top
        /\ UNCHANGED <<display, dp, curfile, open>>
    BY DEF Land, top
  <1>2. PICK n \in Nat : n = top /\ n \in 1..Len(stack) /\ Len(stack) \in Nat
    BY <1>1 DEF MapInv, DisplayInv, GoodDisplay, GoodStack, Frames
  <1>3. Len(stack') = n /\ \A i \in 1..n : stack'[i] = stack[i]
    BY <1>1, <1>2 DEF MapInv, DisplayInv
  <1>4. Live = n /\ Live' = n
    BY <1>1, <1>2, <1>3 DEF Live
  <1>5. DisplayAt[n] = display /\ DisplayAt'[n] = display
    <2>1. Unwinding(DisplayAt, stack, n, display) /\ Unwinding(DisplayAt', stack', n, display) /\ n \in 1..n
      BY <1>1, <1>2, DisplayAtWalks, DisplayAtWalksNext DEF MapInv
    <2> QED
      BY <2>1 DEF Unwinding
  <1>6. \A i \in 1..n : Activation(i)' = Activation(i)
    BY <1>1, <1>2, <1>3, <1>5, KeepsActivations DEF MapInv
  <1>7. Acts' = Acts /\ Opened' = Opened
    BY <1>1, <1>4, <1>6 DEF Acts, Opened
  <1>8. Current' = Current
    BY <1>1, <1>2 DEF Current, MapInv, GotoFile
  <1> QED
    BY <1>7, <1>8

\* O_REWRITE and the like.
LEMMA UseMaps ==
    ASSUME MapInv, NEW l \in 1..dp, UseFile(l)
    PROVE  Abs!AUse(l)
  <1>1. /\ mode = "run" /\ mode' = "run" /\ Nest[running][l] \in HasFile
        /\ open' = open \cup {display[l]} /\ curfile' = display[l]
        /\ UNCHANGED <<stack, display, dp>>
    BY DEF UseFile
  <1>2. PICK t \in 1..Len(stack) : t = display[l] /\ t = Abs!me.env[l]
    BY <1>1, FormalOf DEF MapInv
  <1>3. Live = Len(stack) /\ Len(stack) \in Nat /\ Live' = Live /\ Abs!me.rtn = running
    BY <1>1, MeIs, ProgramAssumption DEF Live, MapInv
  <1>4. Acts' = Acts
    BY <1>1, <1>3, SameActivations DEF Acts
  <1>5. Opened' = Opened \cup {t} /\ Current' = t
    BY <1>1, <1>2, <1>3 DEF Opened, Current
  <1> QED
    BY <1>1, <1>2, <1>3, <1>4, <1>5 DEF Abs!AUse, Acts, Opened, Current

\* Output to no file.
LEMMA UseOutputMaps ==
    ASSUME MapInv, UseOutput
    PROVE  Abs!AUseOutput
  <1>1. /\ mode = "run" /\ mode' = "run" /\ curfile' = 0 /\ UNCHANGED <<stack, display, dp, open>>
    BY DEF UseOutput
  <1>2. Live' = Live /\ Acts # <<>>
    BY <1>1, MeIs DEF Live, MapInv
  <1>3. Acts' = Acts /\ Opened' = Opened /\ Current' = 0
    BY <1>1, <1>2, SameActivations DEF Acts, Opened, Current
  <1> QED
    BY <1>2, <1>3 DEF Abs!AUseOutput, Acts, Opened, Current

\* Every step of the interpreter is a step of PxActivations, or none.
LEMMA NextMaps ==
    ASSUME MapInv, DisplayInv', StackAboveC, [Next]_vars
    PROVE  [Abs!ANext]_(Abs!avars)
  <1>1. mode = "run" => Abs!ANext \/ ~(\E q \in Routine : Call(q))
    BY CallMaps DEF Abs!ANext
  <1>2. ASSUME mode = "run", NEW l \in 1..dp, CallFormal(l) \/ Goto(l) \/ UseFile(l)
        PROVE  Abs!ANext
    <2>1. l \in 1..Len(Abs!me.env) /\ Acts # <<>>
      BY <1>2, MeIs DEF MapInv
    <2>2. Abs!ACallFormal(l) \/ Abs!AGoto(l) \/ Abs!AUse(l)
      BY <1>2, CallFormalMaps, GotoMaps, UseMaps
    <2> QED
      BY <2>1, <2>2 DEF Abs!ANext, Acts
  <1>3. ASSUME End \/ EndProgram \/ UseOutput
        PROVE  Abs!ANext
    BY <1>3, EndMaps, EndProgramMaps, UseOutputMaps DEF Abs!ANext
  <1>4. ASSUME Acts' = Acts, Opened' = Opened, Current' = Current
        PROVE  UNCHANGED Abs!avars
    BY <1>4 DEF Abs!avars, Acts, Opened, Current
  <1>5. ASSUME GotoLoop
        PROVE  UNCHANGED Abs!avars
    BY <1>4, <1>5, UnwindMaps, LandMaps DEF GotoLoop
  <1>6. ASSUME UNCHANGED vars
        PROVE  UNCHANGED Abs!avars
    <2>1. UNCHANGED <<stack, display, dp, curfile, open, mode, target>> /\ Live' = Live
      BY <1>6 DEF vars, Live
    <2>2. Acts' = Acts /\ Opened' = Opened /\ Current' = Current
      BY <2>1, SameActivations DEF Acts, Opened, Current
    <2> QED
      BY <1>4, <2>2
  <1>7. Next => mode = "run" \/ GotoLoop
    BY DEF Next, Call, CallFormal, Goto, MayJump, UseFile, End, EndProgram, UseOutput
  <1> QED
    BY <1>1, <1>2, <1>3, <1>5, <1>6, <1>7 DEF Next

\* What the map rests on holds at the start.
LEMMA InitMap == Init => MapInv
  <1> SUFFICES ASSUME Init PROVE MapInv
    OBVIOUS
  <1>1. stack[1].rtn = Main /\ Len(stack) = 1 /\ mode = "run" /\ Main \notin TakesFormal
    BY ProgramAssumption DEF Init
  <1> QED
    BY <1>1, InitDisplay, InitFiles DEF MapInv, EnvSizes, GotoFile

\* Every step keeps it.
LEMMA NextMap ==
    ASSUME MapInv, ~GotoOutOfFormals, StackAboveC, [Next]_vars
    PROVE  MapInv'
  <1>1. DisplayInv' /\ FilesInv'
    BY NextDisplay, NextFiles DEF MapInv
  <1>2. ASSUME NEW q, NEW d, NEW f, NEW saved, Begin(q, d, f, saved), mode = "run",
               q \in TakesFormal => Len(f.fdisp) = Level(f.rtn) - 1
        PROVE  EnvSizes' /\ GotoFile'
    <2>1. /\ mode' = "run" /\ Len(stack) \in Nat /\ Len(stack') = Len(stack) + 1
          /\ \A i \in 1..Len(stack) : stack'[i] = stack[i]
          /\ stack'[Len(stack) + 1].rtn = q /\ stack'[Len(stack) + 1].formal = f
      BY <1>2, Pushed DEF Begin, MapInv
    <2>2. ASSUME NEW i \in 1..Len(stack'), stack'[i].rtn \in TakesFormal
          PROVE  Len(stack'[i].formal.fdisp) = Level(stack'[i].formal.rtn) - 1
      <3>1. i \in 1..Len(stack) \/ i = Len(stack) + 1
        BY <2>1
      <3> QED
        BY <1>2, <2>1, <2>2, <3>1 DEF MapInv, EnvSizes
    <2> QED
      BY <2>1, <2>2 DEF EnvSizes, GotoFile
  <1>3. ASSUME NEW q \in Routine, Call(q)
        PROVE  EnvSizes' /\ GotoFile'
    <2>1. PICK f \in IF q \in TakesFormal THEN Actuals ELSE {NoFormal} : Begin(q, display, f, <<>>)
      BY <1>3 DEF Call
    <2>2. mode = "run" /\ (q \in TakesFormal => Len(f.fdisp) = Level(f.rtn) - 1)
      BY <1>3, <2>1, ActualIsValue DEF Call
    <2> QED
      BY <1>2, <2>1, <2>2
  <1>4. ASSUME NEW l \in 1..dp, CallFormal(l)
        PROVE  EnvSizes' /\ GotoFile'
    <2>1. PICK d, saved : Begin(stack[display[l]].formal.rtn, d, NoFormal, saved)
      BY <1>4 DEF CallFormal
    <2>2. mode = "run" /\ display[l] \in 1..Len(stack) /\ stack[display[l]].rtn \in TakesFormal
      BY <1>4, RunningFacts DEF CallFormal, MapInv
    <2>3. stack[display[l]].formal.rtn \notin TakesFormal
      BY <2>2, FormalFacts DEF MapInv, Passable
    <2> QED
      BY <1>2, <2>1, <2>2, <2>3
  <1>5. ASSUME NEW n \in 0..Len(stack), stack' = SubSeq(stack, 1, n)
        PROVE  EnvSizes'
    <2>1. Len(stack') = n /\ \A i \in 1..n : i \in 1..Len(stack) /\ stack'[i] = stack[i]
      BY <1>5 DEF MapInv, DisplayInv
    <2> QED
      BY <2>1 DEF MapInv, EnvSizes
  <1>6. CASE End
    <2>1. Len(stack) - 1 \in 0..Len(stack) /\ stack' = SubSeq(stack, 1, Len(stack) - 1) /\ mode' = "run"
      BY <1>6, RunningFacts DEF End, LeaveBlock, MapInv
    <2> QED
      BY <1>1, <1>5, <2>1 DEF MapInv, GotoFile
  <1>7. CASE Land
    <2>1. target \in 0..Len(stack) /\ stack' = SubSeq(stack, 1, target) /\ mode' = "run"
      BY <1>7 DEF Land, MapInv, DisplayInv, GoodDisplay, top
    <2> QED
      BY <1>1, <1>5, <2>1 DEF MapInv, GotoFile
  <1>8. stack' = stack => EnvSizes'
    BY DEF MapInv, EnvSizes
  <1>9. CASE Unwind
    <2>1. stack' = stack /\ curfile' = stack[top].file /\ top' = top - 1 /\ top \in 1..Len(stack)
      BY <1>9, NoGotoError, UnwindPops DEF Unwind, MapInv
    <2>2. Len(stack) \in Nat /\ (top - 1) + 1 = top
      BY <2>1 DEF MapInv, DisplayInv
    <2> QED
      BY <1>1, <1>8, <2>1, <2>2 DEF MapInv, GotoFile
  <1>10. ASSUME NEW l \in 1..dp, Goto(l)
         PROVE  EnvSizes' /\ GotoFile'
    <2>1. stack' = stack /\ top' = top /\ mode = "run"
      BY <1>10 DEF Goto, MayJump, Search, top
    <2>2. ~(top < Len(stack))
      BY <2>1, RunningFacts DEF MapInv
    <2> QED
      BY <1>8, <2>1, <2>2 DEF GotoFile
  <1>11. CASE EndProgram \/ (\E l \in 1..dp : UseFile(l)) \/ UseOutput \/ UNCHANGED vars
    <2>1. stack' = stack /\ (mode' # "goto" \/ UNCHANGED vars)
      BY <1>11 DEF EndProgram, UseFile, UseOutput, vars
    <2>2. CASE mode' # "goto"
      BY <1>1, <1>8, <2>1, <2>2 DEF GotoFile, MapInv
    <2>3. CASE UNCHANGED vars
      BY <1>1, <1>8, <2>1, <2>3 DEF GotoFile, MapInv, vars, top
    <2> QED
      BY <2>1, <2>2, <2>3
  <1> QED
    BY <1>1, <1>3, <1>4, <1>6, <1>7, <1>9, <1>10, <1>11 DEF MapInv, Next, GotoLoop

\* At the start the program block is the only activation.
LEMMA InitMaps == Init => Abs!AInit
  <1> SUFFICES ASSUME Init PROVE Abs!AInit
    OBVIOUS
  <1>1. MapInv /\ mode = "run" /\ open = {} /\ curfile = 0 /\ dp = 1
    BY InitMap DEF Init
  <1>2. Len(stack) = 1 /\ stack[1] = [rtn |-> Main, dp |-> 0, odisp |-> 0, file |-> 0,
                                      formal |-> NoFormal, saved |-> <<>>]
    BY DEF Init
  <1>3. display[1] = 1 /\ DisplayAt[1] = display /\ Level(Main) = 1 /\ Live = 1 /\ Current = 0
    <2>1. 1 \in Levels
      BY MainFacts, NestFacts
    <2>2. display[1] = 1 /\ top = 1
      BY <2>1 DEF Init, top
    <2> QED
      BY <1>1, <1>2, <2>2, MainFacts, DisplayAtTop, MeIs DEF MapInv
  <1>4. SubSeq(display, 1, 1) = <<1>>
    <2>1. SubSeq(display, 1, 1) = [l \in 1..1 |-> display[l]]
      BY <1>1, <1>3, MainFacts, NestFacts, InterpreterAssumption DEF MapInv, DisplayInv, Display, Levels
    <2>2. [l \in 1..1 |-> display[l]] = [l \in 1..1 |-> 1]
      BY <1>3
    <2>3. [l \in 1..1 |-> 1] = <<1>>
      OBVIOUS
    <2> QED
      BY <2>1, <2>2, <2>3
  <1>5. Activation(1) = [rtn |-> Main, env |-> <<1>>, formal |-> Value(NoFormal), file |-> 0]
    BY <1>2, <1>3, <1>4 DEF Activation, Value
  <1>6. Acts = <<[rtn |-> Main, env |-> <<1>>, formal |-> Value(NoFormal), file |-> 0]>>
    BY <1>3, <1>5 DEF Acts
  <1>7. Opened = {}
    BY <1>1 DEF Opened
  <1> QED
    BY <1>3, <1>6, <1>7, SameProgram DEF Abs!AInit, Acts, Opened, Current

\* Every block runs in the environment that Pascal gives it, whatever was called, passed as a
\* parameter, returned from or jumped out of before (O_CALL, O_FCALL, O_END, O_FRTN and O_GOTO of
\* interp.c), in programs whose gotos do not leave a formal call.
THEOREM DisplayGivesEnvironments ==
    ASSUME ~GotoOutOfFormals, StackAboveC PROVE Spec => ImplementsActivations
  <1>1. MapInv /\ [Next]_vars => MapInv'
    BY NextMap
  <1>2. MapInv /\ MapInv' /\ [Next]_vars => [Abs!ANext]_(Abs!avars)
    BY NextMaps DEF MapInv
  <1> QED
    BY <1>1, <1>2, InitMap, InitMaps, PTL DEF Spec, ImplementsActivations, Abs!ASpec
=============================================================================
