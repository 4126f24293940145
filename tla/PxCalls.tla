------------------------------- MODULE PxCalls -------------------------------
(***************************************************************************)
(* Procedure calls in the px interpreter: the stack of block marks, the    *)
(* runtime display, procedures passed as parameters (formal routines) and  *)
(* non-local gotos (src/px/interp.c, cases O_BEG to O_GOTO).               *)
(*                                                                         *)
(* A frame is named by its depth in the stack of block marks, so a name is *)
(* reused once the frame is popped, as a stack address is.  The display    *)
(* has one entry per static level; `_dp' is the level whose entry is       *)
(* active, and the block mark px calls `_dp->stp' is stack[display[dp]].   *)
(* The Pascal program is nondeterministic: at every statement the running  *)
(* block may call, return, jump or use any file its scope lets it name.    *)
(***************************************************************************)
EXTENDS PxProgram

CONSTANTS
    Tests,             \* Tests[r]: hdr.tests, r is compiled with runtime tests
    DSPLYSZ,           \* the number of display entries
    StackAboveC,       \* the interpreter's stack lies above GETNAME's C frame
    GotoOutOfFormals   \* gotos may leave a routine called as a formal

ASSUME InterpreterAssumption ==
    /\ DSPLYSZ \in Nat
    /\ \A r \in Routine : Level(r) <= DSPLYSZ
    /\ Tests \in [Routine -> BOOLEAN]
    /\ StackAboveC \in BOOLEAN
    /\ GotoOutOfFormals \in BOOLEAN

VARIABLES
    stack,      \* the block marks, oldest first
    display,    \* _display: level -> frame, 0 while never set
    dp,         \* _dp, as a level
    curfile,    \* frame whose file I/O goes to, 0 for the standard output
    open,       \* frames whose file variable is on the active file chain
    runtst,     \* _runtst
    mode,       \* "run", inside the loop of O_GOTO, finished, or in ERROR
    target      \* tstp, the frame O_GOTO is looking for (0 outside O_GOTO)

vars == <<stack, display, dp, curfile, open, runtst, mode, target>>

Levels == 1..DSPLYSZ
Frames == 1..MaxDepth
FrameOrNone == 0..MaxDepth

\* struct formalrtn: the routine and the display it was passed with.
Closure == [rtn : Routine, fdisp : Seq(FrameOrNone)]
NoFormal == [rtn |-> Main, fdisp |-> <<>>]

\* struct blockmark, with the procedural argument of the call and, for a
\* formal call, the display save area that goes with it (<<>> otherwise).
BlockMark == [rtn : Routine, dp : 0..DSPLYSZ, odisp : FrameOrNone,
              file : FrameOrNone, formal : Closure, saved : Seq(FrameOrNone)]

stp == stack[display[dp]]
running == stack[Len(stack)].rtn

\* O_FSAV: the closure of a routine passed as a parameter.
Fsav(q) == [rtn |-> q, fdisp |-> [l \in 1..Level(q) - 1 |-> display[l]]]

\* What a block passes on: a routine it may name, or a procedural parameter of
\* its own or of a block around it.
Actuals == { Fsav(q) : q \in { p \in Passable : Visible(p, running) } }
             \cup { stack[display[l]].formal :
                      l \in { k \in 1..dp : Nest[running][k] \in TakesFormal } }

-----------------------------------------------------------------------------
Init == /\ stack = <<[rtn |-> Main, dp |-> 0, odisp |-> 0, file |-> 0,
                      formal |-> NoFormal, saved |-> <<>>]>>
        /\ display = [l \in Levels |-> IF l = 1 THEN 1 ELSE 0]
        /\ dp = 1
        /\ curfile = 0
        /\ open = {}
        /\ runtst = Tests[Main]
        /\ mode = "run"
        /\ target = 0

\* The second half of the block mark, made by O_BEG on top of a call that
\* leaves display d: the frame is entered at its own level.
Begin(q, d, formal, saved) ==
    /\ Len(stack) < MaxDepth
    /\ stack' = Append(stack, [rtn |-> q, dp |-> dp, odisp |-> d[Level(q)],
                               file |-> curfile, formal |-> formal,
                               saved |-> saved])
    /\ display' = [k \in Levels |-> IF k = Level(q) THEN Len(stack) + 1 ELSE d[k]]
    /\ dp' = Level(q)
    /\ runtst' = Tests[q]
    /\ UNCHANGED <<curfile, open, mode, target>>

\* O_CALL, O_BEG: call a routine by its name.
Call(q) == /\ mode = "run"
           /\ Visible(q, running)
           /\ \E f \in IF q \in TakesFormal THEN Actuals ELSE {NoFormal} :
                Begin(q, display, f, <<>>)

\* Faulty: the caller's display is not replaced by the closure's.
CallFormalHere(l) ==
    /\ mode = "run"
    /\ Nest[running][l] \in TakesFormal
    /\ LET tfp == stack[display[l]].formal
       IN  Begin(tfp.rtn, display, NoFormal,
                 [k \in 1..Level(tfp.rtn) - 1 |-> display[k]])

\* O_FCALL, O_BEG: call the procedural parameter of the block at level l.
\* The closure's display replaces the caller's below the routine's level.
CallFormal(l) ==
    /\ mode = "run"
    /\ Nest[running][l] \in TakesFormal
    /\ LET tfp == stack[display[l]].formal
           fbn == Level(tfp.rtn) - 1
       IN  Begin(tfp.rtn,
                 [k \in Levels |-> IF k \in 1..fbn THEN tfp.fdisp[k] ELSE display[k]],
                 NoFormal,
                 [k \in 1..fbn |-> display[k]])

\* Faulty: `flev < level' for `flev <= level'.
PCloseYounger(f) == { g \in open : g <= f }

\* PCLOSE(_dp->locvars): the chain is ordered by address, so the files of the
\* frame and of every younger one are closed -- when GETNAME's test has told
\* them from files in the heap (module PcFiles).
PClose(f) == IF StackAboveC THEN { g \in open : g < f } ELSE open

\* Faulty: O_FRTN is forgotten.
GiveBackOwn(f, l, d) == [k \in Levels |-> IF k = l THEN f.odisp ELSE d[k]]

\* A frame f entered at level l gives back the display entries it replaced.
GiveBack(f, l, d) == [k \in Levels |-> IF k \in DOMAIN f.saved THEN f.saved[k]
                                       ELSE IF k = l THEN f.odisp
                                       ELSE d[k]]

\* O_END and, behind a formal call, O_FRTN: the block is left, and I/O goes
\* back to the given file.
LeaveBlock(file) == /\ open' = PClose(display[dp])
                    /\ curfile' = file
                    /\ display' = GiveBack(stp, dp, display)
                    /\ dp' = stp.dp
                    /\ runtst' = Tests[stp.rtn]
                    /\ stack' = SubSeq(stack, 1, Len(stack) - 1)
                    /\ UNCHANGED <<mode, target>>

\* Faulty: the test for the program block is forgotten.
EndAny == mode = "run" /\ LeaveBlock(stp.file)

\* Faulty: `curfile' stays on a file that PCLOSE has closed.
EndKeepsFile == mode = "run" /\ dp # 1 /\ LeaveBlock(curfile)

End == mode = "run" /\ dp # 1 /\ LeaveBlock(stp.file)

\* O_END of the program block: the interpreter loop returns.
EndProgram == /\ mode = "run"
              /\ dp = 1
              /\ open' = PClose(display[1])
              /\ curfile' = stp.file
              /\ display' = [display EXCEPT ![1] = stp.odisp]
              /\ mode' = "done"
              /\ UNCHANGED <<stack, dp, runtst, target>>

(***************************************************************************)
(* O_GOTO, one iteration of its loop at a time.  A goto transfers to the   *)
(* O_GOTO that precedes the body declaring the label, at level l.          *)
(***************************************************************************)
Search(f) == /\ mode' = "goto"
             /\ target' = f
             /\ UNCHANGED <<stack, display, dp, curfile, open, runtst>>

\* Bound: without GotoOutOfFormals, no goto leaves a formal call.
MayJump(l) == /\ mode = "run"
              /\ Nest[running][l] \in HasLabel
              /\ \/ GotoOutOfFormals
                 \/ \A i \in display[l] + 1..Len(stack) : stack[i].saved = <<>>

\* Faulty: the frame of the label's body is taken one level too deep.
GotoInner(l) == MayJump(l) /\ Search(display[l + 1])

Goto(l) == MayJump(l) /\ Search(display[l])

\* Faulty: files are closed, but the loop goes on from the same frame.
UnwindStays == /\ mode = "goto"
               /\ display[dp] # target
               /\ dp # 1
               /\ open' = PClose(display[dp])
               /\ curfile' = stp.file
               /\ UNCHANGED <<stack, display, dp, runtst, mode, target>>

\* One iteration: ERROR "Active frame not found in non-local goto" in the
\* program block, and in any other block the frame is left.
Unwind == /\ mode = "goto"
          /\ display[dp] # target
          /\ IF dp = 1
             THEN mode' = "error" /\ UNCHANGED <<open, curfile, display, dp>>
             ELSE /\ open' = PClose(display[dp])
                  /\ curfile' = stp.file
                  /\ display' = [display EXCEPT ![dp] = stp.odisp]
                  /\ dp' = stp.dp
                  /\ UNCHANGED mode
          /\ UNCHANGED <<stack, runtst, target>>

\* The frames above the target are popped with its expression temporaries.
Land == /\ mode = "goto"
        /\ display[dp] = target
        /\ stack' = SubSeq(stack, 1, target)
        /\ mode' = "run"
        /\ target' = 0
        /\ UNCHANGED <<display, dp, curfile, open, runtst>>

(***************************************************************************)
(* Files: O_REWRITE and the like activate a file (GETNAME) and make it the *)
(* current one (UNIT); writeln without a file goes to the standard output. *)
(***************************************************************************)
UseFile(l) == /\ mode = "run"
              /\ Nest[running][l] \in HasFile
              /\ open' = open \cup {display[l]}
              /\ curfile' = display[l]
              /\ UNCHANGED <<stack, display, dp, runtst, mode, target>>

UseOutput == /\ mode = "run"
             /\ curfile' = 0
             /\ UNCHANGED <<stack, display, dp, open, runtst, mode, target>>

GotoLoop == Unwind \/ Land

Next == \/ \E q \in Routine : Call(q)
        \/ \E l \in 1..dp : CallFormal(l) \/ Goto(l) \/ UseFile(l)
        \/ End \/ EndProgram \/ GotoLoop \/ UseOutput

Spec == Init /\ [][Next]_vars

\* The interpreter does not stop inside an instruction.
FairSpec == Spec /\ WF_vars(GotoLoop)

-----------------------------------------------------------------------------
\* The stack holds well-formed block marks and `_dp' never leaves the display.
TypeOK == /\ stack \in Seq(BlockMark)
          /\ display \in [Levels -> FrameOrNone]
          /\ dp \in Levels
          /\ curfile \in FrameOrNone
          /\ open \subseteq Frames
          /\ runtst \in BOOLEAN
          /\ mode \in {"run", "goto", "done", "error"}
          /\ target \in FrameOrNone

\* While a block runs, the entries of the display from its own level down
\* point to active frames of the blocks that enclose it in the source, and its
\* own entry to the top of the stack (pxvars.h:80: "The entries in the display
\* point to the active static block marks").
DisplayIsStaticNest ==
    mode = "run" =>
      /\ dp = Level(running)
      /\ display[dp] = Len(stack)
      /\ \A l \in 1..dp : /\ display[l] \in 1..Len(stack)
                          /\ stack[display[l]].rtn = Nest[running][l]

\* The active file chain never refers to the storage of a popped frame: blocks
\* that are left, by O_END or by O_GOTO, have their files closed (PCLOSE.c:39).
OpenFilesInActiveFrames ==
    /\ mode = "run" => \A f \in open : f \in 1..Len(stack) /\ stack[f].rtn \in HasFile
    /\ mode = "done" => open = {}

\* After a return or a jump, I/O that names no file goes to the standard output
\* or to a file that is still active (O_END and O_GOTO restore `curfile').
CurfileActive == mode = "run" => curfile \in open \cup {0}

\* A goto always finds the frame that declares its label.
GotoFindsTarget == mode # "error"

\* The loop of O_GOTO ends: every iteration leaves one block.
GotoEnds == mode = "goto" ~> mode # "goto"
=============================================================================
