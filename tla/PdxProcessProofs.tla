---------------------------- MODULE PdxProcessProofs ----------------------------
(***************************************************************************)
(* What pdx and its program keep in every state, for every program, every  *)
(* hash function of the cache and any number of events and starts.         *)
(*                                                                         *)
(* IInv, the control: which thread may move at each of pdx's steps, with   *)
(* which signals, where the program then is and what pdx knows of it.  It  *)
(* holds of every use of pdx.  Clean, the object code: who holds which     *)
(* half-word at each step of setallbps, cont, unsetallbps and stepto, and  *)
(* what every line of the cache must then say.  It needs that no program   *)
(* that has halted is run again (see MCPdxFreed for what happens then).    *)
(***************************************************************************)
EXTENDS PdxProcess, FiniteSetTheorems, SequenceTheorems, TLAPS

\* Where the interpreter may be, and where it can be parked with a program loaded
Place == {"entry", "load", "begin", "code", "error", "exit"}
AtPause == {"begin", "code", "error"}
\* The values of the variables
Event == [addr : Loc, kind : {"stop", "trace", "END"}]

Prog == [at : Place, pc : Loc, goes : Loc \cup {None, Failure}]
DbgPlace == {"start", "prompt", "loop", "set", "unset", "bpact", "step"} \cup Waiting
Dbg == [at : DbgPlace, for : {"init", "run", "restart", "cont", "step"}, to : Loc \cup {None}, i : Nat]

Typing ==
    /\ prog \in Prog /\ dbg \in Dbg
    /\ base \in Base \cup {None}
    /\ regs \in (Base \cup {None}) \X Loc
    /\ signo \in Signal /\ status \in {"RUNNING", "STOPPED", "FINISHED"}
    /\ pc \in Loc \cup {None}
    /\ isstopped \in BOOLEAN /\ just_started \in BOOLEAN /\ single_stepping \in BOOLEAN

\* No event is that of the end, or only one.
NoEnd == \A i \in DOMAIN bphead : bphead[i].kind # "END"
Events ==
    /\ bphead \in Seq(Event)
    /\ \A i, j \in DOMAIN bphead : bphead[i].kind = "END" /\ bphead[j].kind = "END" => i = j
    /\ dbg.at \in {"start", "killing", "starting", "loading"} => NoEnd

\* pdx waits: its signal has not arrived, or the interpreter moves, or it has answered or ended.
Exchange(waits, moves, answers) ==
    \/ /\ thr = "parked" /\ prog.at \in waits /\ status = "RUNNING" /\ tevent /\ ~sevent
    \/ /\ thr = "running" /\ prog.at \in moves /\ status = "RUNNING" /\ ~tevent /\ ~sevent
    \/ /\ thr = "parked" /\ prog.at \in answers /\ status = "STOPPED" /\ ~tevent /\ sevent
    \/ /\ thr = "ended" /\ pid = 0 /\ status = "FINISHED" /\ ~tevent /\ sevent

\* Who may move, and with which signals, at each step of pdx.
Handshake ==
    /\ dbg.at \notin Waiting =>
        /\ ~sevent /\ ~tevent
        /\ \/ status = "STOPPED" /\ pid = 1 /\ thr = "parked" /\ prog.at \in AtPause
           \/ status = "FINISHED" /\ pid = 0 /\ thr = "ended"
           \/ status = "FINISHED" /\ pid = 0 /\ thr = "none" /\ dbg.at = "start"
    /\ dbg.at = "killing" => pid = 0 /\ Exchange(AtPause, {"exit"}, {})
    /\ dbg.at = "starting" => pid = 1 /\ status # "FINISHED" /\ Exchange({}, {"entry"}, {"entry"})
    /\ dbg.at = "loading" => pid = 1 /\ status # "FINISHED" /\ Exchange({"entry"}, {"load"}, {"begin"})
    /\ dbg.at \in {"running", "stepping"} =>
        /\ Exchange(AtPause, {"code", "exit"}, {"code", "error"})
        /\ status # "FINISHED" => pid = 1

\* The steps of pstart and start, before the program is there
Starting == {"start", "killing", "starting", "loading"}

\* Where the program that is loaded is.
Loading ==
    /\ dbg.at # "loading" => base = ENDOFF
    /\ dbg.at = "loading" /\ prog.at = "begin" => base \in Base
    /\ dbg.at \notin Starting => base \in Base
    /\ prog.at = "begin" => prog.pc = 1

\* The signal tells what the program waits at.
Signalled ==
    status = "STOPPED" /\ prog.at \in AtPause =>
        /\ prog.at = "begin" => signo = "IOT"
        /\ prog.at = "code" => signo = "BPT" /\ regs = <<base, prog.pc>>
        /\ prog.at = "error" => signo = "ERR"

\* What pdx knows of where the program stands, and which command leads to which step.
Located ==
    /\ dbg.at \in {"set", "running", "unset"} => ~single_stepping
    /\ dbg.at \in {"loop", "set", "running", "unset"} => dbg.for \in {"cont", "run"}
    /\ dbg.at \in {"bpact", "step", "stepping"} => dbg.for \in {"cont", "run", "step"}
    /\ dbg.at = "bpact" /\ dbg.for = "step" => isstopped
    /\ status = "STOPPED" /\ dbg.at \notin Starting \cup Waiting =>
        /\ signo # "ERR" => pc = prog.pc
        /\ signo = "ERR" /\ pc \notin Loc => ~single_stepping /\ dbg.at # "step"
                                              /\ (dbg.at = "prompt" => ~isstopped)

\* setallbps and unsetallbps count the events.
Counted ==
    /\ dbg.i \in 1..Len(bphead) + 1
    /\ dbg.at \notin {"set", "unset"} => dbg.i = 1

\* stepto has an instruction to stop at.
Aimed == dbg.at = "stepping" => dbg.to \in Loc

IInv == Typing /\ Events /\ Counted /\ Aimed /\ Handshake /\ Loading /\ Signalled /\ Located
-----------------------------------------------------------------------------
(* What the larger actions do to the control.                               *)

\* setallbps and unsetallbps go on to the next event.
NextEvent == dbg' = [dbg EXCEPT !.i = @ + 1]

\* What setallbps does, the object code, the cache and the saved half-words aside.
LEMMA SetEffect ==
    ASSUME Set
    PROVE  /\ dbg.at = "set" /\ dbg.i \in DOMAIN bphead
           /\ NextEvent \/ (error /\ status = "FINISHED")
           /\ UNCHANGED <<thread, base, shared, pc, ENDOFF, control>>
  <1>1. CASE status = "FINISHED" /\ Entries(View, bphead[dbg.i].addr) = {}
    BY <1>1, Zenon DEF Set
  <1>2. CASE ~(status = "FINISHED" /\ Entries(View, bphead[dbg.i].addr) = {})
    <2>1. NextEvent
      BY <1>2, Zenon DEF Set, NextEvent
    <2>2. dbg.at = "set" /\ dbg.i \in DOMAIN bphead /\ UNCHANGED <<thread, base, shared, pc, ENDOFF, control>>
      BY <1>2, Zenon DEF Set
    <2> QED
      BY <2>1, <2>2
  <1> QED
    BY <1>1, <1>2

\* The same of unsetallbps.
LEMMA UnsetEffect ==
    ASSUME Unset
    PROVE  /\ dbg.at = "unset" /\ dbg.i \in DOMAIN bphead
           /\ NextEvent \/ (error /\ status = "FINISHED")
           /\ UNCHANGED <<thread, base, shared, pc, ENDOFF, control>>
  <1>1. CASE status = "FINISHED"
    BY <1>1, Zenon DEF Unset
  <1>2. CASE status # "FINISHED"
    <2>1. NextEvent
      BY <1>2, Zenon DEF Unset, NextEvent
    <2>2. dbg.at = "unset" /\ dbg.i \in DOMAIN bphead /\ UNCHANGED <<thread, base, shared, pc, ENDOFF, control>>
      BY <1>2, Zenon DEF Unset
    <2> QED
      BY <2>1, <2>2
  <1> QED
    BY <1>1, <1>2

\* dostep stops the program behind the instruction at pc.
StepOver == status # "FINISHED" /\ resume([dbg EXCEPT !.at = "stepping", !.to = nextaddr(pc)])

\* The same of dostep.
LEMMA DoStepEffect ==
    ASSUME DoStep
    PROVE  /\ dbg.at = "step"
           /\ StepOver \/ (error /\ status = "FINISHED" /\ UNCHANGED <<status, sevent, tevent>>)
           /\ UNCHANGED <<thread, base, pid, signo, pc, ENDOFF, control>>
  BY Zenon DEF DoStep, StepOver

\* stepto has brought the program to the next instruction, which is not its end.
StepDone == /\ status # "FINISHED" /\ isbperr
            /\ dbg' = [dbg EXCEPT !.at = IF dbg.for = "step" THEN "bpact" ELSE "loop", !.to = None]
            /\ isstopped' = (dbg.for = "step")
            /\ UNCHANGED <<bphead, just_started, single_stepping, runs>>

\* The same of stepto's return.
LEMMA SteppedEffect ==
    ASSUME Stepped
    PROVE  /\ Answered("stepping") /\ pc' = Pc
           /\ UNCHANGED <<thread, base, pid, status, signo, tevent, ENDOFF>>
           /\ \/ status = "FINISHED" /\ error /\ UNCHANGED control
              \/ status # "FINISHED" /\ ~isbperr /\ printstatus(FALSE)
              \/ status # "FINISHED" /\ isbperr /\ pc = N /\ error /\ UNCHANGED control
              \/ StepDone
  BY Zenon DEF Stepped, StepDone, error


\* Where an instruction may go on.
LEMMA OutcomesType ==
    ASSUME NEW l \in Loc
    PROVE  Outcomes(l) \subseteq Loc \cup {None, Failure}
  <1>1. CASE l = N \/ l \in Halts
    BY <1>1 DEF Outcomes
  <1>2. CASE ~(l = N \/ l \in Halts)
    <2>1. l \in 1..N - 1
      BY <1>2, ProcessAssumption DEF Loc
    <2>2. Succ[l] \subseteq Loc
      BY <2>1, ProcessAssumption DEF Loc
    <2> QED
      BY <1>2, <2>2 DEF Outcomes
  <1> QED
    BY <1>1, <1>2

\* The instruction behind one of the program is one of the program.
LEMMA NextaddrType ==
    ASSUME NEW l \in Loc
    PROVE  nextaddr(l) \in Loc
  BY ProcessAssumption DEF nextaddr, Loc

\* A stop that dostep goes on from is in the program.
LEMMA StepsFromLoc ==
    ASSUME Typing, Handshake, Located, dbg.at = "step", status # "FINISHED"
    PROVE  pc \in Loc
  <1>1. status = "STOPPED" /\ dbg.at \notin Starting \cup Waiting
    BY DEF Handshake, Waiting, Starting
  <1> QED
    BY <1>1 DEF Typing, Prog, Located

\* The place of an event is in the program.
LEMMA HereInLoc ==
    ASSUME Events, NEW kind, Here(kind) # {}
    PROVE  pc \in Loc
  <1>1. PICK i \in DOMAIN bphead : bphead[i].addr = pc
    BY DEF Here
  <1>2. bphead[i] \in Event
    BY DEF Events
  <1> QED
    BY <1>1, <1>2 DEF Event

\* A sequence that loses one place.
LEMMA RemoveAtType ==
    ASSUME NEW S, NEW s \in Seq(S), NEW i \in DOMAIN s
    PROVE  /\ RemoveAt(s, i) \in Seq(S)
           /\ Len(RemoveAt(s, i)) = Len(s) - 1
           /\ \A j \in 1..Len(s) - 1 : RemoveAt(s, i)[j] = IF j < i THEN s[j] ELSE s[j + 1]
  <1> DEFINE front == SubSeq(s, 1, i - 1)
             back == SubSeq(s, i + 1, Len(s))
  <1>1. i \in 1..Len(s) /\ Len(s) \in Nat
    OBVIOUS
  <1>2. front \in Seq(S) /\ Len(front) = i - 1 /\ \A j \in 1..i - 1 : front[j] = s[j]
    BY <1>1
  <1>3. back \in Seq(S) /\ Len(back) = Len(s) - i /\ \A j \in 1..Len(s) - i : back[j] = s[j + i]
    BY <1>1
  <1>4. RemoveAt(s, i) = front \o back
    BY DEF RemoveAt
  <1> HIDE DEF front, back
  <1>5. /\ front \o back \in Seq(S)
        /\ Len(front \o back) = Len(s) - 1
    BY <1>1, <1>2, <1>3
  <1>6. ASSUME NEW j \in 1..Len(s) - 1
        PROVE  (front \o back)[j] = IF j < i THEN s[j] ELSE s[j + 1]
    <2>1. CASE j < i
      BY <1>1, <1>2, <1>3, <2>1
    <2>2. CASE j >= i
      <3>1. (front \o back)[j] = back[j - Len(front)]
        BY <1>1, <1>2, <1>3, <2>2
      <3>2. j - Len(front) \in 1..Len(s) - i /\ j - Len(front) + i = j + 1
        BY <1>1, <1>2, <2>2
      <3> QED
        BY <1>1, <1>3, <2>2, <3>1, <3>2
    <2>3. j < i \/ j >= i
      BY <1>1
    <2> QED
      BY <2>1, <2>2, <2>3
  <1> QED
    BY <1>4, <1>5, <1>6


\* What fixbps leaves.
LEMMA FixbpsEvents ==
    ASSUME Events, fixbps
    PROVE  bphead' \in Seq(Event) /\ NoEnd'
  <1> DEFINE ends == { i \in DOMAIN bphead : bphead[i].kind = "END" }
  <1>1. bphead' = IF ends = {} THEN bphead ELSE RemoveAt(bphead, CHOOSE i \in ends : TRUE)
    BY DEF fixbps
  <1>2. CASE ends = {}
    BY <1>1, <1>2 DEF Events, NoEnd
  <1>3. CASE ends # {}
    <2>1. PICK i \in DOMAIN bphead : bphead' = RemoveAt(bphead, i) /\ bphead[i].kind = "END"
      BY <1>1, <1>3
    <2>2. bphead \in Seq(Event) /\ Len(bphead) \in Nat /\ i \in 1..Len(bphead)
      BY DEF Events
    <2>3. /\ bphead' \in Seq(Event)
          /\ Len(bphead') = Len(bphead) - 1
          /\ \A j \in 1..Len(bphead) - 1 : bphead'[j] = IF j < i THEN bphead[j] ELSE bphead[j + 1]
      BY <2>1, <2>2, RemoveAtType
    <2>4. ASSUME NEW j \in 1..Len(bphead) - 1
          PROVE  bphead'[j].kind # "END"
      <3>1. PICK k \in 1..Len(bphead) : k # i /\ bphead'[j] = bphead[k]
        <4>1. CASE j < i
          BY <2>2, <2>3, <4>1
        <4>2. CASE j >= i
          BY <2>2, <2>3, <4>2
        <4> QED
          BY <2>2, <4>1, <4>2
      <3> QED
        BY <2>1, <2>2, <3>1 DEF Events
    <2> QED
      BY <2>2, <2>3, <2>4 DEF NoEnd
  <1> QED
    BY <1>2, <1>3

\* One event more, in front of the others.
LEMMA PrependEvent ==
    ASSUME Events, NEW e \in Event, bphead' = <<e>> \o bphead
    PROVE  /\ bphead' \in Seq(Event)
           /\ \A i \in DOMAIN bphead' : bphead'[i] = IF i = 1 THEN e ELSE bphead[i - 1]
           /\ \A i \in DOMAIN bphead' : i = 1 \/ i - 1 \in DOMAIN bphead
  <1>1. <<e>> \in Seq(Event) /\ Len(<<e>>) = 1 /\ <<e>>[1] = e /\ bphead \in Seq(Event)
    BY DEF Events
  <1> QED
    BY <1>1

\* A signal is taken by the one it is for, and only an answer or the end gives pdx its turn.
LEMMA HandshakeStep ==
    ASSUME Typing, Handshake, Loading, Located, [Next]_vars
    PROVE  Handshake'
  <1> USE DEF vars, thread, code, shared, access, control, Typing, Prog, Dbg, DbgPlace, Handshake, Exchange, Waiting, AtPause, Place, Loading
  <1>1. CASE Released
    BY <1>1 DEF Released
  <1>2. CASE Entry
    BY <1>2 DEF Entry, pxhalt
  <1>3. CASE Load
    BY <1>3 DEF Load
  <1>4. CASE Trap
    BY <1>4 DEF Trap, pxhalt, AtCode
  <1>5. CASE Exec
    BY <1>5 DEF Exec, AtCode
  <1>6. CASE Fail
    BY <1>6 DEF Fail, pxhalt, AtCode
  <1>7. CASE End
    BY <1>7 DEF End, AtCode
  <1>8. CASE Kill
    BY <1>8 DEF Kill, Do
  <1>9. CASE Killed
    BY <1>9 DEF Killed, Answered, Do
  <1>10. CASE Create
    BY <1>10 DEF Create, Do
  <1>11. CASE Started
    BY <1>11 DEF Started, Answered, Do
  <1>12. CASE Loaded
    BY <1>12 DEF Loaded, Answered, Do, Prompt
  <1>13. CASE Loop
    BY <1>13 DEF Loop, Do
  <1>14. CASE Set
    <2>1. CASE NextEvent
      BY <1>14, <2>1, SetEffect DEF NextEvent
    <2>2. CASE error /\ status = "FINISHED"
      BY <1>14, <2>2, SetEffect DEF error, Prompt
    <2>3. \/ NextEvent
          \/ error /\ status = "FINISHED"
      BY <1>14, SetEffect
    <2> HIDE DEF vars, thread, code, shared, access, control, Typing, Prog, Dbg, DbgPlace, Handshake, Exchange, Waiting, AtPause, Place, Loading
    <2> QED
      BY <2>1, <2>2, <2>3
  <1>15. CASE Resume
    <2>1. CASE status = "FINISHED"
      BY <1>15, <2>1 DEF Resume, resume
    <2>2. CASE status # "FINISHED"
      BY <1>15, <2>2 DEF Resume, resume
    <2> QED
      BY <2>1, <2>2
  <1>16. CASE Came
    BY <1>16 DEF Came, Answered, Do, Pc
  <1>17. CASE Unset
    <2>1. CASE NextEvent
      BY <1>17, <2>1, UnsetEffect DEF NextEvent
    <2>2. CASE error /\ status = "FINISHED"
      BY <1>17, <2>2, UnsetEffect DEF error, Prompt
    <2>3. \/ NextEvent
          \/ error /\ status = "FINISHED"
      BY <1>17, UnsetEffect
    <2> HIDE DEF vars, thread, code, shared, access, control, Typing, Prog, Dbg, DbgPlace, Handshake, Exchange, Waiting, AtPause, Place, Loading
    <2> QED
      BY <2>1, <2>2, <2>3
  <1>18. CASE Act
    BY <1>18 DEF Act
  <1>19. CASE EndProgram
    BY <1>19 DEF EndProgram, Prompt
  <1>20. CASE Report
    BY <1>20 DEF Report, printstatus, Prompt, fixbps
  <1>21. CASE GoOn
    BY <1>21 DEF GoOn, Do
  <1>22. CASE DoStep
    <2>1. CASE error /\ status = "FINISHED" /\ UNCHANGED <<status, sevent, tevent>>
      BY <1>22, <2>1, DoStepEffect DEF error, Prompt
    <2>2. CASE StepOver
      BY <1>22, <2>2, DoStepEffect DEF StepOver, resume
    <2>3. \/ error /\ status = "FINISHED" /\ UNCHANGED <<status, sevent, tevent>>
          \/ StepOver
      BY <1>22, DoStepEffect
    <2> HIDE DEF vars, thread, code, shared, access, control, Typing, Prog, Dbg, DbgPlace, Handshake, Exchange, Waiting, AtPause, Place, Loading
    <2> QED
      BY <2>1, <2>2, <2>3
  <1>23. CASE Stepped
    <2>1. CASE status = "FINISHED" /\ error /\ UNCHANGED control
      BY <1>23, <2>1, SteppedEffect DEF Answered, Pc, error, Prompt
    <2>2. CASE status # "FINISHED" /\ ~isbperr /\ printstatus(FALSE)
      BY <1>23, <2>2, SteppedEffect DEF Answered, Pc, isbperr, printstatus, fixbps, Prompt
    <2>3. CASE status # "FINISHED" /\ isbperr /\ pc = N /\ error /\ UNCHANGED control
      BY <1>23, <2>3, SteppedEffect DEF Answered, Pc, isbperr, error, Prompt
    <2>4. CASE StepDone
      BY <1>23, <2>4, SteppedEffect DEF Answered, Pc, isbperr, StepDone
    <2>5. \/ status = "FINISHED" /\ error /\ UNCHANGED control
          \/ status # "FINISHED" /\ ~isbperr /\ printstatus(FALSE)
          \/ status # "FINISHED" /\ isbperr /\ pc = N /\ error /\ UNCHANGED control
          \/ StepDone
      BY <1>23, SteppedEffect
    <2> HIDE DEF vars, thread, code, shared, access, control, Typing, Prog, Dbg, DbgPlace, Handshake, Exchange, Waiting, AtPause, Place, Loading
    <2> QED
      BY <2>1, <2>2, <2>3, <2>4, <2>5
  <1>24. CASE \E l \in Loc, kind \in {"stop", "trace"} : AddEvent(l, kind)
    BY <1>24 DEF AddEvent
  <1>25. CASE \E i \in DOMAIN bphead : Delete(i)
    BY <1>25 DEF Delete
  <1>26. CASE \E for \in {"run", "restart"} : Run(for)
    BY <1>26 DEF Run, fixbps
  <1>27. CASE TraceAll
    BY <1>27 DEF TraceAll
  <1>28. CASE Cont
    BY <1>28 DEF Cont
  <1>29. CASE Step
    BY <1>29 DEF Step
  <1>30. CASE UNCHANGED vars
    BY <1>30
  <1> QED
    BY <1>1, <1>2, <1>3, <1>4, <1>5, <1>6, <1>7, <1>8, <1>9, <1>10, <1>11, <1>12, <1>13, <1>14, <1>15, <1>16, <1>17, <1>18, <1>19, <1>20, <1>21, <1>22, <1>23, <1>24, <1>25, <1>26, <1>27, <1>28, <1>29, <1>30
       DEF Next, Interpreter, Debugger, Command

\* Only px_main moves the program, and pdx then learns where it is.
LEMMA LoadingStep ==
    ASSUME Typing, Handshake, Loading, [Next]_vars
    PROVE  Loading'
  <1> USE DEF vars, thread, code, shared, access, control, Typing, Prog, Dbg, DbgPlace, Loading, Handshake, Exchange, Waiting, AtPause, Starting
  <1>1. CASE Released
    BY <1>1 DEF Released
  <1>2. CASE Entry
    BY <1>2 DEF Entry, pxhalt
  <1>3. CASE Load
    BY <1>3 DEF Load
  <1>4. CASE Trap
    BY <1>4 DEF Trap, pxhalt, AtCode
  <1>5. CASE Exec
    BY <1>5 DEF Exec, AtCode
  <1>6. CASE Fail
    BY <1>6 DEF Fail, pxhalt, AtCode
  <1>7. CASE End
    BY <1>7 DEF End, AtCode
  <1>8. CASE Kill
    BY <1>8 DEF Kill, Do
  <1>9. CASE Killed
    BY <1>9 DEF Killed, Answered, Do
  <1>10. CASE Create
    BY <1>10 DEF Create, Do
  <1>11. CASE Started
    BY <1>11 DEF Started, Answered, Do
  <1>12. CASE Loaded
    BY <1>12 DEF Loaded, Answered, Do, Prompt
  <1>13. CASE Loop
    BY <1>13 DEF Loop, Do
  <1>14. CASE Set
    <2>1. CASE NextEvent
      BY <1>14, <2>1, SetEffect DEF NextEvent
    <2>2. CASE error /\ status = "FINISHED"
      BY <1>14, <2>2, SetEffect DEF error, Prompt
    <2>3. \/ NextEvent
          \/ error /\ status = "FINISHED"
      BY <1>14, SetEffect
    <2> HIDE DEF vars, thread, code, shared, access, control, Typing, Prog, Dbg, DbgPlace, Loading, Handshake, Exchange, Waiting, AtPause, Starting
    <2> QED
      BY <2>1, <2>2, <2>3
  <1>15. CASE Resume
    BY <1>15 DEF Resume, resume
  <1>16. CASE Came
    BY <1>16 DEF Came, Answered, Do, Pc
  <1>17. CASE Unset
    <2>1. CASE NextEvent
      BY <1>17, <2>1, UnsetEffect DEF NextEvent
    <2>2. CASE error /\ status = "FINISHED"
      BY <1>17, <2>2, UnsetEffect DEF error, Prompt
    <2>3. \/ NextEvent
          \/ error /\ status = "FINISHED"
      BY <1>17, UnsetEffect
    <2> HIDE DEF vars, thread, code, shared, access, control, Typing, Prog, Dbg, DbgPlace, Loading, Handshake, Exchange, Waiting, AtPause, Starting
    <2> QED
      BY <2>1, <2>2, <2>3
  <1>18. CASE Act
    BY <1>18 DEF Act
  <1>19. CASE EndProgram
    BY <1>19 DEF EndProgram, Prompt
  <1>20. CASE Report
    BY <1>20 DEF Report, printstatus, Prompt, fixbps
  <1>21. CASE GoOn
    BY <1>21 DEF GoOn, Do
  <1>22. CASE DoStep
    <2>1. CASE error /\ status = "FINISHED" /\ UNCHANGED <<status, sevent, tevent>>
      BY <1>22, <2>1, DoStepEffect DEF error, Prompt
    <2>2. CASE StepOver
      BY <1>22, <2>2, DoStepEffect DEF StepOver, resume
    <2>3. \/ error /\ status = "FINISHED" /\ UNCHANGED <<status, sevent, tevent>>
          \/ StepOver
      BY <1>22, DoStepEffect
    <2> HIDE DEF vars, thread, code, shared, access, control, Typing, Prog, Dbg, DbgPlace, Loading, Handshake, Exchange, Waiting, AtPause, Starting
    <2> QED
      BY <2>1, <2>2, <2>3
  <1>23. CASE Stepped
    <2>1. CASE status = "FINISHED" /\ error /\ UNCHANGED control
      BY <1>23, <2>1, SteppedEffect DEF Answered, Pc, error, Prompt
    <2>2. CASE status # "FINISHED" /\ ~isbperr /\ printstatus(FALSE)
      BY <1>23, <2>2, SteppedEffect DEF Answered, Pc, isbperr, printstatus, fixbps, Prompt
    <2>3. CASE status # "FINISHED" /\ isbperr /\ pc = N /\ error /\ UNCHANGED control
      BY <1>23, <2>3, SteppedEffect DEF Answered, Pc, isbperr, error, Prompt
    <2>4. CASE StepDone
      BY <1>23, <2>4, SteppedEffect DEF Answered, Pc, isbperr, StepDone
    <2>5. \/ status = "FINISHED" /\ error /\ UNCHANGED control
          \/ status # "FINISHED" /\ ~isbperr /\ printstatus(FALSE)
          \/ status # "FINISHED" /\ isbperr /\ pc = N /\ error /\ UNCHANGED control
          \/ StepDone
      BY <1>23, SteppedEffect
    <2> HIDE DEF vars, thread, code, shared, access, control, Typing, Prog, Dbg, DbgPlace, Loading, Handshake, Exchange, Waiting, AtPause, Starting
    <2> QED
      BY <2>1, <2>2, <2>3, <2>4, <2>5
  <1>24. CASE \E l \in Loc, kind \in {"stop", "trace"} : AddEvent(l, kind)
    BY <1>24 DEF AddEvent
  <1>25. CASE \E i \in DOMAIN bphead : Delete(i)
    BY <1>25 DEF Delete
  <1>26. CASE \E for \in {"run", "restart"} : Run(for)
    BY <1>26 DEF Run, fixbps
  <1>27. CASE TraceAll
    BY <1>27 DEF TraceAll
  <1>28. CASE Cont
    BY <1>28 DEF Cont
  <1>29. CASE Step
    BY <1>29 DEF Step
  <1>30. CASE UNCHANGED vars
    BY <1>30
  <1> QED
    BY <1>1, <1>2, <1>3, <1>4, <1>5, <1>6, <1>7, <1>8, <1>9, <1>10, <1>11, <1>12, <1>13, <1>14, <1>15, <1>16, <1>17, <1>18, <1>19, <1>20, <1>21, <1>22, <1>23, <1>24, <1>25, <1>26, <1>27, <1>28, <1>29, <1>30
       DEF Next, Interpreter, Debugger, Command

\* The program parks with the signal of what stopped it.
LEMMA SignalledStep ==
    ASSUME Typing, Handshake, Loading, Signalled, [Next]_vars
    PROVE  Signalled'
  <1> USE DEF vars, thread, code, shared, access, control, Typing, Prog, Dbg, DbgPlace, Signalled, Handshake, Exchange, Waiting, AtPause
  <1>1. CASE Released
    BY <1>1 DEF Released
  <1>2. CASE Entry
    BY <1>2 DEF Entry, pxhalt
  <1>3. CASE Load
    BY <1>3 DEF Load
  <1>4. CASE Trap
    BY <1>4 DEF Trap, pxhalt, AtCode
  <1>5. CASE Exec
    BY <1>5 DEF Exec, AtCode
  <1>6. CASE Fail
    BY <1>6 DEF Fail, pxhalt, AtCode
  <1>7. CASE End
    BY <1>7 DEF End, AtCode
  <1>8. CASE Kill
    BY <1>8 DEF Kill, Do
  <1>9. CASE Killed
    BY <1>9 DEF Killed, Answered, Do
  <1>10. CASE Create
    BY <1>10 DEF Create, Do
  <1>11. CASE Started
    BY <1>11 DEF Started, Answered, Do
  <1>12. CASE Loaded
    BY <1>12 DEF Loaded, Answered, Do, Prompt
  <1>13. CASE Loop
    BY <1>13 DEF Loop, Do
  <1>14. CASE Set
    <2>1. CASE NextEvent
      BY <1>14, <2>1, SetEffect DEF NextEvent
    <2>2. CASE error /\ status = "FINISHED"
      BY <1>14, <2>2, SetEffect DEF error, Prompt
    <2>3. \/ NextEvent
          \/ error /\ status = "FINISHED"
      BY <1>14, SetEffect
    <2> HIDE DEF vars, thread, code, shared, access, control, Typing, Prog, Dbg, DbgPlace, Signalled, Handshake, Exchange, Waiting, AtPause
    <2> QED
      BY <2>1, <2>2, <2>3
  <1>15. CASE Resume
    BY <1>15 DEF Resume, resume
  <1>16. CASE Came
    BY <1>16 DEF Came, Answered, Do, Pc
  <1>17. CASE Unset
    <2>1. CASE NextEvent
      BY <1>17, <2>1, UnsetEffect DEF NextEvent
    <2>2. CASE error /\ status = "FINISHED"
      BY <1>17, <2>2, UnsetEffect DEF error, Prompt
    <2>3. \/ NextEvent
          \/ error /\ status = "FINISHED"
      BY <1>17, UnsetEffect
    <2> HIDE DEF vars, thread, code, shared, access, control, Typing, Prog, Dbg, DbgPlace, Signalled, Handshake, Exchange, Waiting, AtPause
    <2> QED
      BY <2>1, <2>2, <2>3
  <1>18. CASE Act
    BY <1>18 DEF Act
  <1>19. CASE EndProgram
    BY <1>19 DEF EndProgram, Prompt
  <1>20. CASE Report
    BY <1>20 DEF Report, printstatus, Prompt, fixbps
  <1>21. CASE GoOn
    BY <1>21 DEF GoOn, Do
  <1>22. CASE DoStep
    <2>1. CASE error /\ status = "FINISHED" /\ UNCHANGED <<status, sevent, tevent>>
      BY <1>22, <2>1, DoStepEffect DEF error, Prompt
    <2>2. CASE StepOver
      BY <1>22, <2>2, DoStepEffect DEF StepOver, resume
    <2>3. \/ error /\ status = "FINISHED" /\ UNCHANGED <<status, sevent, tevent>>
          \/ StepOver
      BY <1>22, DoStepEffect
    <2> HIDE DEF vars, thread, code, shared, access, control, Typing, Prog, Dbg, DbgPlace, Signalled, Handshake, Exchange, Waiting, AtPause
    <2> QED
      BY <2>1, <2>2, <2>3
  <1>23. CASE Stepped
    <2>1. CASE status = "FINISHED" /\ error /\ UNCHANGED control
      BY <1>23, <2>1, SteppedEffect DEF Answered, Pc, error, Prompt
    <2>2. CASE status # "FINISHED" /\ ~isbperr /\ printstatus(FALSE)
      BY <1>23, <2>2, SteppedEffect DEF Answered, Pc, isbperr, printstatus, fixbps, Prompt
    <2>3. CASE status # "FINISHED" /\ isbperr /\ pc = N /\ error /\ UNCHANGED control
      BY <1>23, <2>3, SteppedEffect DEF Answered, Pc, isbperr, error, Prompt
    <2>4. CASE StepDone
      BY <1>23, <2>4, SteppedEffect DEF Answered, Pc, isbperr, StepDone
    <2>5. \/ status = "FINISHED" /\ error /\ UNCHANGED control
          \/ status # "FINISHED" /\ ~isbperr /\ printstatus(FALSE)
          \/ status # "FINISHED" /\ isbperr /\ pc = N /\ error /\ UNCHANGED control
          \/ StepDone
      BY <1>23, SteppedEffect
    <2> HIDE DEF vars, thread, code, shared, access, control, Typing, Prog, Dbg, DbgPlace, Signalled, Handshake, Exchange, Waiting, AtPause
    <2> QED
      BY <2>1, <2>2, <2>3, <2>4, <2>5
  <1>24. CASE \E l \in Loc, kind \in {"stop", "trace"} : AddEvent(l, kind)
    BY <1>24 DEF AddEvent
  <1>25. CASE \E i \in DOMAIN bphead : Delete(i)
    BY <1>25 DEF Delete
  <1>26. CASE \E for \in {"run", "restart"} : Run(for)
    BY <1>26 DEF Run, fixbps
  <1>27. CASE TraceAll
    BY <1>27 DEF TraceAll
  <1>28. CASE Cont
    BY <1>28 DEF Cont
  <1>29. CASE Step
    BY <1>29 DEF Step
  <1>30. CASE UNCHANGED vars
    BY <1>30
  <1> QED
    BY <1>1, <1>2, <1>3, <1>4, <1>5, <1>6, <1>7, <1>8, <1>9, <1>10, <1>11, <1>12, <1>13, <1>14, <1>15, <1>16, <1>17, <1>18, <1>19, <1>20, <1>21, <1>22, <1>23, <1>24, <1>25, <1>26, <1>27, <1>28, <1>29, <1>30
       DEF Next, Interpreter, Debugger, Command

\* A step leaves every variable in its type; stops that dostep goes on from are in the program.
LEMMA TypingStep ==
    ASSUME Typing, Handshake, Located, [Next]_vars
    PROVE  Typing'
  <1> USE DEF vars, thread, code, shared, access, control, Typing
  <1>1. CASE Released
    <2>1. prog' \in Prog
      BY <1>1 DEF Prog, Place, Released
    <2> QED
      BY <1>1, <2>1 DEF Released
  <1>2. CASE Entry
    <2>1. prog' \in Prog
      BY <1>2 DEF Prog, Place, Entry, pxhalt
    <2> QED
      BY <1>2, <2>1 DEF Entry, pxhalt
  <1>3. CASE Load
    <2>1. 1 \in Loc
      BY ProcessAssumption DEF Loc
    <2>2. Outcomes(1) \subseteq Loc \cup {None, Failure}
      BY <2>1, OutcomesType
    <2>3. prog' \in Prog
      BY <1>3, <2>1, <2>2 DEF Prog, Place, Load
    <2> QED
      BY <1>3, <2>1, <2>2, <2>3 DEF Load, Signal
  <1>4. CASE Trap
    <2>1. prog' \in Prog
      BY <1>4 DEF Prog, Place, Trap, pxhalt
    <2> QED
      BY <1>4, <2>1 DEF Trap, pxhalt, Signal, Prog
  <1>5. CASE Exec
    <2>1. Outcomes(prog.goes) \subseteq Loc \cup {None, Failure}
      BY <1>5, OutcomesType DEF Exec
    <2>2. prog' \in Prog
      BY <1>5, <2>1 DEF Prog, Place, Exec
    <2> QED
      BY <1>5, <2>1, <2>2 DEF Exec
  <1>6. CASE Fail
    <2>1. prog' \in Prog
      BY <1>6 DEF Prog, Place, Fail, pxhalt
    <2> QED
      BY <1>6, <2>1 DEF Fail, pxhalt, Signal
  <1>7. CASE End
    <2>1. prog' \in Prog
      BY <1>7 DEF Prog, Place, End
    <2> QED
      BY <1>7, <2>1 DEF End, Prog
  <1>8. CASE Kill
    <2>1. dbg' \in Dbg
      BY <1>8 DEF Dbg, DbgPlace, Waiting, Kill, Do, Handshake, Exchange, AtPause
    <2> QED
      BY <1>8, <2>1 DEF Kill, Do
  <1>9. CASE Killed
    <2>1. dbg' \in Dbg
      BY <1>9 DEF Dbg, DbgPlace, Waiting, Killed, Answered, Do, Handshake, Exchange, AtPause
    <2> QED
      BY <1>9, <2>1 DEF Killed
  <1>10. CASE Create
    <2>1. 1 \in Loc
      BY ProcessAssumption DEF Loc
    <2>2. dbg' \in Dbg
      BY <1>10, <2>1 DEF Dbg, DbgPlace, Waiting, Create, Do
    <2>3. prog' \in Prog
      BY <1>10, <2>1 DEF Prog, Place, Create
    <2> QED
      BY <1>10, <2>1, <2>2, <2>3 DEF Create
  <1>11. CASE Started
    <2>1. dbg' \in Dbg
      BY <1>11 DEF Dbg, DbgPlace, Waiting, Started, Answered, Do, Handshake, Exchange, AtPause
    <2> QED
      BY <1>11, <2>1 DEF Started
  <1>12. CASE Loaded
    <2>1. 1 \in Loc
      BY ProcessAssumption DEF Loc
    <2>2. Prompt \in Dbg
      BY <2>1 DEF Prompt, Dbg, DbgPlace
    <2>3. dbg' \in Dbg
      BY <1>12, <2>1, <2>2 DEF Dbg, DbgPlace, Waiting, Loaded, Answered, Do, Handshake, Exchange, AtPause
    <2> QED
      BY <1>12, <2>1, <2>2, <2>3 DEF Loaded
  <1>13. CASE Loop
    <2>1. dbg' \in Dbg
      BY <1>13 DEF Dbg, DbgPlace, Waiting, Loop, Do
    <2> QED
      BY <1>13, <2>1 DEF Loop, Do
  <1>14. CASE Set
    <2>1. CASE NextEvent
      <3>1. dbg' \in Dbg
        BY <2>1 DEF NextEvent, Dbg
      <3> QED
        BY <1>14, <2>1, <3>1, SetEffect
    <2>2. CASE error /\ status = "FINISHED"
      <3>1. Prompt \in Dbg
        BY DEF Prompt, Dbg, DbgPlace
      <3> QED
        BY <1>14, <2>2, <3>1, SetEffect DEF error
    <2>3. NextEvent \/ (error /\ status = "FINISHED")
      BY <1>14, SetEffect
    <2> QED
      BY <2>1, <2>2, <2>3
  <1>15. CASE Resume
    <2>1. dbg' \in Dbg
      BY <1>15 DEF Dbg, DbgPlace, Waiting, Resume, resume
    <2> QED
      BY <1>15, <2>1 DEF Resume, resume
  <1>16. CASE Came
    <2>1. dbg' \in Dbg
      BY <1>16 DEF Dbg, DbgPlace, Waiting, Came, Do
    <2> QED
      BY <1>16, <2>1 DEF Came, Pc
  <1>17. CASE Unset
    <2>1. CASE NextEvent
      <3>1. dbg' \in Dbg
        BY <2>1 DEF NextEvent, Dbg
      <3> QED
        BY <1>17, <2>1, <3>1, UnsetEffect
    <2>2. CASE error /\ status = "FINISHED"
      <3>1. Prompt \in Dbg
        BY DEF Prompt, Dbg, DbgPlace
      <3> QED
        BY <1>17, <2>2, <3>1, UnsetEffect DEF error
    <2>3. NextEvent \/ (error /\ status = "FINISHED")
      BY <1>17, UnsetEffect
    <2> QED
      BY <2>1, <2>2, <2>3
  <1>18. CASE Act
    <2>1. dbg' \in Dbg
      BY <1>18 DEF Dbg, DbgPlace, Waiting, Act
    <2> QED
      BY <1>18, <2>1 DEF Act
  <1>19. CASE EndProgram
    <2>1. Prompt \in Dbg
      BY ProcessAssumption DEF Prompt, Dbg, DbgPlace
    <2>2. dbg' \in Dbg
      BY <1>19, <2>1 DEF EndProgram
    <2> QED
      BY <1>19, <2>1, <2>2 DEF EndProgram
  <1>20. CASE Report
    <2>1. Prompt \in Dbg
      BY ProcessAssumption DEF Prompt, Dbg, DbgPlace
    <2>2. dbg' \in Dbg
      BY <1>20, <2>1 DEF Report, printstatus
    <2> QED
      BY <1>20, <2>1, <2>2 DEF Report, printstatus, fixbps, StoppedAt, isbperr
  <1>21. CASE GoOn
    <2>1. dbg' \in Dbg
      BY <1>21 DEF Dbg, DbgPlace, Waiting, GoOn, Do
    <2> QED
      BY <1>21, <2>1 DEF GoOn, Do
  <1>22. CASE DoStep
    <2>1. CASE error /\ status = "FINISHED" /\ UNCHANGED <<status, sevent, tevent>>
      <3>1. Prompt \in Dbg
        BY DEF Prompt, Dbg, DbgPlace
      <3> QED
        BY <1>22, <2>1, <3>1, DoStepEffect DEF error
    <2>2. CASE StepOver
      <3>1. dbg.at = "step" /\ status # "FINISHED"
        BY <1>22, <2>2, DoStepEffect DEF StepOver
      <3>2. nextaddr(pc) \in Loc
        BY <3>1, StepsFromLoc, NextaddrType
      <3>3. dbg' \in Dbg
        BY <2>2, <3>2 DEF Dbg, DbgPlace, Waiting, StepOver, resume
      <3> QED
        BY <1>22, <2>2, <3>3, DoStepEffect DEF StepOver, resume
    <2>3. StepOver \/ (error /\ status = "FINISHED" /\ UNCHANGED <<status, sevent, tevent>>)
      BY <1>22, DoStepEffect
    <2> QED
      BY <2>1, <2>2, <2>3
  <1>23. CASE Stepped
    <2>1. Prompt \in Dbg
      BY DEF Prompt, Dbg, DbgPlace
    <2>2. pc' \in Loc \cup {None}
      BY <1>23, SteppedEffect DEF Pc
    <2>3. CASE status = "FINISHED" /\ error /\ UNCHANGED control
      BY <1>23, <2>1, <2>2, <2>3, SteppedEffect DEF error
    <2>4. CASE status # "FINISHED" /\ ~isbperr /\ printstatus(FALSE)
      BY <1>23, <2>1, <2>2, <2>4, SteppedEffect DEF printstatus, fixbps
    <2>5. CASE status # "FINISHED" /\ isbperr /\ pc = N /\ error /\ UNCHANGED control
      BY <1>23, <2>1, <2>2, <2>5, SteppedEffect DEF error
    <2>6. CASE StepDone
      <3>1. dbg' \in Dbg
        BY <2>6 DEF StepDone, Dbg, DbgPlace
      <3> QED
        BY <1>23, <2>2, <2>6, <3>1, SteppedEffect DEF StepDone
    <2> QED
      BY <1>23, <2>3, <2>4, <2>5, <2>6, SteppedEffect
  <1>24. CASE \E l \in Loc, kind \in {"stop", "trace"} : AddEvent(l, kind)
    BY <1>24 DEF AddEvent
  <1>25. CASE \E i \in DOMAIN bphead : Delete(i)
    BY <1>25 DEF Delete
  <1>26. CASE \E for \in {"run", "restart"} : Run(for)
    <2>1. dbg' \in Dbg
      BY <1>26 DEF Dbg, DbgPlace, Waiting, Run
    <2> QED
      BY <1>26, <2>1 DEF Run, fixbps
  <1>27. CASE TraceAll
    BY <1>27 DEF TraceAll
  <1>28. CASE Cont
    <2>1. dbg' \in Dbg
      BY <1>28 DEF Dbg, DbgPlace, Waiting, Cont
    <2> QED
      BY <1>28, <2>1 DEF Cont
  <1>29. CASE Step
    <2>1. dbg' \in Dbg
      BY <1>29 DEF Dbg, DbgPlace, Waiting, Step
    <2> QED
      BY <1>29, <2>1 DEF Step
  <1>30. CASE UNCHANGED vars
    BY <1>30
  <1> QED
    BY <1>1, <1>2, <1>3, <1>4, <1>5, <1>6, <1>7, <1>8, <1>9, <1>10, <1>11, <1>12, <1>13, <1>14, <1>15, <1>16, <1>17, <1>18, <1>19, <1>20, <1>21, <1>22, <1>23, <1>24, <1>25, <1>26, <1>27, <1>28, <1>29, <1>30
       DEF Next, Interpreter, Debugger, Command

\* A step keeps what pdx knows of the place; Here finds no event at a lost place, so no step is made from it.
LEMMA LocatedStep ==
    ASSUME Typing, Events, Handshake, Loading, Signalled, Located, [Next]_vars
    PROVE  Located'
  <1> USE DEF vars, thread, code, shared, access, control, Typing, Prog, Dbg, DbgPlace, Located, Handshake, Exchange, Waiting, AtPause, Starting, Signalled, Loading
  <1>1. CASE Released
    BY <1>1 DEF Released
  <1>2. CASE Entry
    BY <1>2 DEF Entry, pxhalt
  <1>3. CASE Load
    BY <1>3 DEF Load
  <1>4. CASE Trap
    BY <1>4 DEF Trap, pxhalt, AtCode
  <1>5. CASE Exec
    BY <1>5 DEF Exec, AtCode
  <1>6. CASE Fail
    BY <1>6 DEF Fail, pxhalt, AtCode
  <1>7. CASE End
    BY <1>7 DEF End, AtCode
  <1>8. CASE Kill
    BY <1>8 DEF Kill, Do
  <1>9. CASE Killed
    BY <1>9 DEF Killed, Answered, Do
  <1>10. CASE Create
    BY <1>10 DEF Create, Do
  <1>11. CASE Started
    BY <1>11 DEF Started, Answered, Do
  <1>12. CASE Loaded
    BY <1>12 DEF Loaded, Answered, Do, Prompt
  <1>13. CASE Loop
    BY <1>13 DEF Loop, Do
  <1>14. CASE Set
    <2>1. CASE NextEvent
      BY <1>14, <2>1, SetEffect DEF NextEvent
    <2>2. CASE error /\ status = "FINISHED"
      BY <1>14, <2>2, SetEffect DEF error, Prompt
    <2>3. \/ NextEvent
          \/ error /\ status = "FINISHED"
      BY <1>14, SetEffect
    <2> HIDE DEF vars, thread, code, shared, access, control, Typing, Prog, Dbg, DbgPlace, Located, Handshake, Exchange, Waiting, AtPause, Starting, Signalled, Loading
    <2> QED
      BY <2>1, <2>2, <2>3
  <1>15. CASE Resume
    BY <1>15 DEF Resume, resume
  <1>16. CASE Came
    BY <1>16 DEF Came, Answered, Do, Pc
  <1>17. CASE Unset
    <2>1. CASE NextEvent
      BY <1>17, <2>1, UnsetEffect DEF NextEvent
    <2>2. CASE error /\ status = "FINISHED"
      BY <1>17, <2>2, UnsetEffect DEF error, Prompt
    <2>3. \/ NextEvent
          \/ error /\ status = "FINISHED"
      BY <1>17, UnsetEffect
    <2> HIDE DEF vars, thread, code, shared, access, control, Typing, Prog, Dbg, DbgPlace, Located, Handshake, Exchange, Waiting, AtPause, Starting, Signalled, Loading
    <2> QED
      BY <2>1, <2>2, <2>3
  <1>18. CASE Act
    BY <1>18 DEF Act
  <1>19. CASE EndProgram
    <2>1. pc \in Loc
      BY <1>19, HereInLoc DEF EndProgram
    <2> QED
      BY <1>19, <2>1 DEF EndProgram, Prompt
  <1>20. CASE Report
    <2>1. CASE StoppedAt
      BY <1>20, <2>1 DEF Report, printstatus, Prompt, StoppedAt, isbperr
    <2>2. CASE ~StoppedAt
      BY <1>20, <2>2 DEF Report, printstatus, Prompt, StoppedAt, fixbps
    <2> QED
      BY <2>1, <2>2
  <1>21. CASE GoOn
    <2>1. Here("trace") # {} => pc \in Loc
      BY HereInLoc
    <2> QED
      BY <1>21, <2>1 DEF GoOn, Lost, Do
  <1>22. CASE DoStep
    <2>1. CASE error /\ status = "FINISHED" /\ UNCHANGED <<status, sevent, tevent>>
      BY <1>22, <2>1, DoStepEffect DEF error, Prompt
    <2>2. CASE StepOver
      BY <1>22, <2>2, DoStepEffect DEF StepOver, resume
    <2>3. \/ error /\ status = "FINISHED" /\ UNCHANGED <<status, sevent, tevent>>
          \/ StepOver
      BY <1>22, DoStepEffect
    <2> HIDE DEF vars, thread, code, shared, access, control, Typing, Prog, Dbg, DbgPlace, Located, Handshake, Exchange, Waiting, AtPause, Starting, Signalled, Loading
    <2> QED
      BY <2>1, <2>2, <2>3
  <1>23. CASE Stepped
    <2>1. CASE status = "FINISHED" /\ error /\ UNCHANGED control
      BY <1>23, <2>1, SteppedEffect DEF Answered, Pc, error, Prompt
    <2>2. CASE status # "FINISHED" /\ ~isbperr /\ printstatus(FALSE)
      BY <1>23, <2>2, SteppedEffect DEF Answered, Pc, isbperr, printstatus, fixbps, Prompt
    <2>3. CASE status # "FINISHED" /\ isbperr /\ pc = N /\ error /\ UNCHANGED control
      BY <1>23, <2>3, SteppedEffect DEF Answered, Pc, isbperr, error, Prompt
    <2>4. CASE StepDone
      <3>1. status = "STOPPED" /\ signo = "BPT" /\ dbg.at = "stepping"
        BY <1>23, <2>4, SteppedEffect DEF StepDone, isbperr, Answered
      <3>2. prog.at = "code" /\ regs = <<base, prog.pc>> /\ base = ENDOFF
        BY <1>23, <3>1, SteppedEffect DEF Answered
      <3>3. pc' = prog.pc
        BY <1>23, <3>1, <3>2, SteppedEffect DEF Pc
      <3>4. /\ dbg'.at = IF dbg.for = "step" THEN "bpact" ELSE "loop"
            /\ dbg'.for = dbg.for
        BY <2>4 DEF StepDone
      <3>5. dbg.for = "step" => isstopped'
        BY <2>4 DEF StepDone
      <3>6. signo' = "BPT" /\ prog' = prog
        BY <1>23, <3>1, SteppedEffect
      <3> QED
        BY <3>1, <3>3, <3>4, <3>5, <3>6
    <2> QED
      BY <1>23, <2>1, <2>2, <2>3, <2>4, SteppedEffect
  <1>24. CASE \E l \in Loc, kind \in {"stop", "trace"} : AddEvent(l, kind)
    BY <1>24 DEF AddEvent
  <1>25. CASE \E i \in DOMAIN bphead : Delete(i)
    BY <1>25 DEF Delete
  <1>26. CASE \E for \in {"run", "restart"} : Run(for)
    BY <1>26 DEF Run, fixbps
  <1>27. CASE TraceAll
    BY <1>27 DEF TraceAll
  <1>28. CASE Cont
    <2>1. CASE just_started
      BY <1>28, <2>1 DEF Cont
    <2>2. CASE ~just_started /\ isstopped
      BY <1>28, <2>2 DEF Cont
    <2>3. CASE ~just_started /\ ~isstopped
      BY <1>28, <2>3 DEF Cont
    <2> QED
      BY <2>1, <2>2, <2>3
  <1>29. CASE Step
    BY <1>29 DEF Step
  <1>30. CASE UNCHANGED vars
    BY <1>30
  <1> QED
    BY <1>1, <1>2, <1>3, <1>4, <1>5, <1>6, <1>7, <1>8, <1>9, <1>10, <1>11, <1>12, <1>13, <1>14, <1>15, <1>16, <1>17, <1>18, <1>19, <1>20, <1>21, <1>22, <1>23, <1>24, <1>25, <1>26, <1>27, <1>28, <1>29, <1>30
       DEF Next, Interpreter, Debugger, Command

\* A step changes the list in front, where start and AddEvent add, or takes one event out.
LEMMA EventsStep ==
    ASSUME Typing, Handshake, Events, [Next]_vars
    PROVE  Events'
  <1> USE DEF vars, thread, code, shared, access, control, Events, NoEnd
  <1>1. CASE Released
    BY <1>1 DEF Released
  <1>2. CASE Entry
    BY <1>2 DEF Entry, pxhalt
  <1>3. CASE Load
    BY <1>3 DEF Load
  <1>4. CASE Trap
    BY <1>4 DEF Trap, pxhalt, AtCode
  <1>5. CASE Exec
    BY <1>5 DEF Exec, AtCode
  <1>6. CASE Fail
    BY <1>6 DEF Fail, pxhalt, AtCode
  <1>7. CASE End
    BY <1>7 DEF End, AtCode
  <1>8. CASE Kill
    BY <1>8 DEF Kill, Do
  <1>9. CASE Killed
    BY <1>9 DEF Killed, Answered, Do
  <1>10. CASE Create
    BY <1>10 DEF Create, Do
  <1>11. CASE Started
    BY <1>11 DEF Started, Answered, Do
  <1>12. CASE Loaded
    <2>1. CASE bphead' = bphead
      BY <1>12, <2>1 DEF Loaded, Answered, Do
    <2>2. CASE bphead' # bphead
      <3>1. bphead' = <<[addr |-> N, kind |-> "END"]>> \o bphead /\ dbg.at = "loading" /\ NoEnd
        BY <1>12, <2>2 DEF Loaded, Answered
      <3>2. [addr |-> N, kind |-> "END"] \in Event
        BY ProcessAssumption DEF Event, Loc
      <3>3. /\ bphead' \in Seq(Event)
            /\ \A i \in DOMAIN bphead' : i = 1 \/ bphead'[i].kind # "END"
        BY <3>1, <3>2, PrependEvent DEF NoEnd
      <3>4. dbg'.at \notin {"start", "killing", "starting", "loading"}
        <4>1. dbg' = IF dbg.for = "run" THEN Do("loop") ELSE Prompt
          BY <1>12, <2>2 DEF Loaded
        <4>2. Do("loop").at = "loop" /\ Prompt.at = "prompt"
          BY DEF Typing, Dbg, Do, Prompt
        <4> QED
          BY <4>1, <4>2
      <3> QED
        BY <3>3, <3>4
    <2> QED
      BY <2>1, <2>2
  <1>13. CASE Loop
    BY <1>13 DEF Loop, Do
  <1>14. CASE Set
    <2>1. CASE NextEvent
      BY <1>14, <2>1, SetEffect DEF NextEvent
    <2>2. CASE error /\ status = "FINISHED"
      BY <1>14, <2>2, SetEffect DEF error, Prompt
    <2>3. \/ NextEvent
          \/ error /\ status = "FINISHED"
      BY <1>14, SetEffect
    <2> HIDE DEF vars, thread, code, shared, access, control, Events, NoEnd
    <2> QED
      BY <2>1, <2>2, <2>3
  <1>15. CASE Resume
    BY <1>15 DEF Resume, resume
  <1>16. CASE Came
    BY <1>16 DEF Came, Answered, Do, Pc
  <1>17. CASE Unset
    <2>1. CASE NextEvent
      BY <1>17, <2>1, UnsetEffect DEF NextEvent
    <2>2. CASE error /\ status = "FINISHED"
      BY <1>17, <2>2, UnsetEffect DEF error, Prompt
    <2>3. \/ NextEvent
          \/ error /\ status = "FINISHED"
      BY <1>17, UnsetEffect
    <2> HIDE DEF vars, thread, code, shared, access, control, Events, NoEnd
    <2> QED
      BY <2>1, <2>2, <2>3
  <1>18. CASE Act
    BY <1>18 DEF Act
  <1>19. CASE EndProgram
    BY <1>19 DEF EndProgram, Prompt
  <1>20. CASE Report
    <2>1. (bphead' \in Seq(Event) /\ NoEnd') \/ bphead' = bphead
      BY <1>20, FixbpsEvents DEF Report, printstatus
    <2>2. dbg'.at = "prompt"
      BY <1>20 DEF Report, printstatus, Prompt
    <2> QED
      BY <2>1, <2>2 DEF NoEnd
  <1>21. CASE GoOn
    BY <1>21 DEF GoOn, Do
  <1>22. CASE DoStep
    <2>1. CASE error /\ status = "FINISHED" /\ UNCHANGED <<status, sevent, tevent>>
      BY <1>22, <2>1, DoStepEffect DEF error, Prompt
    <2>2. CASE StepOver
      BY <1>22, <2>2, DoStepEffect DEF StepOver, resume
    <2>3. \/ error /\ status = "FINISHED" /\ UNCHANGED <<status, sevent, tevent>>
          \/ StepOver
      BY <1>22, DoStepEffect
    <2> HIDE DEF vars, thread, code, shared, access, control, Events, NoEnd
    <2> QED
      BY <2>1, <2>2, <2>3
  <1>23. CASE Stepped
    <2>1. (bphead' \in Seq(Event) /\ NoEnd') \/ bphead' = bphead
      BY <1>23, SteppedEffect, FixbpsEvents DEF printstatus, StepDone
    <2>2. dbg'.at \in {"prompt", "bpact", "loop"}
      <3>1. CASE dbg' = Prompt
        BY <3>1 DEF Prompt
      <3>2. CASE StepDone
        BY <3>2 DEF StepDone, Typing, Dbg
      <3> QED
        BY <1>23, <3>1, <3>2, SteppedEffect DEF printstatus, error
    <2> QED
      BY <2>1, <2>2 DEF NoEnd
  <1>24. CASE \E l \in Loc, kind \in {"stop", "trace"} : AddEvent(l, kind)
    <2>1. PICK l \in Loc, kind \in {"stop", "trace"} : AddEvent(l, kind)
      BY <1>24
    <2>2. bphead' = <<[addr |-> l, kind |-> kind]>> \o bphead /\ dbg.at = "prompt" /\ dbg' = dbg
      BY <2>1 DEF AddEvent
    <2>3. [addr |-> l, kind |-> kind] \in Event
      BY DEF Event
    <2>4. /\ bphead' \in Seq(Event)
          /\ \A i \in DOMAIN bphead' :
                /\ bphead'[i] = IF i = 1 THEN [addr |-> l, kind |-> kind] ELSE bphead[i - 1]
                /\ i = 1 \/ i - 1 \in DOMAIN bphead
      BY <2>2, <2>3, PrependEvent
    <2>5. ASSUME NEW i \in DOMAIN bphead', NEW j \in DOMAIN bphead',
                 bphead'[i].kind = "END", bphead'[j].kind = "END"
          PROVE  i = j
      <3>1. i # 1 /\ j # 1
        BY <2>4, <2>5
      <3>2. i - 1 = j - 1
        BY <2>4, <2>5, <3>1
      <3>3. i \in Nat /\ j \in Nat
        BY <2>4
      <3> QED
        BY <3>2, <3>3
    <2> QED
      BY <2>2, <2>4, <2>5
  <1>25. CASE \E i \in DOMAIN bphead : Delete(i)
    <2>1. PICK i \in DOMAIN bphead : Delete(i)
      BY <1>25
    <2>2. bphead' = RemoveAt(bphead, i) /\ dbg.at = "prompt" /\ dbg' = dbg
      BY <2>1 DEF Delete
    <2>3. bphead \in Seq(Event) /\ Len(bphead) \in Nat /\ i \in 1..Len(bphead)
      OBVIOUS
    <2>4. /\ bphead' \in Seq(Event)
          /\ Len(bphead') = Len(bphead) - 1
          /\ \A j \in 1..Len(bphead) - 1 : bphead'[j] = IF j < i THEN bphead[j] ELSE bphead[j + 1]
      BY <2>2, <2>3, RemoveAtType
    <2>5. ASSUME NEW j \in DOMAIN bphead', NEW k \in DOMAIN bphead',
                 bphead'[j].kind = "END", bphead'[k].kind = "END"
          PROVE  j = k
      <3>1. j \in 1..Len(bphead) - 1 /\ k \in 1..Len(bphead) - 1
        BY <2>3, <2>4
      <3> DEFINE Old(m) == IF m < i THEN m ELSE m + 1
      <3>2. \A m \in 1..Len(bphead) - 1 : Old(m) \in 1..Len(bphead) /\ bphead'[m] = bphead[Old(m)]
        BY <2>3, <2>4
      <3> HIDE DEF Old
      <3>3. Old(j) = Old(k)
        BY <2>3, <2>5, <3>1, <3>2
      <3> QED
        BY <2>3, <3>1, <3>3 DEF Old
    <2> QED
      BY <2>2, <2>4, <2>5
  <1>26. CASE \E for \in {"run", "restart"} : Run(for)
    <2>1. bphead' \in Seq(Event) /\ NoEnd'
      BY <1>26, FixbpsEvents DEF Run
    <2> QED
      BY <2>1 DEF NoEnd
  <1>27. CASE TraceAll
    BY <1>27 DEF TraceAll
  <1>28. CASE Cont
    <2>1. dbg.at = "prompt" /\ dbg'.at \in {"prompt", "loop", "step"} /\ bphead' = bphead
      BY <1>28 DEF Cont, Typing, Dbg
    <2> QED
      BY <2>1
  <1>29. CASE Step
    BY <1>29 DEF Step
  <1>30. CASE UNCHANGED vars
    BY <1>30
  <1> QED
    BY <1>1, <1>2, <1>3, <1>4, <1>5, <1>6, <1>7, <1>8, <1>9, <1>10, <1>11, <1>12, <1>13, <1>14, <1>15, <1>16, <1>17, <1>18, <1>19, <1>20, <1>21, <1>22, <1>23, <1>24, <1>25, <1>26, <1>27, <1>28, <1>29, <1>30
       DEF Next, Interpreter, Debugger, Command

\* setallbps and unsetallbps stay within the list, which nothing changes meanwhile.
LEMMA CountedStep ==
    ASSUME Typing, Handshake, Events, Events', Counted, [Next]_vars
    PROVE  Counted'
  <1> USE DEF vars, thread, code, shared, access, control, Typing, Dbg, DbgPlace, Waiting, Counted, Handshake, Exchange, Events
  <1>1. CASE Released
    BY <1>1 DEF Released
  <1>2. CASE Entry
    BY <1>2 DEF Entry, pxhalt
  <1>3. CASE Load
    BY <1>3 DEF Load
  <1>4. CASE Trap
    BY <1>4 DEF Trap, pxhalt, AtCode
  <1>5. CASE Exec
    BY <1>5 DEF Exec, AtCode
  <1>6. CASE Fail
    BY <1>6 DEF Fail, pxhalt, AtCode
  <1>7. CASE End
    BY <1>7 DEF End, AtCode
  <1>8. CASE Kill
    BY <1>8 DEF Kill, Do
  <1>9. CASE Killed
    BY <1>9 DEF Killed, Answered, Do
  <1>10. CASE Create
    BY <1>10 DEF Create, Do
  <1>11. CASE Started
    BY <1>11 DEF Started, Answered, Do
  <1>12. CASE Loaded
    BY <1>12 DEF Loaded, Answered, Do, Prompt
  <1>13. CASE Loop
    BY <1>13 DEF Loop, Do
  <1>14. CASE Set
    <2>1. CASE NextEvent
      BY <1>14, <2>1, SetEffect DEF NextEvent
    <2>2. CASE error /\ status = "FINISHED"
      BY <1>14, <2>2, SetEffect DEF error, Prompt
    <2>3. \/ NextEvent
          \/ error /\ status = "FINISHED"
      BY <1>14, SetEffect
    <2> HIDE DEF vars, thread, code, shared, access, control, Typing, Dbg, DbgPlace, Waiting, Counted, Handshake, Exchange, Events
    <2> QED
      BY <2>1, <2>2, <2>3
  <1>15. CASE Resume
    BY <1>15 DEF Resume, resume
  <1>16. CASE Came
    BY <1>16 DEF Came, Answered, Do, Pc
  <1>17. CASE Unset
    <2>1. CASE NextEvent
      BY <1>17, <2>1, UnsetEffect DEF NextEvent
    <2>2. CASE error /\ status = "FINISHED"
      BY <1>17, <2>2, UnsetEffect DEF error, Prompt
    <2>3. \/ NextEvent
          \/ error /\ status = "FINISHED"
      BY <1>17, UnsetEffect
    <2> HIDE DEF vars, thread, code, shared, access, control, Typing, Dbg, DbgPlace, Waiting, Counted, Handshake, Exchange, Events
    <2> QED
      BY <2>1, <2>2, <2>3
  <1>18. CASE Act
    BY <1>18 DEF Act
  <1>19. CASE EndProgram
    BY <1>19 DEF EndProgram, Prompt
  <1>20. CASE Report
    BY <1>20 DEF Report, printstatus, Prompt, fixbps
  <1>21. CASE GoOn
    BY <1>21 DEF GoOn, Do
  <1>22. CASE DoStep
    <2>1. CASE error /\ status = "FINISHED" /\ UNCHANGED <<status, sevent, tevent>>
      BY <1>22, <2>1, DoStepEffect DEF error, Prompt
    <2>2. CASE StepOver
      BY <1>22, <2>2, DoStepEffect DEF StepOver, resume
    <2>3. \/ error /\ status = "FINISHED" /\ UNCHANGED <<status, sevent, tevent>>
          \/ StepOver
      BY <1>22, DoStepEffect
    <2> HIDE DEF vars, thread, code, shared, access, control, Typing, Dbg, DbgPlace, Waiting, Counted, Handshake, Exchange, Events
    <2> QED
      BY <2>1, <2>2, <2>3
  <1>23. CASE Stepped
    <2>1. CASE status = "FINISHED" /\ error /\ UNCHANGED control
      BY <1>23, <2>1, SteppedEffect DEF Answered, Pc, error, Prompt
    <2>2. CASE status # "FINISHED" /\ ~isbperr /\ printstatus(FALSE)
      BY <1>23, <2>2, SteppedEffect DEF Answered, Pc, isbperr, printstatus, fixbps, Prompt
    <2>3. CASE status # "FINISHED" /\ isbperr /\ pc = N /\ error /\ UNCHANGED control
      BY <1>23, <2>3, SteppedEffect DEF Answered, Pc, isbperr, error, Prompt
    <2>4. CASE StepDone
      BY <1>23, <2>4, SteppedEffect DEF Answered, Pc, isbperr, StepDone
    <2>5. \/ status = "FINISHED" /\ error /\ UNCHANGED control
          \/ status # "FINISHED" /\ ~isbperr /\ printstatus(FALSE)
          \/ status # "FINISHED" /\ isbperr /\ pc = N /\ error /\ UNCHANGED control
          \/ StepDone
      BY <1>23, SteppedEffect
    <2> HIDE DEF vars, thread, code, shared, access, control, Typing, Dbg, DbgPlace, Waiting, Counted, Handshake, Exchange, Events
    <2> QED
      BY <2>1, <2>2, <2>3, <2>4, <2>5
  <1>24. CASE \E l \in Loc, kind \in {"stop", "trace"} : AddEvent(l, kind)
    BY <1>24 DEF AddEvent
  <1>25. CASE \E i \in DOMAIN bphead : Delete(i)
    BY <1>25 DEF Delete
  <1>26. CASE \E for \in {"run", "restart"} : Run(for)
    BY <1>26 DEF Run, fixbps
  <1>27. CASE TraceAll
    BY <1>27 DEF TraceAll
  <1>28. CASE Cont
    BY <1>28 DEF Cont
  <1>29. CASE Step
    BY <1>29 DEF Step
  <1>30. CASE UNCHANGED vars
    BY <1>30
  <1> QED
    BY <1>1, <1>2, <1>3, <1>4, <1>5, <1>6, <1>7, <1>8, <1>9, <1>10, <1>11, <1>12, <1>13, <1>14, <1>15, <1>16, <1>17, <1>18, <1>19, <1>20, <1>21, <1>22, <1>23, <1>24, <1>25, <1>26, <1>27, <1>28, <1>29, <1>30
       DEF Next, Interpreter, Debugger, Command

\* dostep alone aims, at an instruction of the program.
LEMMA AimedStep ==
    ASSUME Typing, Handshake, Located, Aimed, [Next]_vars
    PROVE  Aimed'
  <1>1. CASE DoStep
    <2>1. CASE StepOver
      <3>1. dbg.at = "step" /\ status # "FINISHED"
        BY <1>1, <2>1, DoStepEffect DEF StepOver
      <3>2. nextaddr(pc) \in Loc
        BY <3>1, StepsFromLoc, NextaddrType
      <3>3. dbg'.to = nextaddr(pc)
        BY <2>1 DEF StepOver, resume, Typing, Dbg
      <3> QED
        BY <3>2, <3>3 DEF Aimed
    <2>2. CASE error
      BY <2>2 DEF error, Prompt, Aimed
    <2> QED
      BY <1>1, <2>1, <2>2, DoStepEffect
  <1>2. CASE Stepped
    <2>1. CASE dbg' = Prompt
      BY <2>1 DEF Prompt, Aimed
    <2>2. CASE StepDone
      BY <2>2 DEF StepDone, Typing, Dbg, Aimed
    <2> QED
      BY <1>2, <2>1, <2>2, SteppedEffect DEF printstatus, error
  <1>3. CASE Set \/ Unset
    <2>1. CASE NextEvent
      BY <1>3, <2>1, SetEffect, UnsetEffect DEF NextEvent, Typing, Dbg, Aimed
    <2>2. CASE error
      BY <2>2 DEF error, Prompt, Aimed
    <2> QED
      BY <1>3, <2>1, <2>2, SetEffect, UnsetEffect
  <1>4. CASE Interpreter \/ UNCHANGED vars
    <2>1. dbg' = dbg
      BY <1>4 DEF Interpreter, Released, Entry, Load, Trap, Exec, Fail, End, vars
    <2> QED
      BY <2>1 DEF Aimed
  <1>5. CASE Command
    <2>1. dbg' = dbg \/ dbg'.at # "stepping"
      BY <1>5 DEF Command, AddEvent, Delete, TraceAll, Run, Cont, Step, Typing, Dbg
    <2> QED
      BY <2>1 DEF Aimed
  <1>6. CASE \/ Kill \/ Killed \/ Create \/ Started \/ Loaded
             \/ Loop \/ Resume \/ Came \/ Act \/ EndProgram \/ Report \/ GoOn
    <2>1. Kill => dbg'.at # "stepping"
      BY DEF Kill, Do, Typing, Dbg
    <2>2. Killed => dbg'.at # "stepping"
      BY DEF Killed, Do, Typing, Dbg
    <2>3. Create => dbg'.at # "stepping"
      BY DEF Create, Do, Typing, Dbg
    <2>4. Started => dbg'.at # "stepping"
      BY DEF Started, Answered, Do, Typing, Dbg
    <2>5. Loaded => dbg'.at # "stepping"
      <3>1. Loaded => dbg' \in {Do("loop"), Do("panic"), Prompt}
        BY Zenon DEF Loaded
      <3>2. \A at \in {"loop", "panic"} : Do(at).at = at
        BY DEF Do, Typing, Dbg
      <3> QED
        BY <3>1, <3>2 DEF Prompt
    <2>6. Loop => dbg'.at # "stepping"
      BY DEF Loop, Do, Typing, Dbg
    <2>7. Resume => dbg'.at # "stepping"
      BY DEF Resume, resume, Typing, Dbg
    <2>8. Came => dbg'.at # "stepping"
      BY DEF Came, Do, Typing, Dbg
    <2>9. EndProgram \/ Report => dbg'.at # "stepping"
      <3>1. EndProgram \/ Report => dbg' = Prompt
        BY Zenon DEF EndProgram, Report, printstatus
      <3> QED
        BY <3>1 DEF Prompt
    <2>10. Act \/ GoOn => dbg'.at # "stepping"
      BY DEF Act, GoOn, Do, Typing, Dbg
    <2> QED
      BY <1>6, <2>1, <2>2, <2>3, <2>4, <2>5, <2>6, <2>7, <2>8, <2>9, <2>10 DEF Aimed
  <1> QED
    BY <1>1, <1>2, <1>3, <1>4, <1>5, <1>6 DEF Next, Debugger

-----------------------------------------------------------------------------
(* The object code.                                                         *)

\* A program that pdx will still look at.
Live == status # "FINISHED" \/ dbg.at \in {"start", "killing"}

Words == { WordOf(l) : l \in Loc }

\* A line of the cache that is filled; e is where the program is that is loaded now;
\* the words of others were left as they were made.
Filled(e, b, w, m) == [addr |-> <<b, w>>, val |-> [h \in Half(w) |-> IF b = e THEN m[h] ELSE "op"]]

\* A line is empty or filled with a word that belongs into it.
LineHolds(e, x, line, m) ==
    \/ line = Empty
    \/ \E b \in Base, w \in Words : cachehash[<<b, w>>] = x /\ line = Filled(e, b, w, m)
CacheHolds(e, cache, m) == DOMAIN cache = Lines /\ \A x \in Lines : LineHolds(e, x, cache[x], m)

Saved == [location : Loc, save : {"op"}, refcount : Nat]

\* There is one saved half-word for every place that is held, and it counts who holds it.
SavedFor(saved, held) ==
    /\ saved \in Seq(Saved)
    /\ \A i \in 1..Len(saved) : saved[i].refcount = held[saved[i].location] /\ saved[i].refcount # 0
    /\ \A l \in Loc : held[l] # 0 => \E i \in 1..Len(saved) : saved[i].location = l
    /\ \A i, j \in 1..Len(saved) : saved[i].location = saved[j].location => i = j

\* The code of the program with a breakpoint at the places `shown'.
CodeWith(shown) == [l \in Loc |-> IF l \in shown THEN "bpt" ELSE "op"]

\* A view of the object code in which the places are held as `held' counts, and `shown' have a breakpoint.
Good(e, v, held, shown) ==
    /\ v = [mem |-> v.mem, word |-> v.word, save |-> v.save]
    /\ held \in [Loc -> Nat]
    /\ v.mem = CodeWith(shown)
    /\ CacheHolds(e, v.word, v.mem)
    /\ SavedFor(v.save, held)
    /\ \A l \in shown : l \in Loc /\ held[l] # 0

\* How many of the events `evs' are at a place, and where they are
CountIn(b, evs) == [l \in Loc |-> Cardinality({ i \in evs : b[i].addr = l })]
AddrIn(b, evs) == { b[i].addr : i \in evs }
Zero == [l \in Loc |-> 0]

Clean ==
    Live =>
        /\ dbg.at \notin {"set", "running", "unset", "stepping"} => Good(ENDOFF, View, Zero, {})
        /\ dbg.at = "set" => Good(ENDOFF, View, CountIn(bphead, 1..dbg.i - 1), AddrIn(bphead, 1..dbg.i - 1))
        /\ dbg.at = "running" => Good(ENDOFF, View, CountIn(bphead, 1..Len(bphead)), AddrIn(bphead, 1..Len(bphead)))
        /\ dbg.at = "unset" => Good(ENDOFF, View, CountIn(bphead, dbg.i..Len(bphead)),
                                          AddrIn(bphead, dbg.i..Len(bphead)) \ AddrIn(bphead, 1..dbg.i - 1))
        /\ dbg.at = "stepping" => Good(ENDOFF, View, [Zero EXCEPT ![dbg.to] = 1], {dbg.to})
\* The word of a place, and its line.
LEMMA KeyType ==
    ASSUME NEW l \in Loc, ENDOFF \in Base
    PROVE  /\ WordOf(l) \in Words /\ l \in Half(WordOf(l))
           /\ Key(l) = <<ENDOFF, WordOf(l)>>
           /\ At(l) = cachehash[<<ENDOFF, WordOf(l)>>] /\ At(l) \in Lines
  <1>1. WordOf(l) \in Words /\ l \in Half(WordOf(l))
    BY DEF Words, Half
  <1>2. <<ENDOFF, WordOf(l)>> \in Base \X { WordOf(k) : k \in 1..N }
    BY <1>1 DEF Words, Loc
  <1> QED
    BY <1>1, <1>2, ProcessAssumption DEF Key, At

\* An empty line holds no word.
LEMMA EmptyIsNoKey ==
    ASSUME NEW b \in Base \cup {None}, NEW w \in Words
    PROVE  Empty.addr # <<b, w>>
  BY ProcessAssumption DEF Empty, Words, Loc

\* After fetch the line holds the word as the memory does.
LEMMA FetchedIsFilled ==
    ASSUME NEW v, NEW l \in Loc, ENDOFF \in Base, CacheHolds(ENDOFF, v.word, v.mem)
    PROVE  Fetched(v, l) = Filled(ENDOFF, ENDOFF, WordOf(l), v.mem)
  <1>1. /\ WordOf(l) \in Words /\ Key(l) = <<ENDOFF, WordOf(l)>> /\ At(l) \in Lines
    BY KeyType
  <1>2. CASE v.word[At(l)].addr = Key(l)
    <2>1. Fetched(v, l) = v.word[At(l)]
      BY <1>2 DEF Fetched
    <2>2. LineHolds(ENDOFF, At(l), v.word[At(l)], v.mem)
      BY <1>1 DEF CacheHolds
    <2>3. v.word[At(l)] # Empty
      BY <1>1, <1>2, EmptyIsNoKey
    <2>4. PICK b \in Base, w \in Words : v.word[At(l)] = Filled(ENDOFF, b, w, v.mem)
      BY <2>2, <2>3 DEF LineHolds
    <2>5. <<b, w>> = <<ENDOFF, WordOf(l)>>
      BY <1>1, <1>2, <2>4 DEF Filled
    <2>6. b = ENDOFF /\ w = WordOf(l)
      BY <2>5
    <2> QED
      BY <2>1, <2>4, <2>6
  <1>3. CASE v.word[At(l)].addr # Key(l)
    BY <1>1, <1>3 DEF Fetched, Filled
  <1> QED
    BY <1>2, <1>3

\* A line that holds its word still does when a half-word of another word changes.
LEMMA OtherLines ==
    ASSUME NEW v, NEW l \in Loc, NEW m2, ENDOFF \in Base, CacheHolds(ENDOFF, v.word, v.mem),
           \A h \in Loc : h # l => m2[h] = v.mem[h],
           NEW x \in Lines, x # At(l)
    PROVE  LineHolds(ENDOFF, x, v.word[x], m2)
  <1>1. At(l) = cachehash[<<ENDOFF, WordOf(l)>>]
    BY KeyType
  <1>2. CASE v.word[x] = Empty
    BY <1>2 DEF LineHolds
  <1>3. CASE v.word[x] # Empty
    <2>1. PICK b \in Base, w \in Words : cachehash[<<b, w>>] = x /\ v.word[x] = Filled(ENDOFF, b, w, v.mem)
      BY <1>3 DEF CacheHolds, LineHolds
    <2>2. ASSUME b = ENDOFF, NEW h \in Half(w)
          PROVE  h \in Loc /\ h # l
      BY <1>1, <2>1, <2>2 DEF Half
    <2>3. Filled(ENDOFF, b, w, v.mem) = Filled(ENDOFF, b, w, m2)
      BY <2>2 DEF Filled
    <2> QED
      BY <2>1, <2>3 DEF LineHolds
  <1> QED
    BY <1>2, <1>3

\* fetch fills a line.
LEMMA FetchKeeps ==
    ASSUME NEW v, NEW l \in Loc, ENDOFF \in Base, NEW held, NEW shown, Good(ENDOFF, v, held, shown)
    PROVE  Good(ENDOFF, fetch(v, l), held, shown)
  <1>1. fetch(v, l) = [mem |-> v.mem, word |-> [v.word EXCEPT ![At(l)] = Fetched(v, l)], save |-> v.save]
    BY DEF fetch, Good
  <1>2. Fetched(v, l) = Filled(ENDOFF, ENDOFF, WordOf(l), v.mem)
    BY FetchedIsFilled DEF Good
  <1>3. ASSUME NEW x \in Lines
        PROVE  LineHolds(ENDOFF, x, [v.word EXCEPT ![At(l)] = Fetched(v, l)][x], v.mem)
    <2>1. CASE x = At(l)
      BY <1>2, <2>1, KeyType DEF LineHolds, Good, CacheHolds
    <2>2. CASE x # At(l)
      BY <2>2 DEF Good, CacheHolds
    <2> QED
      BY <2>1, <2>2
  <1>4. CacheHolds(ENDOFF, [v.word EXCEPT ![At(l)] = Fetched(v, l)], v.mem)
    BY <1>3 DEF CacheHolds, Good
  <1>5. fetch(v, l).mem = v.mem /\ fetch(v, l).save = v.save
        /\ fetch(v, l).word = [v.word EXCEPT ![At(l)] = Fetched(v, l)]
    BY <1>1
  <1> QED
    BY <1>1, <1>4, <1>5 DEF Good

\* pio writes one half-word, to the memory and through the cache.
LEMMA IwriteKeeps ==
    ASSUME NEW v, NEW l \in Loc, NEW x, ENDOFF \in Base,
           v = [mem |-> v.mem, word |-> v.word, save |-> v.save],
           DOMAIN v.mem = Loc, v.mem = [h \in Loc |-> v.mem[h]], CacheHolds(ENDOFF, v.word, v.mem)
    PROVE  /\ iwrite(v, l, x) = [mem |-> [v.mem EXCEPT ![l] = x],
                                 word |-> iwrite(v, l, x).word, save |-> v.save]
           /\ CacheHolds(ENDOFF, iwrite(v, l, x).word, [v.mem EXCEPT ![l] = x])
  <1> DEFINE m2 == [v.mem EXCEPT ![l] = x]
             line == [Fetched(v, l) EXCEPT !.val[l] = x]
             cache == [v.word EXCEPT ![At(l)] = line]
  <1>1. WordOf(l) \in Words /\ l \in Half(WordOf(l)) /\ At(l) \in Lines
        /\ At(l) = cachehash[<<ENDOFF, WordOf(l)>>]
    BY KeyType
  <1>2. Fetched(v, l) = Filled(ENDOFF, ENDOFF, WordOf(l), v.mem)
    BY FetchedIsFilled
  <1>3. line = Filled(ENDOFF, ENDOFF, WordOf(l), m2)
    <2>1. line = [addr |-> <<ENDOFF, WordOf(l)>>, val |-> [[h \in Half(WordOf(l)) |-> v.mem[h]] EXCEPT ![l] = x]]
      BY <1>2 DEF Filled
    <2>2. [[h \in Half(WordOf(l)) |-> v.mem[h]] EXCEPT ![l] = x] = [h \in Half(WordOf(l)) |-> m2[h]]
      BY <1>1 DEF Half
    <2> HIDE DEF line, m2
    <2> QED
      BY <2>1, <2>2 DEF Filled
  <1>4. iwrite(v, l, x) = [mem |-> [h \in Loc |-> IF h \in Half(WordOf(l)) THEN line.val[h] ELSE v.mem[h]],
                           word |-> cache, save |-> v.save]
    <2>1. iwrite(v, l, x) = [v EXCEPT !.word[At(l)] = line,
                                      !.mem = [h \in Loc |-> IF h \in Half(WordOf(l)) THEN line.val[h] ELSE @[h]]]
      BY DEF iwrite
    <2> HIDE DEF line
    <2> QED
      BY <2>1
  <1>5. [h \in Loc |-> IF h \in Half(WordOf(l)) THEN line.val[h] ELSE v.mem[h]] = m2
    <2>1. \A h \in Half(WordOf(l)) : line.val[h] = m2[h]
      <3> HIDE DEF line, m2
      <3> QED
        BY <1>3 DEF Filled
    <2> HIDE DEF line
    <2>2. \A h \in Loc : h \notin Half(WordOf(l)) => m2[h] = v.mem[h]
      BY <1>1
    <2>3. m2 = [h \in Loc |-> m2[h]]
      OBVIOUS
    <2> HIDE DEF m2
    <2> QED
      BY <2>1, <2>2, <2>3
  <1>6. CacheHolds(ENDOFF, cache, m2)
    <2>1. \A h \in Loc : h # l => m2[h] = v.mem[h]
      OBVIOUS
    <2> HIDE DEF line, m2
    <2>2. ASSUME NEW y \in Lines
          PROVE  LineHolds(ENDOFF, y, cache[y], m2)
      <3>1. CASE y = At(l)
        BY <1>1, <1>3, <3>1 DEF LineHolds, CacheHolds
      <3>2. CASE y # At(l)
        <4>1. cache[y] = v.word[y]
          BY <3>2 DEF CacheHolds
        <4>2. LineHolds(ENDOFF, y, v.word[y], m2)
          BY <2>1, <3>2, OtherLines
        <4> QED
          BY <4>1, <4>2
      <3> QED
        BY <3>1, <3>2
    <2> QED
      BY <2>2 DEF CacheHolds
  <1> HIDE DEF line, m2, cache
  <1>7. iwrite(v, l, x) = [mem |-> m2, word |-> cache, save |-> v.save]
    BY <1>4, <1>5
  <1> QED
    BY <1>6, <1>7 DEF m2

\* A saved half-word more, in front of the others.
LEMMA SavedFirst ==
    ASSUME NEW s, NEW held \in [Loc -> Nat], SavedFor(s, held), NEW l \in Loc,
           \A i \in 1..Len(s) : s[i].location # l
    PROVE  /\ held[l] = 0
           /\ SavedFor(<<[location |-> l, save |-> "op", refcount |-> 1]>> \o s, [held EXCEPT ![l] = @ + 1])
  <1> DEFINE e == [location |-> l, save |-> "op", refcount |-> 1]
             t == <<e>> \o s
             held2 == [held EXCEPT ![l] = @ + 1]
  <1>1. held[l] = 0
    BY DEF SavedFor
  <1>2. e \in Saved /\ e.location = l /\ e.refcount = 1
    BY DEF Saved
  <1> HIDE DEF e
  <1>3. s \in Seq(Saved) /\ Len(s) \in Nat
    BY DEF SavedFor
  <1>4. /\ t \in Seq(Saved) /\ Len(t) = Len(s) + 1
        /\ t[1] = e
        /\ \A i \in 1..Len(s) : t[i + 1] = s[i]
    BY <1>2, <1>3
  <1>5. \A i \in 1..Len(t) : i = 1 \/ (i - 1 \in 1..Len(s) /\ t[i] = s[i - 1])
    BY <1>3, <1>4
  <1>6. held2[l] = 1 /\ \A k \in Loc : k # l => held2[k] = held[k]
    BY <1>1
  <1> HIDE DEF t, held2
  <1>7. \A i \in 1..Len(t) : t[i].refcount = held2[t[i].location] /\ t[i].refcount # 0
    <2>1. TAKE i \in 1..Len(t)
    <2>2. CASE i = 1
      BY <1>2, <1>4, <1>6, <2>2
    <2>3. CASE i # 1
      <3>1. i - 1 \in 1..Len(s) /\ t[i] = s[i - 1]
        BY <1>5, <2>3
      <3>2. s[i - 1].location \in Loc /\ s[i - 1].location # l
        <4>1. s[i - 1] \in Saved
          BY <1>3, <3>1
        <4> QED
          BY <3>1, <4>1 DEF Saved
      <3> QED
        BY <1>6, <3>1, <3>2 DEF SavedFor
    <2> QED
      BY <2>2, <2>3
  <1>8. \A k \in Loc : held2[k] # 0 => \E i \in 1..Len(t) : t[i].location = k
    <2>1. SUFFICES ASSUME NEW k \in Loc, held2[k] # 0
                   PROVE  \E i \in 1..Len(t) : t[i].location = k
      OBVIOUS
    <2>2. CASE k = l
      BY <1>2, <1>3, <1>4, <2>2
    <2>3. CASE k # l
      <3>1. PICK i \in 1..Len(s) : s[i].location = k
        BY <1>6, <2>1, <2>3 DEF SavedFor
      <3>2. i + 1 \in 1..Len(t)
        BY <1>3, <1>4
      <3> QED
        BY <1>4, <3>1, <3>2
    <2> QED
      BY <2>2, <2>3
  <1>9. ASSUME NEW i \in 1..Len(t), NEW j \in 1..Len(t), t[i].location = t[j].location
        PROVE  i = j
    <2>1. CASE i = 1 /\ j = 1
      BY <2>1
    <2>2. CASE i # 1 /\ j # 1
      <3>1. /\ i - 1 \in 1..Len(s) /\ t[i] = s[i - 1]
            /\ j - 1 \in 1..Len(s) /\ t[j] = s[j - 1]
        BY <1>5, <2>2
      <3>2. \A m, k \in 1..Len(s) : s[m].location = s[k].location => m = k
        BY DEF SavedFor
      <3>3. i - 1 = j - 1
        BY <1>9, <3>1, <3>2
      <3>4. i \in Nat /\ j \in Nat
        BY <1>3, <1>4
      <3> QED
        BY <3>3, <3>4
    <2>3. CASE (i = 1) # (j = 1)
      BY <1>2, <1>4, <1>5, <1>9, <2>3
    <2> QED
      BY <2>1, <2>2, <2>3
  <1> QED
    BY <1>1, <1>4, <1>7, <1>8, <1>9 DEF SavedFor, e, t, held2

\* The count of a saved half-word changes, and stays above 0.
LEMMA SavedCounts ==
    ASSUME NEW s, NEW held \in [Loc -> Nat], SavedFor(s, held), NEW i \in 1..Len(s),
           NEW n \in Nat \ {0}
    PROVE  SavedFor([s EXCEPT ![i].refcount = n], [held EXCEPT ![s[i].location] = n])
  <1> DEFINE t == [s EXCEPT ![i].refcount = n]
             held2 == [held EXCEPT ![s[i].location] = n]
  <1>1. s \in Seq(Saved) /\ Len(s) \in Nat /\ s[i] \in Saved
    BY DEF SavedFor
  <1>2. [s[i] EXCEPT !.refcount = n] \in Saved
        /\ [s[i] EXCEPT !.refcount = n].location = s[i].location
        /\ [s[i] EXCEPT !.refcount = n].refcount = n
    BY <1>1 DEF Saved
  <1>3. t = [s EXCEPT ![i] = [s[i] EXCEPT !.refcount = n]]
    OBVIOUS
  <1>4. t \in Seq(Saved) /\ Len(t) = Len(s)
        /\ \A j \in 1..Len(s) : t[j] = IF j = i THEN [s[i] EXCEPT !.refcount = n] ELSE s[j]
    <2> HIDE DEF t
    <2> QED
      BY <1>1, <1>2, <1>3
  <1> HIDE DEF t
  <1>5. \A j \in 1..Len(s) : t[j].location = s[j].location /\ (j # i => t[j] = s[j])
    BY <1>2, <1>4
  <1>6. s[i].location \in Loc /\ held2[s[i].location] = n
        /\ \A k \in Loc : k # s[i].location => held2[k] = held[k]
    BY <1>1 DEF Saved
  <1> HIDE DEF held2
  <1>7. ASSUME NEW j \in 1..Len(t)
        PROVE  t[j].refcount = held2[t[j].location] /\ t[j].refcount # 0
    <2>1. CASE j = i
      BY <1>2, <1>4, <1>6, <2>1
    <2>2. CASE j # i
      <3>1. j \in 1..Len(s) /\ s[j] \in Saved
        BY <1>1, <1>4
      <3>2. s[j].location \in Loc
        BY <3>1 DEF Saved
      <3>3. s[j].location # s[i].location
        BY <2>2, <3>1 DEF SavedFor
      <3>4. s[j].refcount = held[s[j].location] /\ s[j].refcount # 0
        BY <3>1 DEF SavedFor
      <3> QED
        BY <1>5, <1>6, <2>2, <3>1, <3>2, <3>3, <3>4
    <2> QED
      BY <2>1, <2>2
  <1>8. ASSUME NEW k \in Loc, held2[k] # 0
        PROVE  \E j \in 1..Len(t) : t[j].location = k
    <2>1. CASE k = s[i].location
      BY <1>4, <1>5, <2>1
    <2>2. CASE k # s[i].location
      <3>1. PICK m \in 1..Len(s) : s[m].location = k
        BY <1>6, <1>8, <2>2 DEF SavedFor
      <3> QED
        BY <1>4, <1>5, <3>1
    <2> QED
      BY <2>1, <2>2
  <1>9. \A j, k \in 1..Len(t) : t[j].location = t[k].location => j = k
    BY <1>4, <1>5 DEF SavedFor
  <1> QED
    BY <1>4, <1>7, <1>8, <1>9 DEF SavedFor, t, held2

\* A saved half-word that nobody holds any more is taken off.
LEMMA SavedGone ==
    ASSUME NEW s, NEW held \in [Loc -> Nat], SavedFor(s, held), NEW i \in 1..Len(s)
    PROVE  SavedFor(RemoveAt(s, i), [held EXCEPT ![s[i].location] = 0])
  <1> DEFINE t == RemoveAt(s, i)
             held2 == [held EXCEPT ![s[i].location] = 0]
             Old(j) == IF j < i THEN j ELSE j + 1
  <1>1. s \in Seq(Saved) /\ Len(s) \in Nat /\ s[i].location \in Loc
    <2>1. s \in Seq(Saved) /\ Len(s) \in Nat /\ s[i] \in Saved
      BY DEF SavedFor
    <2> QED
      BY <2>1 DEF Saved
  <1>2. t \in Seq(Saved) /\ Len(t) = Len(s) - 1
        /\ \A j \in 1..Len(s) - 1 : t[j] = IF j < i THEN s[j] ELSE s[j + 1]
    <2>1. i \in DOMAIN s
      BY <1>1
    <2> HIDE DEF t
    <2> QED
      BY <1>1, <2>1, RemoveAtType DEF t
  <1> HIDE DEF t
  <1>3. \A j \in 1..Len(t) : Old(j) \in 1..Len(s) /\ Old(j) # i /\ t[j] = s[Old(j)]
    BY <1>1, <1>2
  <1>4. \A j, k \in 1..Len(t) : Old(j) = Old(k) => j = k
    BY <1>1, <1>2
  <1>5. \A k \in 1..Len(s) : k # i => \E j \in 1..Len(t) : Old(j) = k
    <2>1. SUFFICES ASSUME NEW k \in 1..Len(s), k # i
                   PROVE  \E j \in 1..Len(t) : Old(j) = k
      OBVIOUS
    <2>2. CASE k < i
      BY <1>1, <1>2, <2>1, <2>2
    <2>3. CASE k > i
      <3>1. k - 1 \in 1..Len(t) /\ Old(k - 1) = k
        BY <1>1, <1>2, <2>1, <2>3
      <3> QED
        BY <3>1
    <2> QED
      BY <2>1, <2>2, <2>3
  <1>6. held2[s[i].location] = 0 /\ \A k \in Loc : k # s[i].location => held2[k] = held[k]
    BY <1>1
  <1> HIDE DEF held2, Old
  <1>7. ASSUME NEW j \in 1..Len(t)
        PROVE  t[j].refcount = held2[t[j].location] /\ t[j].refcount # 0
    <2>1. Old(j) \in 1..Len(s) /\ s[Old(j)] \in Saved
      BY <1>1, <1>3
    <2>2. s[Old(j)].location \in Loc
      BY <2>1 DEF Saved
    <2>3. s[Old(j)].location # s[i].location
      BY <1>3, <2>1 DEF SavedFor
    <2>4. s[Old(j)].refcount = held[s[Old(j)].location] /\ s[Old(j)].refcount # 0
      BY <2>1 DEF SavedFor
    <2> QED
      BY <1>3, <1>6, <2>2, <2>3, <2>4
  <1>8. ASSUME NEW k \in Loc, held2[k] # 0
        PROVE  \E j \in 1..Len(t) : t[j].location = k
    <2>1. PICK m \in 1..Len(s) : s[m].location = k
      BY <1>6, <1>8 DEF SavedFor
    <2>2. m # i
      BY <1>6, <1>8, <2>1
    <2> QED
      BY <1>3, <1>5, <2>1, <2>2
  <1>9. ASSUME NEW j \in 1..Len(t), NEW k \in 1..Len(t), t[j].location = t[k].location
        PROVE  j = k
    <2>1. /\ Old(j) \in 1..Len(s) /\ t[j] = s[Old(j)]
          /\ Old(k) \in 1..Len(s) /\ t[k] = s[Old(k)]
      BY <1>3
    <2>2. s[Old(j)].location = s[Old(k)].location
      BY <1>9, <2>1
    <2>3. \A p, q \in 1..Len(s) : s[p].location = s[q].location => p = q
      BY DEF SavedFor
    <2>4. Old(j) = Old(k)
      BY <2>1, <2>2, <2>3
    <2> QED
      BY <1>4, <2>4
  <1> QED
    BY <1>2, <1>7, <1>8, <1>9 DEF SavedFor, t, held2

\* The memory with one breakpoint more, or less.
LEMMA CodeChanges ==
    ASSUME NEW l \in Loc, NEW shown
    PROVE  /\ [CodeWith(shown) EXCEPT ![l] = "bpt"] = CodeWith(shown \cup {l})
           /\ [CodeWith(shown) EXCEPT ![l] = "op"] = CodeWith(shown \ {l})
           /\ DOMAIN CodeWith(shown) = Loc
           /\ CodeWith(shown) = [h \in Loc |-> CodeWith(shown)[h]]
           /\ l \in shown => [CodeWith(shown) EXCEPT ![l] = "bpt"] = CodeWith(shown)
  BY DEF CodeWith

\* The place of an entry.
LEMMA EntriesHere ==
    ASSUME NEW v, NEW l, NEW held, SavedFor(v.save, held)
    PROVE  Entries(v, l) = { i \in 1..Len(v.save) : v.save[i].location = l }
  BY DEF Entries

\* setbp: one more holds the place, and there is a breakpoint.
LEMMA SetbpKeeps ==
    ASSUME NEW v, NEW l \in Loc, ENDOFF \in Base, NEW held, NEW shown, Good(ENDOFF, v, held, shown),
           held[l] # 0 => l \in shown
    PROVE  Good(ENDOFF, setbp(v, l), [held EXCEPT ![l] = @ + 1], shown \cup {l})
  <1> DEFINE held2 == [held EXCEPT ![l] = @ + 1]
  <1>1. /\ v = [mem |-> v.mem, word |-> v.word, save |-> v.save]
        /\ held \in [Loc -> Nat] /\ v.mem = CodeWith(shown) /\ CacheHolds(ENDOFF, v.word, v.mem)
        /\ SavedFor(v.save, held) /\ \A k \in shown : k \in Loc /\ held[k] # 0
    BY DEF Good
  <1>2. held2 \in [Loc -> Nat] /\ \A k \in shown \cup {l} : k \in Loc /\ held2[k] # 0
    BY <1>1
  <1>3. CASE Entries(v, l) = {}
    <2> DEFINE entry == [location |-> l, save |-> Fetched(v, l).val[l], refcount |-> 1]
               v1 == [v EXCEPT !.save = <<entry>> \o @]
    <2>1. \A i \in 1..Len(v.save) : v.save[i].location # l
      BY <1>3 DEF Entries
    <2>2. held[l] = 0
      BY <1>1, <2>1, SavedFirst
    <2>3. Fetched(v, l).val[l] = "op"
      <3>1. Fetched(v, l) = Filled(ENDOFF, ENDOFF, WordOf(l), v.mem) /\ l \in Half(WordOf(l))
        BY <1>1, FetchedIsFilled, KeyType
      <3>2. v.mem[l] = "op"
        BY <1>1, <2>2 DEF CodeWith
      <3> QED
        BY <3>1, <3>2 DEF Filled
    <2>4. SavedFor(<<entry>> \o v.save, held2)
      BY <1>1, <2>1, <2>3, SavedFirst
    <2>5. v1 = [mem |-> v.mem, word |-> v.word, save |-> <<entry>> \o v.save]
      <3> DEFINE longer == <<entry>> \o v.save
      <3>1. v1 = [v EXCEPT !.save = longer]
        OBVIOUS
      <3> HIDE DEF longer, v1
      <3>2. v1 = [mem |-> v.mem, word |-> v.word, save |-> longer]
        BY <1>1, <3>1
      <3> QED
        BY <3>2 DEF longer
    <2>6. setbp(v, l) = iwrite(v1, l, "bpt")
      BY <1>3 DEF setbp
    <2> HIDE DEF entry, v1
    <2>7. /\ v1.mem = v.mem /\ v1.word = v.word /\ v1.save = <<entry>> \o v.save
          /\ v1 = [mem |-> v1.mem, word |-> v1.word, save |-> v1.save]
      BY <2>5
    <2>8. DOMAIN v1.mem = Loc /\ v1.mem = [h \in Loc |-> v1.mem[h]]
      <3>1. v1.mem = CodeWith(shown)
        BY <1>1, <2>7
      <3> QED
        BY <3>1, CodeChanges
    <2>9. CacheHolds(ENDOFF, v1.word, v1.mem)
      BY <1>1, <2>7
    <2>10. /\ setbp(v, l) = [mem |-> [v1.mem EXCEPT ![l] = "bpt"],
                            word |-> iwrite(v1, l, "bpt").word, save |-> v1.save]
          /\ CacheHolds(ENDOFF, iwrite(v1, l, "bpt").word, [v1.mem EXCEPT ![l] = "bpt"])
      BY <2>6, <2>7, <2>8, <2>9, IwriteKeeps
    <2>11. [v1.mem EXCEPT ![l] = "bpt"] = CodeWith(shown \cup {l})
      <3>1. v1.mem = CodeWith(shown)
        BY <1>1, <2>7
      <3>2. [CodeWith(shown) EXCEPT ![l] = "bpt"] = CodeWith(shown \cup {l})
        BY CodeChanges
      <3> QED
        BY <3>1, <3>2
    <2> HIDE DEF held2
    <2> QED
      BY <1>2, <2>4, <2>7, <2>10, <2>11 DEF Good, held2
  <1>4. CASE Entries(v, l) # {}
    <2> DEFINE i == CHOOSE i \in Entries(v, l) : TRUE
               n == v.save[i].refcount + 1
    <2>1. i \in 1..Len(v.save) /\ v.save[i].location = l
      BY <1>4 DEF Entries
    <2>2. setbp(v, l) = [v EXCEPT !.save[i].refcount = n]
      BY <1>4 DEF setbp
    <2> HIDE DEF i
    <2>3. held[l] # 0 /\ v.save[i].refcount = held[l] /\ n \in Nat \ {0}
      BY <1>1, <2>1 DEF SavedFor
    <2>4. SavedFor([v.save EXCEPT ![i].refcount = n], [held EXCEPT ![v.save[i].location] = n])
      <3> HIDE DEF n
      <3> QED
        BY <1>1, <2>1, <2>3, SavedCounts
    <2>5. [held EXCEPT ![v.save[i].location] = n] = held2
      BY <2>1, <2>3
    <2> HIDE DEF n
    <2>6. setbp(v, l) = [mem |-> v.mem, word |-> v.word, save |-> [v.save EXCEPT ![i].refcount = n]]
      BY <1>1, <2>2
    <2>7. shown \cup {l} = shown
      BY <2>3
    <2>8. SavedFor([v.save EXCEPT ![i].refcount = n], held2)
      BY <2>4, <2>5
    <2>9. /\ setbp(v, l).mem = v.mem /\ setbp(v, l).word = v.word
          /\ setbp(v, l).save = [v.save EXCEPT ![i].refcount = n]
      BY <2>6
    <2> HIDE DEF held2
    <2> QED
      BY <1>1, <1>2, <2>6, <2>7, <2>8, <2>9 DEF Good, held2
  <1> QED
    BY <1>3, <1>4

\* unsetbp: one less holds the place, which has its instruction again.
LEMMA UnsetbpKeeps ==
    ASSUME NEW v, NEW l \in Loc, ENDOFF \in Base, NEW held, NEW shown, Good(ENDOFF, v, held, shown),
           held[l] # 0
    PROVE  Good(ENDOFF, unsetbp(v, l), [held EXCEPT ![l] = @ - 1], shown \ {l})
  <1> DEFINE held2 == [held EXCEPT ![l] = @ - 1]
             i == CHOOSE i \in Entries(v, l) : TRUE
             w == iwrite(v, l, v.save[i].save)
  <1>1. /\ v = [mem |-> v.mem, word |-> v.word, save |-> v.save]
        /\ held \in [Loc -> Nat] /\ v.mem = CodeWith(shown) /\ CacheHolds(ENDOFF, v.word, v.mem)
        /\ SavedFor(v.save, held) /\ \A k \in shown : k \in Loc /\ held[k] # 0
    BY DEF Good
  <1>2. held2 \in [Loc -> Nat] /\ \A k \in shown \ {l} : k \in Loc /\ held2[k] # 0
    BY <1>1
  <1>3. Entries(v, l) # {}
    BY <1>1 DEF SavedFor, Entries
  <1>4. i \in 1..Len(v.save) /\ v.save[i].location = l
    BY <1>3 DEF Entries
  <1>5. unsetbp(v, l) = IF v.save[i].refcount = 1 THEN [w EXCEPT !.save = RemoveAt(v.save, i)]
                        ELSE [w EXCEPT !.save[i].refcount = @ - 1]
    BY DEF unsetbp
  <1> HIDE DEF i
  <1>6. v.save[i] \in Saved
    BY <1>1, <1>4 DEF SavedFor
  <1>7. v.save[i].save = "op"
    BY <1>6 DEF Saved
  <1>8. v.save[i].refcount = held[l]
    BY <1>1, <1>4 DEF SavedFor
  <1>9. DOMAIN v.mem = Loc /\ v.mem = [h \in Loc |-> v.mem[h]]
    BY <1>1, CodeChanges
  <1>10. /\ w = [mem |-> [v.mem EXCEPT ![l] = "op"], word |-> w.word, save |-> v.save]
         /\ CacheHolds(ENDOFF, w.word, [v.mem EXCEPT ![l] = "op"])
    BY <1>1, <1>7, <1>9, IwriteKeeps
  <1>11. [v.mem EXCEPT ![l] = "op"] = CodeWith(shown \ {l})
    BY <1>1, CodeChanges
  <1> HIDE DEF w
  <1>12. CASE held[l] = 1
    <2>1. SavedFor(RemoveAt(v.save, i), [held EXCEPT ![v.save[i].location] = 0])
      BY <1>1, <1>4, SavedGone
    <2>2. [held EXCEPT ![v.save[i].location] = 0] = held2
      BY <1>4, <1>12
    <2>3. unsetbp(v, l) = [w EXCEPT !.save = RemoveAt(v.save, i)]
      BY <1>5, <1>8, <1>12
    <2>4. unsetbp(v, l) = [mem |-> CodeWith(shown \ {l}), word |-> w.word, save |-> RemoveAt(v.save, i)]
      BY <1>10, <1>11, <2>3
    <2> HIDE DEF held2
    <2> QED
      BY <1>2, <1>10, <1>11, <2>1, <2>2, <2>4 DEF Good, held2
  <1>13. CASE held[l] # 1
    <2> DEFINE n == held[l] - 1
    <2>1. n \in Nat \ {0}
      BY <1>1, <1>13
    <2>2. unsetbp(v, l) = [w EXCEPT !.save[i].refcount = @ - 1]
      BY <1>5, <1>8, <1>13
    <2>3. unsetbp(v, l) = [w EXCEPT !.save = [v.save EXCEPT ![i].refcount = n]]
      BY <1>8, <1>10, <2>2
    <2>4. [held EXCEPT ![v.save[i].location] = n] = held2
      BY <1>4
    <2> HIDE DEF n
    <2>5. SavedFor([v.save EXCEPT ![i].refcount = n], [held EXCEPT ![v.save[i].location] = n])
      BY <1>1, <1>4, <2>1, SavedCounts
    <2>6. unsetbp(v, l) = [mem |-> CodeWith(shown \ {l}), word |-> w.word, save |-> [v.save EXCEPT ![i].refcount = n]]
      BY <1>10, <1>11, <2>3
    <2> HIDE DEF held2
    <2> QED
      BY <1>2, <1>10, <1>11, <2>4, <2>5, <2>6 DEF Good, held2
  <1> QED
    BY <1>12, <1>13

\* Counting the events at a place.
LEMMA CountType ==
    ASSUME NEW b \in Seq(Event), NEW evs, evs \subseteq 1..Len(b)
    PROVE  /\ CountIn(b, evs) \in [Loc -> Nat]
           /\ \A l \in Loc : CountIn(b, evs)[l] # 0 <=> l \in AddrIn(b, evs)
           /\ AddrIn(b, evs) \subseteq Loc
  <1>1. ASSUME NEW l \in Loc
        PROVE  /\ Cardinality({ i \in evs : b[i].addr = l }) \in Nat
               /\ Cardinality({ i \in evs : b[i].addr = l }) # 0 <=> l \in AddrIn(b, evs)
    <2> DEFINE S == { i \in evs : b[i].addr = l }
    <2>1. IsFiniteSet(1..Len(b)) /\ S \subseteq 1..Len(b)
      <3>1. Len(b) \in Int /\ 1 \in Int
        OBVIOUS
      <3> QED
        BY <3>1, FS_Interval
    <2>2. IsFiniteSet(S)
      BY <2>1, FS_Subset
    <2>3. Cardinality(S) \in Nat /\ (Cardinality(S) = 0 <=> S = {})
      BY <2>2, FS_CardinalityType, FS_EmptySet
    <2>4. S # {} <=> l \in AddrIn(b, evs)
      BY DEF AddrIn
    <2> QED
      BY <2>3, <2>4
  <1>2. AddrIn(b, evs) \subseteq Loc
    <2>1. ASSUME NEW i \in evs
          PROVE  b[i].addr \in Loc
      <3>1. b[i] \in Event
        OBVIOUS
      <3> QED
        BY <3>1 DEF Event
    <2> QED
      BY <2>1 DEF AddrIn
  <1> QED
    BY <1>1, <1>2 DEF CountIn

\* One event more is counted at its place.
LEMMA CountMore ==
    ASSUME NEW b \in Seq(Event), NEW evs, evs \subseteq 1..Len(b), NEW j \in 1..Len(b), j \notin evs
    PROVE  /\ CountIn(b, evs \cup {j}) = [CountIn(b, evs) EXCEPT ![b[j].addr] = @ + 1]
           /\ AddrIn(b, evs \cup {j}) = AddrIn(b, evs) \cup {b[j].addr}
           /\ b[j].addr \in Loc
  <1>1. b[j].addr \in Loc
    <2>1. b[j] \in Event
      OBVIOUS
    <2> QED
      BY <2>1 DEF Event
  <1>2. ASSUME NEW l \in Loc
        PROVE  CountIn(b, evs \cup {j})[l] = [CountIn(b, evs) EXCEPT ![b[j].addr] = @ + 1][l]
    <2> DEFINE S == { i \in evs : b[i].addr = l }
               T == { i \in evs \cup {j} : b[i].addr = l }
    <2>1. IsFiniteSet(1..Len(b)) /\ S \subseteq 1..Len(b)
      <3>1. Len(b) \in Int /\ 1 \in Int
        OBVIOUS
      <3> QED
        BY <3>1, FS_Interval
    <2>2. IsFiniteSet(S)
      BY <2>1, FS_Subset
    <2>3. /\ CountIn(b, evs \cup {j})[l] = Cardinality(T)
          /\ CountIn(b, evs)[l] = Cardinality(S)
          /\ DOMAIN CountIn(b, evs) = Loc
      BY DEF CountIn
    <2>4. CASE b[j].addr = l
      <3>1. T = S \cup {j} /\ j \notin S
        BY <2>4
      <3>2. Cardinality(T) = Cardinality(S) + 1
        BY <2>2, <3>1, FS_AddElement
      <3> HIDE DEF S, T
      <3> QED
        BY <1>1, <2>3, <2>4, <3>2
    <2>5. CASE b[j].addr # l
      <3>1. T = S
        BY <2>5
      <3> HIDE DEF S, T
      <3> QED
        BY <1>1, <2>3, <2>5, <3>1
    <2> QED
      BY <2>4, <2>5
  <1>3. DOMAIN CountIn(b, evs \cup {j}) = Loc /\ DOMAIN CountIn(b, evs) = Loc
    BY DEF CountIn
  <1>4. CountIn(b, evs \cup {j}) = [CountIn(b, evs) EXCEPT ![b[j].addr] = @ + 1]
    <2>1. CountIn(b, evs \cup {j}) = [l \in Loc |-> CountIn(b, evs \cup {j})[l]]
      BY DEF CountIn
    <2> QED
      BY <1>2, <1>3, <2>1
  <1> QED
    BY <1>1, <1>4 DEF AddrIn

\* What one more adds, one less takes away.
LEMMA OneLess ==
    ASSUME NEW few \in [Loc -> Nat], NEW l \in Loc, NEW many, many = [few EXCEPT ![l] = @ + 1]
    PROVE  many[l] # 0 /\ [many EXCEPT ![l] = @ - 1] = few
  <1>1. many[l] = few[l] + 1 /\ few[l] \in Nat
    OBVIOUS
  <1>2. \A k \in Loc : [many EXCEPT ![l] = @ - 1][k] = few[k]
    <2>1. ASSUME NEW k \in Loc
          PROVE  [many EXCEPT ![l] = @ - 1][k] = few[k]
      <3>1. CASE k = l
        BY <1>1, <3>1
      <3>2. CASE k # l
        BY <3>2
      <3> QED
        BY <3>1, <3>2
    <2> QED
      BY <2>1
  <1>3. [many EXCEPT ![l] = @ - 1] = [k \in Loc |-> [many EXCEPT ![l] = @ - 1][k]]
    OBVIOUS
  <1>4. few = [k \in Loc |-> few[k]]
    OBVIOUS
  <1> QED
    BY <1>1, <1>2, <1>3, <1>4

\* Where no event is counted, none is.
LEMMA CountNone ==
    ASSUME NEW b
    PROVE  CountIn(b, {}) = Zero /\ AddrIn(b, {}) = {}
  <1>1. \A l \in Loc : { i \in {} : b[i].addr = l } = {}
    OBVIOUS
  <1>2. Cardinality({}) = 0
    BY FS_EmptySet
  <1> QED
    BY <1>1, <1>2 DEF CountIn, AddrIn, Zero

\* A view in which nothing is set.
LEMMA GoodZero ==
    ASSUME NEW e, NEW v
    PROVE  Good(e, v, Zero, {}) <=>
             /\ v = [mem |-> v.mem, word |-> v.word, save |-> v.save]
             /\ v.mem = Fresh /\ CacheHolds(e, v.word, Fresh) /\ v.save = <<>>
  <1>1. CodeWith({}) = Fresh
    BY DEF CodeWith, Fresh
  <1>2. ASSUME SavedFor(v.save, Zero)
        PROVE  v.save = <<>>
    <2>1. v.save \in Seq(Saved) /\ \A i \in 1..Len(v.save) : v.save[i].refcount = 0 /\ v.save[i].refcount # 0
      <3>1. v.save \in Seq(Saved) /\ \A i \in 1..Len(v.save) : v.save[i].refcount = Zero[v.save[i].location] /\ v.save[i].refcount # 0
        BY <1>2 DEF SavedFor
      <3>2. ASSUME NEW i \in 1..Len(v.save)
            PROVE  Zero[v.save[i].location] = 0
        <4>1. v.save[i] \in Saved
          BY <3>1
        <4> QED
          BY <4>1 DEF Saved, Zero
      <3> QED
        BY <3>1, <3>2
    <2>2. Len(v.save) = 0
      BY <2>1
    <2> QED
      BY <2>1, <2>2
  <1>3. SavedFor(<<>>, Zero)
    BY DEF SavedFor, Zero
  <1>4. Zero \in [Loc -> Nat]
    BY DEF Zero
  <1> QED
    BY <1>1, <1>2, <1>3, <1>4 DEF Good

\* In fresh code a cache is right wherever the program is.
LEMMA FreshAnywhere ==
    ASSUME NEW e, NEW f, NEW cache, CacheHolds(e, cache, Fresh)
    PROVE  CacheHolds(f, cache, Fresh)
  <1>1. \A b \in Base, w \in Words : Filled(e, b, w, Fresh) = Filled(f, b, w, Fresh)
    BY DEF Filled, Fresh, Half
  <1> QED
    <2>1. ASSUME NEW x \in Lines
          PROVE  LineHolds(f, x, cache[x], Fresh)
      <3>1. LineHolds(e, x, cache[x], Fresh)
        BY DEF CacheHolds
      <3> QED
        BY <1>1, <3>1 DEF LineHolds
    <2> QED
      BY <2>1 DEF CacheHolds

\* What pdx does while there are breakpoints in the code.
Busy == {"set", "running", "unset", "stepping"}
SameCode == UNCHANGED <<mem, word, savelist, ENDOFF>>

\* Nothing is written to clean code.
LEMMA StaysQuiet ==
    ASSUME Clean, SameCode, Live' => Live, dbg.at \notin Busy, dbg'.at \notin Busy
    PROVE  Clean'
  <1>1. SUFFICES ASSUME Live' PROVE Clean'
    BY DEF Clean
  <1>2. Good(ENDOFF, View, Zero, {})
    BY <1>1 DEF Clean, Busy
  <1>3. View' = View /\ ENDOFF' = ENDOFF
    BY DEF View, SameCode
  <1>4. Good(ENDOFF', View', Zero, {})
    BY <1>2, <1>3
  <1> QED
    BY <1>4 DEF Clean, Busy

\* Nothing is written, and pdx stays where it is.
LEMMA StaysBusy ==
    ASSUME Clean, SameCode, Live' => Live, UNCHANGED <<dbg, bphead>>
    PROVE  Clean'
  <1>1. View' = View
    BY DEF View, SameCode
  <1> QED
    BY <1>1 DEF Clean, SameCode

\* A step of the interpreter but the last leaves a program alive.
LEMMA InterpreterClean ==
    ASSUME Typing, Handshake, Loading, Clean, Interpreter
    PROVE  Clean'
  <1>1. CASE Released
    BY <1>1, StaysBusy DEF Released, SameCode, code, access, control, Live
  <1>2. CASE Entry
    BY <1>2, StaysBusy DEF Entry, pxhalt, SameCode, code, access, control, Live, Handshake, Exchange, Waiting
  <1>3. CASE Load
    <2>1. dbg.at = "loading" /\ status = "RUNNING"
      BY <1>3 DEF Load, Handshake, Exchange, Waiting, AtPause
    <2>2. Good(ENDOFF, View, Zero, {})
      BY <2>1 DEF Clean, Live
    <2>3. mem' = mem
      BY <1>3, <2>2, GoodZero DEF Load, View
    <2> QED
      BY <1>3, <2>1, <2>3, StaysBusy DEF Load, SameCode, access, control, Live
  <1>4. CASE Trap
    BY <1>4, StaysBusy DEF Trap, AtCode, pxhalt, SameCode, code, access, control, Live, Handshake, Exchange, Waiting
  <1>5. CASE Exec
    BY <1>5, StaysBusy DEF Exec, SameCode, code, shared, access, control, Live
  <1>6. CASE Fail
    BY <1>6, StaysBusy DEF Fail, AtCode, pxhalt, SameCode, code, access, control, Live, Handshake, Exchange, Waiting
  <1>7. CASE End
    <2>1. status = "RUNNING"
      BY <1>7 DEF End, AtCode, Handshake, Exchange, Waiting
    <2> QED
      BY <1>7, <2>1, StaysBusy DEF End, SameCode, code, access, control, Live
  <1> QED
    BY <1>1, <1>2, <1>3, <1>4, <1>5, <1>6, <1>7 DEF Interpreter

\* Starting a program leaves its code as it was made.
LEMMA StartClean ==
    ASSUME Typing, Handshake, Loading, Counted, Clean, Kill \/ Killed \/ Create \/ Started \/ Loaded
    PROVE  Clean'
  <1>1. CASE Kill
    <2>1. dbg.at = "start" /\ dbg'.at \notin Busy
      BY <1>1 DEF Kill, Do, Typing, Dbg, Busy
    <2> QED
      BY <1>1, <2>1, StaysQuiet DEF Kill, SameCode, code, access, Live, Busy
  <1>2. CASE Killed
    <2>1. dbg.at = "killing" /\ dbg'.at \notin Busy
      BY <1>2 DEF Killed, Answered, Do, Typing, Dbg, Busy
    <2> QED
      BY <1>2, <2>1, StaysQuiet DEF Killed, SameCode, code, access, Live, Busy
  <1>3. CASE Create
    <2>1. dbg.at = "start" /\ dbg'.at \notin Busy
      BY <1>3 DEF Create, Do, Typing, Dbg, Busy
    <2> QED
      BY <1>3, <2>1, StaysQuiet DEF Create, SameCode, code, access, Live, Busy
  <1>4. CASE Started
    <2>1. dbg.at = "starting" /\ status # "FINISHED" /\ dbg'.at \notin Busy
      BY <1>4 DEF Started, Answered, Do, Typing, Dbg, Busy, Handshake
    <2> QED
      BY <1>4, <2>1, StaysQuiet DEF Started, SameCode, code, access, Live, Busy
  <1>5. CASE Loaded
    <2>1. dbg.at = "loading" /\ status = "STOPPED" /\ status' = status
      BY <1>5 DEF Loaded, Answered, Handshake, Exchange
    <2>2. Good(ENDOFF, View, Zero, {})
      BY <2>1 DEF Clean, Live
    <2>3. View' = View
      BY <1>5 DEF Loaded, View, code, access
    <2>4. Good(ENDOFF', View', Zero, {})
      BY <2>2, <2>3, GoodZero, FreshAnywhere
    <2>5. dbg'.at \notin Busy
      <3>1. dbg' = IF dbg.for = "run" THEN Do("loop") ELSE Prompt
        BY <1>5, <2>1 DEF Loaded
      <3> QED
        BY <3>1 DEF Do, Prompt, Typing, Dbg, Busy
    <2> QED
      BY <2>4, <2>5 DEF Clean, Busy
  <1> QED
    BY <1>1, <1>2, <1>3, <1>4, <1>5

\* The events in front of place i, and those from there on.
LEMMA Ranges ==
    ASSUME NEW b \in Seq(Event), NEW i \in 1..Len(b)
    PROVE  /\ 1..i = (1..i - 1) \cup {i} /\ i \notin 1..i - 1 /\ 1..i - 1 \subseteq 1..Len(b)
           /\ i..Len(b) = (i + 1..Len(b)) \cup {i} /\ i \notin i + 1..Len(b)
           /\ i + 1..Len(b) \subseteq 1..Len(b)
           /\ (i + 1) - 1 = i
  OBVIOUS

\* pdx sets a breakpoint for one event more.
LEMMA SetClean ==
    ASSUME Typing, Events, Loading, Counted, Clean, Set
    PROVE  Clean'
  <1>1. CASE status = "FINISHED"
    <2>1. status' = status
      BY SetEffect DEF shared
    <2>2. dbg.at = "set"
      BY SetEffect
    <2>3. dbg'.at \notin {"start", "killing"}
      <3>1. CASE NextEvent
        BY <2>2, <3>1 DEF NextEvent, Typing, Dbg
      <3>2. CASE error
        BY <3>2 DEF error, Prompt
      <3> QED
        BY <3>1, <3>2, SetEffect
    <2> QED
      BY <1>1, <2>1, <2>3 DEF Clean, Live
  <1>2. CASE status # "FINISHED"
    <2> DEFINE i == dbg.i
               l == bphead[i].addr
               held == CountIn(bphead, 1..i - 1)
               shown == AddrIn(bphead, 1..i - 1)
    <2>1. /\ dbg.at = "set" /\ i \in 1..Len(bphead) /\ bphead \in Seq(Event)
          /\ bphead' = bphead /\ ENDOFF' = ENDOFF /\ ENDOFF \in Base
      BY SetEffect DEF control, Events, Loading, Starting
    <2>2. Good(ENDOFF, View, held, shown)
      BY <1>2, <2>1 DEF Clean, Live
    <2>3. /\ 1..i = (1..i - 1) \cup {i} /\ i \notin 1..i - 1 /\ 1..i - 1 \subseteq 1..Len(bphead)
          /\ (i + 1) - 1 = i
      BY <2>1, Ranges
    <2>4. /\ CountIn(bphead, 1..i) = [held EXCEPT ![l] = @ + 1]
          /\ AddrIn(bphead, 1..i) = shown \cup {l}
          /\ l \in Loc
      <3>1. /\ CountIn(bphead, (1..i - 1) \cup {i}) = [held EXCEPT ![l] = @ + 1]
            /\ AddrIn(bphead, (1..i - 1) \cup {i}) = shown \cup {l}
            /\ l \in Loc
        BY <2>1, <2>3, CountMore
      <3> QED
        BY <2>3, <3>1
    <2>5. held[l] # 0 => l \in shown
      BY <2>1, <2>3, <2>4, CountType
    <2>6. Becomes(setbp(View, l)) /\ dbg' = [dbg EXCEPT !.i = @ + 1]
      BY <1>2, Zenon DEF Set
    <2> HIDE DEF l, held, shown
    <2>7. Good(ENDOFF, setbp(View, l), [held EXCEPT ![l] = @ + 1], shown \cup {l})
      BY <2>1, <2>2, <2>4, <2>5, SetbpKeeps
    <2>8. View' = setbp(View, l)
      BY <2>6, <2>7 DEF Becomes, View, Good
    <2>9. Good(ENDOFF', View', CountIn(bphead', 1..dbg'.i - 1), AddrIn(bphead', 1..dbg'.i - 1))
      <3>1. dbg'.i - 1 = i
        BY <2>3, <2>6 DEF Typing, Dbg
      <3> HIDE DEF i
      <3> QED
        BY <2>1, <2>4, <2>7, <2>8, <3>1
    <2>10. dbg'.at = "set"
      BY <2>1, <2>6 DEF Typing, Dbg
    <2> QED
      BY <2>9, <2>10 DEF Clean
  <1> QED
    BY <1>1, <1>2

\* pdx takes off a breakpoint for one event.
LEMMA UnsetClean ==
    ASSUME Typing, Events, Loading, Counted, Clean, Unset
    PROVE  Clean'
  <1>1. CASE status = "FINISHED"
    <2>1. status' = status
      BY UnsetEffect DEF shared
    <2>2. dbg.at = "unset"
      BY UnsetEffect
    <2>3. dbg'.at \notin {"start", "killing"}
      <3>1. CASE NextEvent
        BY <2>2, <3>1 DEF NextEvent, Typing, Dbg
      <3>2. CASE error
        BY <3>2 DEF error, Prompt
      <3> QED
        BY <3>1, <3>2, UnsetEffect
    <2> QED
      BY <1>1, <2>1, <2>3 DEF Clean, Live
  <1>2. CASE status # "FINISHED"
    <2> DEFINE i == dbg.i
               n == Len(bphead)
               l == bphead[i].addr
               held == CountIn(bphead, i..n)
               held2 == CountIn(bphead, i + 1..n)
               shown == AddrIn(bphead, i..n) \ AddrIn(bphead, 1..i - 1)
    <2>1. /\ dbg.at = "unset" /\ i \in 1..n /\ bphead \in Seq(Event)
          /\ bphead' = bphead /\ ENDOFF' = ENDOFF /\ ENDOFF \in Base
      BY UnsetEffect DEF control, Events, Loading, Starting
    <2>2. Good(ENDOFF, View, held, shown)
      BY <1>2, <2>1 DEF Clean, Live
    <2>3. /\ i..n = (i + 1..n) \cup {i} /\ i \notin i + 1..n /\ i + 1..n \subseteq 1..n
          /\ 1..i = (1..i - 1) \cup {i} /\ i \notin 1..i - 1 /\ 1..i - 1 \subseteq 1..n
          /\ (i + 1) - 1 = i
      BY <2>1, Ranges
    <2>4. /\ held = [held2 EXCEPT ![l] = @ + 1]
          /\ AddrIn(bphead, i..n) = AddrIn(bphead, i + 1..n) \cup {l}
          /\ l \in Loc
      <3>1. /\ CountIn(bphead, (i + 1..n) \cup {i}) = [held2 EXCEPT ![l] = @ + 1]
            /\ AddrIn(bphead, (i + 1..n) \cup {i}) = AddrIn(bphead, i + 1..n) \cup {l}
            /\ l \in Loc
        BY <2>1, <2>3, CountMore
      <3> QED
        BY <2>3, <3>1
    <2>5. AddrIn(bphead, 1..i) = AddrIn(bphead, 1..i - 1) \cup {l}
      <3>1. AddrIn(bphead, (1..i - 1) \cup {i}) = AddrIn(bphead, 1..i - 1) \cup {l}
        BY DEF AddrIn
      <3> QED
        BY <2>3, <3>1
    <2>6. held2 \in [Loc -> Nat]
      BY <2>1, <2>3, CountType
    <2>7. shown \ {l} = AddrIn(bphead, i + 1..n) \ AddrIn(bphead, 1..i)
      BY <2>4, <2>5
    <2>8. Becomes(unsetbp(View, l)) /\ dbg' = [dbg EXCEPT !.i = @ + 1]
      BY <1>2, Zenon DEF Unset
    <2> HIDE DEF l, held, held2, shown, n
    <2>9. held[l] # 0 /\ [held EXCEPT ![l] = @ - 1] = held2
      BY <2>4, <2>6, OneLess
    <2>10. Good(ENDOFF, unsetbp(View, l), held2, shown \ {l})
      <3>1. Good(ENDOFF, unsetbp(View, l), [held EXCEPT ![l] = @ - 1], shown \ {l})
        BY <2>1, <2>2, <2>4, <2>9, UnsetbpKeeps
      <3> QED
        BY <2>9, <3>1
    <2>11. View' = unsetbp(View, l)
      BY <2>8, <2>10 DEF Becomes, View, Good
    <2>12. dbg'.i = i + 1 /\ dbg'.at = "unset" /\ Len(bphead') = n
      BY <2>1, <2>8 DEF Typing, Dbg, n
    <2>13. Good(ENDOFF', View', CountIn(bphead', dbg'.i..Len(bphead')),
                AddrIn(bphead', dbg'.i..Len(bphead')) \ AddrIn(bphead', 1..dbg'.i - 1))
      <3> HIDE DEF i
      <3>1. dbg'.i - 1 = i
        BY <2>3, <2>12
      <3>2. Good(ENDOFF, View', CountIn(bphead, i + 1..n), AddrIn(bphead, i + 1..n) \ AddrIn(bphead, 1..i))
        BY <2>7, <2>10, <2>11 DEF held2
      <3> QED
        BY <2>1, <2>12, <3>1, <3>2
    <2> QED
      BY <2>12, <2>13 DEF Clean
  <1> QED
    BY <1>1, <1>2

\* The steps of cont that look at no code.
LEMMA ContClean ==
    ASSUME Typing, Events, Loading, Counted, Handshake, Clean,
           Loop \/ Resume \/ Came \/ Act \/ EndProgram \/ Report \/ GoOn
    PROVE  Clean'
  <1>1. CASE Loop
    <2>1. /\ dbg.at = "loop" /\ dbg.i = 1 /\ SameCode /\ UNCHANGED <<status, bphead>>
      BY <1>1 DEF Loop, SameCode, code, access, shared, control, Counted
    <2>2. dbg'.at \in {"bpact", "set"} /\ dbg'.i = 1
      BY <1>1, <2>1 DEF Loop, Do, Typing, Dbg
    <2>3. CASE dbg'.at = "bpact"
      BY <2>1, <2>3, StaysQuiet DEF Live, Busy
    <2>4. CASE dbg'.at = "set"
      <3>1. SUFFICES ASSUME Live' PROVE Clean'
        BY DEF Clean
      <3>2. Good(ENDOFF, View, Zero, {})
        BY <2>1, <2>4, <3>1 DEF Clean, Live
      <3>3. View' = View /\ ENDOFF' = ENDOFF
        BY <2>1 DEF View, SameCode
      <3>4. 1..dbg'.i - 1 = {}
        BY <2>2
      <3>5. CountIn(bphead', 1..dbg'.i - 1) = Zero /\ AddrIn(bphead', 1..dbg'.i - 1) = {}
        BY <3>4, CountNone
      <3> QED
        BY <2>4, <3>2, <3>3, <3>5 DEF Clean
    <2> QED
      BY <2>2, <2>3, <2>4
  <1>2. CASE Resume
    <2>1. /\ dbg.at = "set" /\ dbg.i > Len(bphead) /\ SameCode /\ UNCHANGED bphead
          /\ dbg'.at = "running" /\ (status' # "FINISHED" => status # "FINISHED")
      BY <1>2 DEF Resume, resume, SameCode, code, access, control, Typing, Dbg
    <2>2. SUFFICES ASSUME Live' PROVE Clean'
      BY DEF Clean
    <2>3. Good(ENDOFF, View, CountIn(bphead, 1..dbg.i - 1), AddrIn(bphead, 1..dbg.i - 1))
      BY <2>1, <2>2 DEF Clean, Live
    <2>4. dbg.i - 1 = Len(bphead)
      BY <2>1 DEF Counted, Events
    <2>5. View' = View /\ ENDOFF' = ENDOFF
      BY <2>1 DEF View, SameCode
    <2> QED
      BY <2>1, <2>3, <2>4, <2>5 DEF Clean
  <1>3. CASE Came
    <2>1. /\ dbg.at = "running" /\ dbg.i = 1 /\ SameCode /\ UNCHANGED <<bphead, status>>
          /\ dbg'.at = "unset" /\ dbg'.i = 1
      BY <1>3 DEF Came, Answered, Do, SameCode, code, access, control, Typing, Dbg, Counted
    <2>2. SUFFICES ASSUME Live' PROVE Clean'
      BY DEF Clean
    <2>3. Good(ENDOFF, View, CountIn(bphead, 1..Len(bphead)), AddrIn(bphead, 1..Len(bphead)))
      BY <2>1, <2>2 DEF Clean, Live
    <2>4. 1..dbg'.i - 1 = {}
      BY <2>1
    <2>5. AddrIn(bphead, 1..dbg'.i - 1) = {}
      BY <2>4, CountNone
    <2>6. View' = View /\ ENDOFF' = ENDOFF
      BY <2>1 DEF View, SameCode
    <2>7. Good(ENDOFF', View', CountIn(bphead', dbg'.i..Len(bphead')),
               AddrIn(bphead', dbg'.i..Len(bphead')) \ AddrIn(bphead', 1..dbg'.i - 1))
      BY <2>1, <2>3, <2>5, <2>6
    <2> QED
      BY <2>1, <2>7 DEF Clean
  <1>4. CASE Act
    <2>1. /\ dbg.at = "unset" /\ dbg.i > Len(bphead) /\ SameCode /\ UNCHANGED <<bphead, status>>
          /\ dbg'.at = "bpact"
      BY <1>4 DEF Act, SameCode, code, access, control, shared, Typing, Dbg
    <2>2. SUFFICES ASSUME Live' PROVE Clean'
      BY DEF Clean
    <2>3. Good(ENDOFF, View, CountIn(bphead, dbg.i..Len(bphead)),
               AddrIn(bphead, dbg.i..Len(bphead)) \ AddrIn(bphead, 1..dbg.i - 1))
      BY <2>1, <2>2 DEF Clean, Live
    <2>4. dbg.i..Len(bphead) = {}
      BY <2>1 DEF Counted, Events
    <2>5. CountIn(bphead, dbg.i..Len(bphead)) = Zero /\ AddrIn(bphead, dbg.i..Len(bphead)) = {}
      BY <2>4, CountNone
    <2>6. View' = View /\ ENDOFF' = ENDOFF
      BY <2>1 DEF View, SameCode
    <2>7. Good(ENDOFF', View', Zero, {})
      BY <2>3, <2>5, <2>6
    <2> QED
      BY <2>1, <2>7 DEF Clean
  <1>5. CASE EndProgram
    <2>1. dbg.at = "bpact" /\ dbg'.at = "prompt" /\ SameCode /\ UNCHANGED status
      BY <1>5 DEF EndProgram, Prompt, SameCode, code, access, shared
    <2> QED
      BY <2>1, StaysQuiet DEF Live, Busy
  <1>6. CASE Report
    <2>1. dbg.at = "bpact" /\ dbg'.at = "prompt" /\ SameCode /\ UNCHANGED status
      BY <1>6 DEF Report, printstatus, Prompt, SameCode, code, access, shared
    <2> QED
      BY <2>1, StaysQuiet DEF Live, Busy
  <1>7. CASE GoOn
    <2>1. dbg.at = "bpact" /\ dbg'.at = "step" /\ SameCode /\ UNCHANGED status
      BY <1>7 DEF GoOn, Do, SameCode, code, access, shared, Typing, Dbg
    <2> QED
      BY <2>1, StaysQuiet DEF Live, Busy
  <1> QED
    BY <1>1, <1>2, <1>3, <1>4, <1>5, <1>6, <1>7

\* dostep sets a breakpoint of its own.
LEMMA DoStepClean ==
    ASSUME Typing, Events, Handshake, Loading, Located, Clean, DoStep
    PROVE  Clean'
  <1>1. CASE status = "FINISHED"
    <2>1. status' = status /\ dbg' = Prompt
      BY <1>1, DoStepEffect DEF StepOver, error
    <2> QED
      BY <1>1, <2>1 DEF Clean, Live, Prompt
  <1>2. CASE status # "FINISHED"
    <2> DEFINE l == nextaddr(pc)
    <2>1. dbg.at = "step" /\ UNCHANGED ENDOFF /\ ENDOFF \in Base
      BY DoStepEffect DEF Loading, Starting
    <2>2. pc \in Loc /\ l \in Loc
      BY <1>2, <2>1, StepsFromLoc, NextaddrType
    <2>3. Good(ENDOFF, View, Zero, {})
      BY <1>2, <2>1 DEF Clean, Live
    <2>4. Becomes(setbp(fetch(View, pc), l)) /\ resume([dbg EXCEPT !.at = "stepping", !.to = l])
      BY <1>2, Zenon DEF DoStep
    <2>5. dbg'.at = "stepping" /\ dbg'.to = l
      BY <2>4 DEF resume, Typing, Dbg
    <2> HIDE DEF l
    <2>6. Good(ENDOFF, fetch(View, pc), Zero, {})
      BY <2>1, <2>2, <2>3, FetchKeeps
    <2>7. Zero[l] = 0
      BY <2>2 DEF Zero
    <2>8. Good(ENDOFF, setbp(fetch(View, pc), l), [Zero EXCEPT ![l] = @ + 1], {} \cup {l})
      BY <2>1, <2>2, <2>6, <2>7, SetbpKeeps
    <2>9. [Zero EXCEPT ![l] = @ + 1] = [Zero EXCEPT ![l] = 1] /\ {} \cup {l} = {l}
      BY <2>7
    <2>10. Good(ENDOFF, setbp(fetch(View, pc), l), [Zero EXCEPT ![l] = 1], {l})
      BY <2>8, <2>9
    <2>11. View' = setbp(fetch(View, pc), l)
      BY <2>4, <2>10 DEF Becomes, View, Good
    <2>12. Good(ENDOFF', View', [Zero EXCEPT ![dbg'.to] = 1], {dbg'.to})
      BY <2>1, <2>5, <2>10, <2>11
    <2> QED
      BY <2>5, <2>12 DEF Clean
  <1> QED
    BY <1>1, <1>2

\* stepto takes it off again.
LEMMA SteppedClean ==
    ASSUME Typing, Events, Handshake, Loading, Aimed, Clean, Stepped
    PROVE  Clean'
  <1>0. dbg.at = "stepping" /\ UNCHANGED <<status, ENDOFF>> /\ dbg'.at \in {"prompt", "bpact", "loop"}
    <2>1. CASE dbg' = Prompt
      BY <2>1, SteppedEffect DEF Prompt, Answered
    <2>2. CASE StepDone
      BY <2>2, SteppedEffect DEF StepDone, Typing, Dbg, Answered
    <2> QED
      BY <2>1, <2>2, SteppedEffect DEF printstatus, error
  <1>1. CASE status = "FINISHED"
    BY <1>0, <1>1 DEF Clean, Live
  <1>2. CASE status # "FINISHED"
    <2> DEFINE l == dbg.to
    <2>1. ENDOFF \in Base /\ l \in Loc
      BY <1>0 DEF Loading, Starting, Aimed
    <2>2. Good(ENDOFF, View, [Zero EXCEPT ![l] = 1], {l})
      BY <1>0, <1>2 DEF Clean, Live
    <2>3. Becomes(unsetbp(View, l))
      BY <1>2, Zenon DEF Stepped
    <2> HIDE DEF l
    <2>4. [Zero EXCEPT ![l] = 1][l] # 0 /\ [[Zero EXCEPT ![l] = 1] EXCEPT ![l] = @ - 1] = Zero
      <3>1. Zero[l] = 0 /\ Zero \in [Loc -> Nat]
        BY <2>1 DEF Zero
      <3>2. [Zero EXCEPT ![l] = 1] = [Zero EXCEPT ![l] = @ + 1]
        BY <3>1
      <3> QED
        BY <2>1, <3>1, <3>2, OneLess
    <2>5. Good(ENDOFF, unsetbp(View, l), [[Zero EXCEPT ![l] = 1] EXCEPT ![l] = @ - 1], {l} \ {l})
      BY <2>1, <2>2, <2>4, UnsetbpKeeps
    <2>6. Good(ENDOFF, unsetbp(View, l), Zero, {})
      <3>1. {l} \ {l} = {}
        OBVIOUS
      <3> QED
        BY <2>4, <2>5, <3>1
    <2>7. View' = unsetbp(View, l)
      BY <2>3, <2>6 DEF Becomes, View, Good
    <2>8. Good(ENDOFF', View', Zero, {})
      BY <1>0, <2>6, <2>7
    <2> QED
      BY <1>0, <2>8 DEF Clean
  <1> QED
    BY <1>1, <1>2

\* A command touches no code, and no program that has ended is run again.
LEMMA CommandClean ==
    ASSUME Typing, Clean, Command, ~RerunHalted
    PROVE  Clean'
  <1>1. /\ dbg.at = "prompt" /\ dbg'.at \notin Busy /\ SameCode /\ UNCHANGED status
        /\ dbg'.at \in {"start", "killing"} => status # "FINISHED"
    <2>1. CASE \E l \in Loc, kind \in {"stop", "trace"} : AddEvent(l, kind)
      BY <2>1 DEF AddEvent, SameCode, code, access, shared, Busy
    <2>2. CASE \E i \in DOMAIN bphead : Delete(i)
      BY <2>2 DEF Delete, SameCode, code, access, shared, Busy
    <2>3. CASE TraceAll
      BY <2>3 DEF TraceAll, SameCode, code, access, shared, Busy
    <2>4. CASE \E for \in {"run", "restart"} : Run(for)
      BY <2>4 DEF Run, SameCode, code, access, shared, Busy, Typing, Dbg
    <2>5. CASE Cont
      BY <2>5 DEF Cont, SameCode, code, access, shared, Busy, Typing, Dbg
    <2>6. CASE Step
      BY <2>6 DEF Step, SameCode, code, access, shared, Busy, Typing, Dbg
    <2> QED
      BY <2>1, <2>2, <2>3, <2>4, <2>5, <2>6 DEF Command
  <1>2. Live' => Live
    BY <1>1 DEF Live
  <1>3. dbg.at \notin Busy
    BY <1>1 DEF Busy
  <1> QED
    BY <1>1, <1>2, <1>3, StaysQuiet

\* A step that is no command keeps what was done to the code accounted for.
LEMMA OtherClean ==
    ASSUME IInv, Clean, [Next]_vars, ~Command
    PROVE  Clean'
  <1> USE DEF IInv
  <1>1. CASE Interpreter
    BY <1>1, InterpreterClean
  <1>2. CASE Kill \/ Killed \/ Create \/ Started \/ Loaded
    BY <1>2, StartClean
  <1>3. CASE Set
    BY <1>3, SetClean
  <1>4. CASE Unset
    BY <1>4, UnsetClean
  <1>5. CASE Loop \/ Resume \/ Came \/ Act \/ EndProgram \/ Report \/ GoOn
    BY <1>5, ContClean
  <1>6. CASE DoStep
    BY <1>6, DoStepClean
  <1>7. CASE Stepped
    BY <1>7, SteppedClean
  <1>8. CASE UNCHANGED vars
    BY <1>8, StaysBusy DEF SameCode, Live, vars, code, access, control, shared
  <1> QED
    BY <1>1, <1>2, <1>3, <1>4, <1>5, <1>6, <1>7, <1>8 DEF Next, Debugger

-----------------------------------------------------------------------------
(* What the steps keep, always.                                             *)

\* The first state satisfies the invariant of the control.
LEMMA InitIInv ==
    ASSUME Init
    PROVE  IInv
  <1>1. 1 \in Loc
    BY ProcessAssumption DEF Loc
  <1>2. Typing
    <2>1. prog \in Prog
      BY <1>1 DEF Init, Prog, Place
    <2>2. dbg \in Dbg
      BY DEF Init, Dbg, DbgPlace
    <2> QED
      BY <1>1, <2>1, <2>2 DEF Init, Typing, Signal
  <1>3. Events /\ Counted
    BY DEF Init, Events, NoEnd, Counted
  <1>4. Handshake
    BY DEF Init, Handshake, Waiting
  <1>5. Loading /\ Signalled /\ Located /\ Aimed
    BY DEF Init, Loading, Signalled, Located, Aimed, Starting, AtPause
  <1> QED
    BY <1>2, <1>3, <1>4, <1>5 DEF IInv

\* Every step keeps the invariant of the control.
LEMMA NextIInv ==
    ASSUME IInv, [Next]_vars
    PROVE  IInv'
  <1> USE DEF IInv
  <1>1. Typing' /\ Handshake' /\ Loading' /\ Signalled' /\ Located' /\ Aimed'
    BY TypingStep, HandshakeStep, LoadingStep, SignalledStep, LocatedStep, AimedStep
  <1>2. Events'
    BY EventsStep
  <1>3. Counted'
    BY <1>2, CountedStep
  <1> QED
    BY <1>1, <1>2, <1>3

\* The first state has no object code.
LEMMA InitClean ==
    ASSUME Init
    PROVE  Clean
  <1>1. View = [mem |-> Fresh, word |-> [x \in Lines |-> Empty], save |-> <<>>]
    BY DEF Init, View
  <1>2. CacheHolds(ENDOFF, [x \in Lines |-> Empty], Fresh)
    BY DEF CacheHolds, LineHolds
  <1>3. Good(ENDOFF, View, Zero, {})
    BY <1>1, <1>2, GoodZero
  <1> QED
    BY <1>3 DEF Init, Clean, Busy

\* Wherever the instructions go, whichever may fail and whichever events the user sets, the two
\* threads take turns and no signal of theirs is lost, and each finds the other as it expects:
\* pdx does not panic.
THEOREM TakesTurnsAlways == Spec => [](TakesTurns /\ dbg.at # "panic")
  <1>1. IInv => TakesTurns /\ dbg.at # "panic"
    BY DEF IInv, TakesTurns, Handshake, Exchange, Typing, Dbg, DbgPlace, Waiting
  <1> QED
    BY <1>1, InitIInv, NextIInv, PTL DEF Spec

\* At the prompt, pdx knows where a program that has not failed stands.
THEOREM PcAgreesAlways == Spec => []PcAgrees
  <1>1. IInv => PcAgrees
    BY DEF IInv, PcAgrees, Located, Waiting, Starting
  <1> QED
    BY <1>1, InitIInv, NextIInv, PTL DEF Spec

\* As long as no program that has halted is run again, what pdx has done to the object code is
\* counted in every state, whatever the events, the sizes and the hash function of the cache.
LEMMA CleanAlways ==
    ASSUME ~RerunHalted
    PROVE  Spec => [](IInv /\ Clean)
  <1>1. IInv /\ Clean /\ [Next]_vars => Clean'
    BY CommandClean, OtherClean DEF IInv
  <1> QED
    BY <1>1, InitIInv, InitClean, NextIInv, PTL DEF Spec

\* Then the code is as the compiler made it whenever pdx prompts for a program that can go on.
THEOREM CodeCleanAlways ==
    ASSUME ~RerunHalted
    PROVE  Spec => []CodeClean
  <1>1. ASSUME IInv, Clean, dbg.at = "prompt", status = "STOPPED"
        PROVE  mem = Fresh /\ savelist = <<>>
    <2>1. Good(ENDOFF, View, Zero, {})
      BY <1>1 DEF Clean, Live
    <2> QED
      BY <2>1, GoodZero DEF View
  <1>2. IInv /\ Clean => CodeClean
    BY <1>1 DEF CodeClean
  <1> QED
    BY <1>2, CleanAlways, PTL

\* Then unsetbp finds the saved half-word that it puts back, at every event and after every step:
\* it never panics.  (The model's unsetbp has no other case.)
UnsetbpFinds ==
    status # "FINISHED" =>
        /\ dbg.at = "unset" /\ dbg.i \in DOMAIN bphead => Entries(View, bphead[dbg.i].addr) # {}
        /\ dbg.at = "stepping" => Entries(View, dbg.to) # {}

\* Of every state, as above.
THEOREM UnsetbpFindsAlways ==
    ASSUME ~RerunHalted
    PROVE  Spec => []UnsetbpFinds
  <1>1. ASSUME NEW held, NEW shown, Good(ENDOFF, View, held, shown), NEW l \in Loc, held[l] # 0
        PROVE  Entries(View, l) # {}
    BY <1>1 DEF Good, SavedFor, Entries
  <1>2. ASSUME IInv, Clean, status # "FINISHED", dbg.at = "unset", dbg.i \in DOMAIN bphead
        PROVE  Entries(View, bphead[dbg.i].addr) # {}
    <2> DEFINE evs == dbg.i..Len(bphead)
               l == bphead[dbg.i].addr
    <2>1. bphead \in Seq(Event) /\ dbg.i \in 1..Len(bphead) /\ dbg.i \in evs /\ evs \subseteq 1..Len(bphead)
      BY <1>2 DEF IInv, Events
    <2>2. \E shown : Good(ENDOFF, View, CountIn(bphead, evs), shown)
      BY <1>2 DEF Clean, Live
    <2>3. l \in AddrIn(bphead, evs)
      BY <2>1 DEF AddrIn
    <2>4. l \in Loc /\ CountIn(bphead, evs)[l] # 0
      BY <2>1, <2>3, CountType
    <2> HIDE DEF evs, l
    <2>5. Entries(View, l) # {}
      BY <1>1, <2>2, <2>4
    <2> QED
      BY <2>5 DEF l
  <1>3. ASSUME IInv, Clean, status # "FINISHED", dbg.at = "stepping"
        PROVE  Entries(View, dbg.to) # {}
    <2>1. dbg.to \in Loc
      BY <1>3 DEF IInv, Aimed
    <2>2. Good(ENDOFF, View, [Zero EXCEPT ![dbg.to] = 1], {dbg.to})
      BY <1>3 DEF Clean, Live
    <2>3. [Zero EXCEPT ![dbg.to] = 1][dbg.to] # 0
      BY <2>1 DEF Zero
    <2> QED
      BY <1>1, <2>1, <2>2, <2>3
  <1>4. IInv /\ Clean => UnsetbpFinds
    BY <1>2, <1>3 DEF UnsetbpFinds
  <1> QED
    BY <1>4, CleanAlways, PTL

\* Then the cache agrees with the memory of a program that has stopped, at the prompt and at every
\* other place, though it keeps words of programs that were loaded before.
THEOREM CacheCoherentAlways ==
    ASSUME ~RerunHalted
    PROVE  Spec => []CacheCoherent
  <1>1. ASSUME IInv, Clean, status = "STOPPED"
        PROVE  CacheHolds(base, word, mem) /\ base \in Base \cup {None}
    <2>1. PICK held, shown : Good(ENDOFF, View, held, shown)
      <3>1. dbg.at \notin Busy \/ dbg.at \in {"set", "running", "unset", "stepping"}
        BY DEF Busy
      <3> QED
        BY <1>1, <3>1 DEF Clean, Live, Busy
    <2>2. CacheHolds(ENDOFF, word, mem) /\ base \in Base \cup {None}
      BY <1>1, <2>1 DEF Good, View, IInv, Typing
    <2>3. CASE dbg.at # "loading"
      BY <1>1, <2>2, <2>3 DEF IInv, Loading
    <2>4. CASE dbg.at = "loading"
      <3>1. Good(ENDOFF, View, Zero, {})
        BY <1>1, <2>4 DEF Clean, Live
      <3>2. mem = Fresh
        BY <3>1, GoodZero DEF View
      <3> QED
        BY <2>2, <3>2, FreshAnywhere
    <2> QED
      BY <2>2, <2>3, <2>4
  <1>2. ASSUME CacheHolds(base, word, mem), base \in Base \cup {None}, NEW x \in Lines, NEW l \in Loc,
               word[x].addr = <<base, WordOf(l)>>
        PROVE  word[x].val = [h \in Half(WordOf(l)) |-> mem[h]]
    <2>1. WordOf(l) \in Words
      BY DEF Words
    <2>2. word[x] # Empty
      BY <1>2, <2>1, EmptyIsNoKey
    <2>3. PICK b \in Base, w \in Words : word[x] = Filled(base, b, w, mem)
      BY <1>2, <2>2 DEF CacheHolds, LineHolds
    <2>4. b = base /\ w = WordOf(l)
      BY <1>2, <2>3 DEF Filled
    <2> QED
      BY <2>3, <2>4 DEF Filled
  <1>3. IInv /\ Clean => CacheCoherent
    BY <1>1, <1>2 DEF CacheCoherent
  <1> QED
    BY <1>3, CleanAlways, PTL

\* Then a program that runs after setallbps has a breakpoint at the place of every event and
\* nowhere else, counted once for every event there.
THEOREM BreakpointsInPlaceAlways ==
    ASSUME ~RerunHalted
    PROVE  Spec => []BreakpointsInPlace
  <1>1. ASSUME IInv, Clean, dbg.at = "running", status # "FINISHED"
        PROVE  /\ { l \in Loc : mem[l] = "bpt" } = { b.addr : b \in Range(bphead) }
               /\ \A s \in Range(savelist) :
                     s.refcount = Cardinality({ i \in DOMAIN bphead : bphead[i].addr = s.location })
    <2> DEFINE evs == 1..Len(bphead)
    <2>1. Good(ENDOFF, View, CountIn(bphead, evs), AddrIn(bphead, evs))
      BY <1>1 DEF Clean, Live
    <2>2. bphead \in Seq(Event) /\ DOMAIN bphead = evs /\ evs \subseteq 1..Len(bphead)
      BY <1>1 DEF IInv, Events
    <2>3. AddrIn(bphead, evs) \subseteq Loc
      BY <2>2, CountType
    <2>4. /\ mem = CodeWith(AddrIn(bphead, evs))
          /\ savelist \in Seq(Saved)
          /\ \A i \in 1..Len(savelist) : savelist[i].refcount = CountIn(bphead, evs)[savelist[i].location]
      BY <2>1 DEF Good, SavedFor, View
    <2>5. { l \in Loc : mem[l] = "bpt" } = AddrIn(bphead, evs)
      BY <2>3, <2>4 DEF CodeWith
    <2>6. AddrIn(bphead, evs) = { b.addr : b \in Range(bphead) }
      BY <2>2 DEF AddrIn, Range
    <2>7. ASSUME NEW s \in Range(savelist)
          PROVE  s.refcount = Cardinality({ i \in DOMAIN bphead : bphead[i].addr = s.location })
      <3>1. PICK i \in 1..Len(savelist) : s = savelist[i]
        BY <2>4 DEF Range
      <3>2. savelist[i] \in Saved
        BY <2>4
      <3>3. s.location \in Loc
        BY <3>1, <3>2 DEF Saved
      <3>4. CountIn(bphead, evs)[s.location] = Cardinality({ k \in evs : bphead[k].addr = s.location })
        BY <3>3 DEF CountIn
      <3> QED
        BY <2>2, <2>4, <3>1, <3>4
    <2> QED
      BY <2>5, <2>6, <2>7
  <1>2. IInv /\ Clean => BreakpointsInPlace
    BY <1>1 DEF BreakpointsInPlace
  <1> QED
    BY <1>2, CleanAlways, PTL
===============================================================================
