------------------------------ MODULE PdxProcess ------------------------------
(***************************************************************************)
(* pdx and the program that it debugs, in the port where the interpreter   *)
(* is a thread of pdx.  The two take turns: each signals an event and      *)
(* waits for the other's.  While the program runs, breakpoints are in its  *)
(* object code, which pdx reads and writes through a cache of words.       *)
(*                                                                         *)
(* An instruction is a half-word; a word holds two.  A half-word of the    *)
(* object code is what the compiler put there, "op", or a breakpoint.      *)
(* `goes' is where the program goes on, or that it fails: nextaddr finds   *)
(* out by decoding the instruction and looking at the stack.               *)
(***************************************************************************)
EXTENDS Integers, SequencesExt

CONSTANTS
    N,              \* the last instruction of the program (lastaddr)
    Succ,           \* where an instruction may go on
    Halts,          \* the calls of halt
    Errs,           \* the instructions that may fail
    Base,           \* where object code may be loaded (malloc)
    cachehash,      \* the line of a word, by base and number
    Lines,          \* the lines of the cache
    None, Failure,  \* no place, no word; a runtime error
    MaxEvents,      \* bound on the events that commands make
    MaxRuns,        \* bound on the times the program is started
    RerunHalted     \* FALSE: a program that has halted is not run again

Loc == 1..N
WordOf(l) == (l + 1) \div 2
Half(w) == { l \in Loc : WordOf(l) = w }

ASSUME ProcessAssumption ==
    /\ N \in Nat \ {0} /\ MaxEvents \in Nat /\ MaxRuns \in Nat
    /\ Succ \in [1..N - 1 -> SUBSET (1..N)] /\ Halts \subseteq 1..N - 1 /\ Errs \subseteq 1..N - 1
    /\ cachehash \in [Base \X { WordOf(l) : l \in 1..N } -> Lines]
    /\ None \notin Base \cup 1..N /\ Failure \notin {None} \cup 1..N
    /\ None \notin (Base \cup {None}) \X { WordOf(l) : l \in 1..N }

VARIABLES
    thr,            \* the interpreter: "none", "running", "parked" or "ended"
    prog,           \* where it is; in the code, its instruction and where that goes
    mem, base,      \* the object code, and where it is
    regs,           \* _pdxregs: the instruction of the last breakpoint
    pid, status, signo,
    sevent, tevent, \* the two events, reset when a waiting thread is released
    dbg,            \* what pdx does, for which command, the target of stepto, and the
                    \* event that setallbps or unsetallbps is at
    pc, ENDOFF,     \* as pdx knows them
    word,           \* the cache
    savelist,
    bphead,         \* the events
    isstopped, just_started, single_stepping,
    runs            \* counts the starts, for MaxRuns

thread == <<thr, prog, regs>>
code == <<mem, base>>
shared == <<pid, status, signo, sevent, tevent>>
access == <<word, savelist>>
control == <<bphead, isstopped, just_started, single_stepping, runs>>
vars == <<thread, code, shared, dbg, pc, ENDOFF, access, control>>

Signal == {"none", "IOT", "BPT", "ERR"}
Waiting == {"killing", "starting", "loading", "running", "stepping"}
CacheLine == [addr : (Base \X Nat) \cup {None}, val : UNION { [Half(WordOf(l)) -> {"op", "bpt"}] : l \in Loc }]
Empty == [addr |-> None, val |-> [l \in Half(1) |-> "op"]]
Fresh == [l \in Loc |-> "op"]

Do(at) == [dbg EXCEPT !.at = at]
Prompt == [at |-> "prompt", for |-> "cont", to |-> None, i |-> 1]

\* initstart has been called, and has cleared the cache.
Init == /\ thr = "none" /\ prog = [at |-> "entry", pc |-> 1, goes |-> None]
        /\ mem = Fresh /\ base = None
        /\ regs = <<None, 1>>
        /\ pid = 0 /\ status = "FINISHED" /\ signo = "none"
        /\ sevent = FALSE /\ tevent = FALSE
        /\ dbg = [at |-> "start", for |-> "init", to |-> None, i |-> 1]
        /\ pc = 1 /\ ENDOFF = None
        /\ word = [x \in Lines |-> Empty]
        /\ savelist = <<>> /\ bphead = <<>>
        /\ isstopped = FALSE /\ just_started = FALSE /\ single_stepping = FALSE
        /\ runs = 0
-----------------------------------------------------------------------------
(* The interpreter's thread.                                                *)

\* pxhalt: it waits in front of the place `at'.
pxhalt(at) == /\ status' = "STOPPED" /\ sevent' = TRUE
              /\ thr' = "parked"
              /\ prog' = [prog EXCEPT !.at = at]

\* It is released: a runtime error and a kill leave through px_exit.
\* The event is not reset (broken on purpose; used by no action).
ReleasedSet == /\ thr = "parked" /\ tevent
               /\ thr' = "running"
               /\ prog' = [prog EXCEPT !.at = IF pid = 0 \/ @ = "error" THEN "exit"
                                              ELSE IF @ = "entry" THEN "load" ELSE "code"]
               /\ UNCHANGED <<regs, code, shared, dbg, pc, ENDOFF, access, control>>
Released == /\ thr = "parked" /\ tevent
            /\ tevent' = FALSE
            /\ thr' = "running"
            /\ prog' = [prog EXCEPT !.at = IF pid = 0 \/ @ = "error" THEN "exit"
                                           ELSE IF @ = "entry" THEN "load" ELSE "code"]
            /\ UNCHANGED <<regs, code, pid, status, signo, sevent, dbg, pc, ENDOFF, access, control>>

Entry == /\ thr = "running" /\ prog.at = "entry"
         /\ pxhalt("entry")
         /\ UNCHANGED <<regs, code, pid, signo, tevent, dbg, pc, ENDOFF, access, control>>

Outcomes(l) == IF l = N \/ l \in Halts THEN {None}
               ELSE Succ[l] \cup IF l \in Errs THEN {Failure} ELSE {}

\* px_main loads the program; the interpreter traps before it begins.
Load == /\ thr = "running" /\ prog.at = "load"
        /\ base' \in Base /\ mem' = Fresh
        /\ signo' = "IOT"
        /\ status' = "STOPPED" /\ sevent' = TRUE /\ thr' = "parked"
        /\ \E g \in Outcomes(1) : prog' = [at |-> "begin", pc |-> 1, goes |-> g]
        /\ UNCHANGED <<regs, pid, tevent, dbg, pc, ENDOFF, access, control>>

AtCode(op) == thr = "running" /\ prog.at = "code" /\ mem[prog.pc] = op

\* O_BPT; afterwards the same instruction is tried again.
Trap == /\ AtCode("bpt")
        /\ regs' = <<base, prog.pc>> /\ signo' = "BPT"
        /\ pxhalt("code")
        /\ UNCHANGED <<code, pid, tevent, dbg, pc, ENDOFF, access, control>>

Exec == /\ AtCode("op") /\ prog.goes \in Loc
        /\ \E g \in Outcomes(prog.goes) : prog' = [prog EXCEPT !.pc = prog.goes, !.goes = g]
        /\ UNCHANGED <<thr, regs, code, shared, dbg, pc, ENDOFF, access, control>>

\* ERROR raises a trap of its own.
Fail == /\ AtCode("op") /\ prog.goes = Failure
        /\ signo' = "ERR"
        /\ pxhalt("error")
        /\ UNCHANGED <<regs, code, pid, tevent, dbg, pc, ENDOFF, access, control>>

\* pxthread comes to its end: after px_exit, O_HALT or the last instruction.
End == /\ \/ thr = "running" /\ prog.at = "exit" /\ regs' = regs
          \/ AtCode("op") /\ prog.goes = None
             /\ regs' = IF prog.pc = N THEN regs ELSE <<base, prog.pc>>
       /\ status' = "FINISHED" /\ pid' = 0 /\ sevent' = TRUE
       /\ thr' = "ended" /\ prog' = [prog EXCEPT !.at = "exit", !.goes = None]
       /\ UNCHANGED <<code, signo, tevent, dbg, pc, ENDOFF, access, control>>

Interpreter == Released \/ Entry \/ Load \/ Trap \/ Exec \/ Fail \/ End
-----------------------------------------------------------------------------
(* Object code, as pdx sees it.                                             *)

View == [mem |-> mem, word |-> word, save |-> savelist]
Becomes(view) == \E v \in {view} : mem' = v.mem /\ word' = v.word /\ savelist' = v.save

Key(l) == <<ENDOFF, WordOf(l)>>
At(l) == cachehash[Key(l)]

\* The line as it is after fetch: filled, unless it holds the word.
Fetched(v, l) == IF v.word[At(l)].addr = Key(l) THEN v.word[At(l)]
                 ELSE [addr |-> Key(l), val |-> [h \in Half(WordOf(l)) |-> v.mem[h]]]
fetch(v, l) == [v EXCEPT !.word[At(l)] = Fetched(v, l)]

\* pio writes a half-word: the word is fetched, changed and stored through.
\* The cache keeps what it has (broken on purpose; used by no action).
iwritePast(v, l, x) == [v EXCEPT !.mem[l] = x]
iwrite(v, l, x) ==
    LET line == [Fetched(v, l) EXCEPT !.val[l] = x]
    IN [v EXCEPT !.word[At(l)] = line,
                 !.mem = [h \in Loc |-> IF h \in Half(WordOf(l)) THEN line.val[h] ELSE @[h]]]

Entries(v, l) == { i \in 1..Len(v.save) : v.save[i].location = l }

\* One more reference does not count (broken on purpose; used by no action).
setbpUncounted(v, l) ==
    IF Entries(v, l) # {} THEN v
    ELSE iwrite([v EXCEPT !.save = <<[location |-> l, save |-> Fetched(v, l).val[l],
                                      refcount |-> 1]>> \o @], l, "bpt")
setbp(v, l) ==
    IF Entries(v, l) # {}
    THEN [v EXCEPT !.save[CHOOSE i \in Entries(v, l) : TRUE].refcount = @ + 1]
    ELSE iwrite([v EXCEPT !.save = <<[location |-> l, save |-> Fetched(v, l).val[l],
                                      refcount |-> 1]>> \o @], l, "bpt")

\* The half-word is not put back (broken on purpose; used by no action).
unsetbpKeeps(v, l) ==
    LET i == CHOOSE i \in Entries(v, l) : TRUE
    IN IF v.save[i].refcount = 1 THEN [v EXCEPT !.save = RemoveAt(v.save, i)]
       ELSE [v EXCEPT !.save[i].refcount = @ - 1]
unsetbp(v, l) ==
    LET i == CHOOSE i \in Entries(v, l) : TRUE
        w == iwrite(v, l, v.save[i].save)
    IN IF v.save[i].refcount = 1 THEN [w EXCEPT !.save = RemoveAt(v.save, i)]
       ELSE [w EXCEPT !.save[i].refcount = @ - 1]

-----------------------------------------------------------------------------
(* The debugger's thread: starting a program.                               *)

\* The program has answered.
Answered(at) == dbg.at = at /\ sevent /\ sevent' = FALSE

\* pstart: a program that has not ended is told to.
Kill == /\ dbg.at = "start" /\ pid # 0
        /\ IF status = "STOPPED"
           THEN /\ pid' = 0
                /\ tevent' = TRUE /\ status' = "RUNNING"
                /\ dbg' = Do("killing")
           ELSE dbg' = Do("panic") /\ UNCHANGED <<pid, tevent, status>>
        /\ UNCHANGED <<thread, code, signo, sevent, pc, ENDOFF, access, control>>

Killed == /\ Answered("killing")
          /\ dbg' = IF status = "FINISHED" THEN Do("start") ELSE Do("panic")
          /\ UNCHANGED <<thread, code, pid, status, signo, tevent, pc, ENDOFF, access, control>>

Create == /\ dbg.at = "start" /\ pid = 0
          /\ pid' = 1 /\ status' = "RUNNING"
          /\ thr' = "running" /\ prog' = [at |-> "entry", pc |-> 1, goes |-> None]
          /\ dbg' = Do("starting")
          /\ runs' = runs + 1
          /\ UNCHANGED <<regs, code, signo, sevent, tevent, pc, ENDOFF, access, bphead, isstopped,
                         just_started, single_stepping>>

Started == /\ Answered("starting")
           /\ IF status = "STOPPED"
              THEN tevent' = TRUE /\ status' = "RUNNING" /\ dbg' = Do("loading")
              ELSE dbg' = Do("panic") /\ UNCHANGED <<tevent, status>>
           /\ UNCHANGED <<thread, code, pid, signo, pc, ENDOFF, access, control>>

\* start, and what initstart, run and restart do after it.
Loaded == /\ Answered("loading")
          /\ IF status = "STOPPED"
             THEN /\ ENDOFF' = base /\ pc' = 1
                  /\ bphead' = <<[addr |-> N, kind |-> "END"]>> \o bphead
                  /\ isstopped' = (dbg.for # "run")
                  /\ just_started' = IF dbg.for = "restart" THEN TRUE
                                     ELSE IF dbg.for = "run" THEN FALSE ELSE just_started
                  /\ dbg' = IF dbg.for = "run" THEN Do("loop") ELSE Prompt
             ELSE /\ dbg' = Do("panic")
                  /\ UNCHANGED <<ENDOFF, pc, bphead, isstopped, just_started>>
          /\ UNCHANGED <<thread, code, pid, status, signo, tevent, access, single_stepping, runs>>
-----------------------------------------------------------------------------
(* Running and stepping.                                                    *)

isbperr == status = "STOPPED" /\ signo = "BPT"
Here(kind) == { i \in DOMAIN bphead : bphead[i].addr = pc /\ bphead[i].kind = kind }

\* The event at the end of the program is taken off.  There is no second: start alone makes one,
\* and run and restart have called fixbps before.
fixbps == /\ LET ends == { i \in DOMAIN bphead : bphead[i].kind = "END" }
             IN bphead' = IF ends = {} THEN bphead ELSE RemoveAt(bphead, CHOOSE i \in ends : TRUE)
          /\ single_stepping' = FALSE

\* error: back to the prompt.
error == dbg' = Prompt
NoAccess == UNCHANGED <<mem, access>>

\* resume; pxcont does nothing with a program that has ended.
resume(at) == /\ status' = IF status = "FINISHED" THEN status ELSE "RUNNING"
              /\ tevent' = (status # "FINISHED")
              /\ sevent' = (status = "FINISHED")
              /\ dbg' = at

\* The head of cont's loop.
Loop == /\ dbg.at = "loop"
        /\ dbg' = IF single_stepping THEN Do("bpact") ELSE [dbg EXCEPT !.at = "set", !.to = None]
        /\ UNCHANGED <<thread, code, shared, pc, ENDOFF, access, control>>

\* setallbps, one event at a time; pio refuses a program that has ended.
Set == /\ dbg.at = "set" /\ dbg.i \in DOMAIN bphead
       /\ IF status = "FINISHED" /\ Entries(View, bphead[dbg.i].addr) = {} THEN error /\ NoAccess
          ELSE Becomes(setbp(View, bphead[dbg.i].addr)) /\ dbg' = [dbg EXCEPT !.i = @ + 1]
       /\ UNCHANGED <<thread, base, shared, pc, ENDOFF, control>>

Resume == /\ dbg.at = "set" /\ dbg.i > Len(bphead)
          /\ resume([dbg EXCEPT !.at = "running", !.i = 1])
          /\ UNCHANGED <<thread, code, pid, signo, pc, ENDOFF, access, control>>

\* pcont2: an error leaves the registers of the last breakpoint.
\* It is not read (broken on purpose; used by no action).
PcOld == pc
Pc == IF status = "FINISHED" THEN pc ELSE IF regs[1] = ENDOFF THEN regs[2] ELSE None

Came == /\ Answered("running")
        /\ pc' = Pc
        /\ dbg' = Do("unset")
        /\ UNCHANGED <<thread, code, pid, status, signo, tevent, ENDOFF, access, control>>

Unset == /\ dbg.at = "unset" /\ dbg.i \in DOMAIN bphead
         /\ IF status = "FINISHED" THEN error /\ NoAccess
            ELSE Becomes(unsetbp(View, bphead[dbg.i].addr)) /\ dbg' = [dbg EXCEPT !.i = @ + 1]
         /\ UNCHANGED <<thread, base, shared, pc, ENDOFF, control>>

Act == /\ dbg.at = "unset" /\ dbg.i > Len(bphead)
       /\ dbg' = [dbg EXCEPT !.at = "bpact", !.i = 1]
       /\ UNCHANGED <<thread, code, shared, pc, ENDOFF, access, control>>

\* bpact: endprogram goes to the prompt, wherever it stands in the list.
EndProgram ==
    /\ dbg.at = "bpact" /\ Here("END") # {}
    /\ isstopped' = (isstopped \/ \E i \in Here("stop"), j \in Here("END") : i < j)
    /\ dbg' = Prompt
    /\ UNCHANGED <<thread, code, shared, pc, ENDOFF, access, bphead, just_started, single_stepping, runs>>

\* printstatus, after a stop and after an error.
StoppedAt == isbperr /\ (isstopped \/ Here("stop") # {})
Lost == ~single_stepping /\ dbg.for # "step" /\ Here("trace") = {}

printstatus(stopped) ==
    /\ dbg' = Prompt
    /\ isstopped' = stopped
    /\ IF stopped THEN UNCHANGED <<bphead, single_stepping>> ELSE fixbps
    /\ UNCHANGED <<just_started, runs>>

Report == /\ dbg.at = "bpact" /\ Here("END") = {}
          /\ isstopped \/ Here("stop") # {} \/ Lost
          /\ printstatus(StoppedAt)
          /\ UNCHANGED <<thread, code, shared, pc, ENDOFF, access>>

\* A traced place, or single stepping: cont goes on with a step.
GoOn == /\ dbg.at = "bpact" /\ Here("END") = {}
        /\ ~isstopped /\ Here("stop") = {} /\ ~Lost
        /\ dbg' = Do("step")
        /\ UNCHANGED <<thread, code, shared, pc, ENDOFF, access, control>>

\* Where the instruction at l goes, by its code and the program's stack.
\* It goes nowhere (broken on purpose; used by no action).
nextaddrSame(l) == l
nextaddr(l) == IF l = N THEN N
               ELSE IF Fetched(View, l).val[l] = "op" /\ l = prog.pc /\ prog.goes \in Loc THEN prog.goes
               ELSE l + 1

\* dostep decodes the instruction at pc, and stops the program behind it.
DoStep ==
    /\ dbg.at = "step"
    /\ IF status = "FINISHED" THEN error /\ UNCHANGED <<mem, access, status, sevent, tevent>>
       ELSE /\ Becomes(setbp(fetch(View, pc), nextaddr(pc)))
            /\ resume([dbg EXCEPT !.at = "stepping", !.to = nextaddr(pc)])
    /\ UNCHANGED <<thread, base, pid, signo, pc, ENDOFF, control>>

\* stepto's return; the O_END of the program is its end.
Stepped ==
    /\ Answered("stepping")
    /\ pc' = Pc
    /\ IF status = "FINISHED" THEN error /\ NoAccess /\ UNCHANGED control
       ELSE /\ Becomes(unsetbp(View, dbg.to))
            /\ IF ~isbperr THEN printstatus(FALSE)
               ELSE IF pc = N /\ dbg.to = N THEN dbg' = Prompt /\ UNCHANGED control
               ELSE /\ dbg' = [dbg EXCEPT !.at = IF dbg.for = "step" THEN "bpact" ELSE "loop", !.to = None]
                    /\ isstopped' = (dbg.for = "step")
                    /\ UNCHANGED <<bphead, just_started, single_stepping, runs>>
    /\ UNCHANGED <<thread, base, pid, status, signo, tevent, ENDOFF>>
-----------------------------------------------------------------------------
(* The commands.                                                            *)

AddEvent(l, kind) ==
    /\ dbg.at = "prompt" /\ Cardinality({ i \in DOMAIN bphead : bphead[i].kind # "END" }) < MaxEvents
    /\ bphead' = <<[addr |-> l, kind |-> kind]>> \o bphead
    /\ UNCHANGED <<thread, code, shared, dbg, pc, ENDOFF, access, isstopped, just_started,
                   single_stepping, runs>>

Delete(i) ==
    /\ dbg.at = "prompt" /\ bphead[i].kind # "END"
    /\ bphead' = RemoveAt(bphead, i)
    /\ UNCHANGED <<thread, code, shared, dbg, pc, ENDOFF, access, isstopped, just_started,
                   single_stepping, runs>>

\* "trace" at a stop.
TraceAll ==
    /\ dbg.at = "prompt" /\ isstopped /\ ~single_stepping
    /\ single_stepping' = TRUE
    /\ UNCHANGED <<thread, code, shared, dbg, pc, ENDOFF, access, bphead, isstopped, just_started, runs>>

\* run and restart.
Run(for) ==
    /\ dbg.at = "prompt" /\ runs < MaxRuns
    /\ RerunHalted \/ status # "FINISHED"
    /\ fixbps
    /\ dbg' = [dbg EXCEPT !.at = "start", !.for = for]
    /\ UNCHANGED <<thread, code, shared, pc, ENDOFF, access, isstopped, just_started, runs>>

\* "can't continue execution" changes nothing.
Cont ==
    /\ dbg.at = "prompt"
    /\ IF just_started
       THEN just_started' = FALSE /\ isstopped' = isstopped /\ dbg' = [dbg EXCEPT !.at = "loop", !.for = "cont"]
       ELSE IF isstopped
       THEN isstopped' = FALSE /\ just_started' = FALSE /\ dbg' = [dbg EXCEPT !.at = "step", !.for = "cont"]
       ELSE UNCHANGED <<isstopped, just_started, dbg>>
    /\ UNCHANGED <<thread, code, shared, pc, ENDOFF, access, bphead, single_stepping, runs>>

Step ==
    /\ dbg.at = "prompt" /\ isstopped
    /\ isstopped' = FALSE
    /\ dbg' = [dbg EXCEPT !.at = "step", !.for = "step"]
    /\ UNCHANGED <<thread, code, shared, pc, ENDOFF, access, bphead, just_started, single_stepping, runs>>

Command == \/ \E l \in Loc, kind \in {"stop", "trace"} : AddEvent(l, kind)
           \/ \E i \in DOMAIN bphead : Delete(i)
           \/ TraceAll
           \/ \E for \in {"run", "restart"} : Run(for)
           \/ Cont \/ Step

Debugger == \/ Kill \/ Killed \/ Create \/ Started \/ Loaded
            \/ Loop \/ Set \/ Resume \/ Came \/ Unset \/ Act \/ EndProgram \/ Report \/ GoOn \/ DoStep \/ Stepped

Next == Interpreter \/ Debugger \/ Command

\* Both are threads that the system schedules.  The user is not.
Fairness == WF_vars(Interpreter) /\ WF_vars(Debugger)

Spec == Init /\ [][Next]_vars /\ Fairness
-----------------------------------------------------------------------------
\* The two threads never run at the same time, and no signal of theirs is lost: while pdx waits
\* and the interpreter does not run, exactly one of them has a signal to come.  (pxhalt, pxcont)
TakesTurns ==
    /\ thr = "running" => dbg.at \in Waiting /\ ~sevent /\ ~tevent
    /\ dbg.at \in Waiting /\ thr # "running" => sevent # tevent
    /\ dbg.at \notin Waiting => ~sevent /\ ~tevent

\* At the prompt, with a program that can go on, the object code is what the compiler made and
\* nothing is left to be put back: `unsetallbps' and stepto undo all that was set, whichever
\* events share a place and however the program came back.
CodeClean == dbg.at = "prompt" /\ status = "STOPPED" => mem = Fresh /\ savelist = <<>>

\* What the cache says of the loaded program is what its memory holds, after runs in which
\* another program, or the same one, was loaded to the same place.  (fetch, store, initcache)
CacheCoherent ==
    status = "STOPPED" =>
        \A x \in Lines, l \in Loc :
            word[x].addr = <<base, WordOf(l)>> => word[x].val = [h \in Half(WordOf(l)) |-> mem[h]]

\* While the program runs after setallbps, there is a breakpoint at the place of every event and
\* nowhere else, counted once for every event there.
BreakpointsInPlace ==
    dbg.at = "running" /\ status # "FINISHED" =>
        /\ { l \in Loc : mem[l] = "bpt" } = { b.addr : b \in Range(bphead) }
        /\ \A s \in Range(savelist) :
              s.refcount = Cardinality({ i \in DOMAIN bphead : bphead[i].addr = s.location })

\* Where pdx says the program stands is where it stands, unless it stopped for an error.
PcAgrees == dbg.at = "prompt" /\ status = "STOPPED" /\ signo # "ERR" => pc = prog.pc

\* pdx comes back to its prompt, from starting and killing a program too: neither thread waits
\* for the other for good, and pxcont, pxhalt and pstart find it as they expect it: no panic.
\* (The program of the run has no loop.)
PromptComes == dbg.at # "prompt" ~> dbg.at = "prompt"
===============================================================================
