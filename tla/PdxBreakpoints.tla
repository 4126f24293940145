---------------------------- MODULE PdxBreakpoints ----------------------------
(***************************************************************************)
(* Trace and stop events of pdx.  A command adds an event to the list; an  *)
(* event at the entry of a routine that turns something on makes another   *)
(* one, at the return address, that turns it off.  bpact walks the list    *)
(* when the program has reached an address, and takes events off and puts  *)
(* new ones on while it walks.                                             *)
(*                                                                         *)
(* Events are named by where they are in memory: a name is reused when the *)
(* event is freed.  The program calls and returns as it likes; conditions  *)
(* are true or false as they like.  After each call and return it is at a  *)
(* line, where the user may give a command.                                *)
(***************************************************************************)
EXTENDS Integers, SequencesExt

CONSTANTS
    Func, Main,     \* the routines, with the program's own block
    Calls,          \* which of them calls which
    Cond,           \* the conditions that commands give
    None,           \* no condition, no routine (NIL)
    MaxEvents,      \* bound on the events that exist at once
    MaxUser,        \* bound on those that commands have made
    MaxDepth,       \* bound on the depth of calls
    Where,          \* the routines that commands name behind "in"
    Conditional,    \* the types of events that are given conditions
    Deletable,      \* the types of events that the user deletes
    LateConds,      \* FALSE: no condition in force at once while others are
    StaleCurfunc    \* FALSE: a variable of a routine is traced when curfunc is
                    \* the routine that runs, or in another one

ASSUME EventAssumption == /\ Main \in Func /\ Calls \subseteq Func \X Func /\ Where \subseteq Func
                          /\ None \notin Func \cup Cond
                          /\ MaxEvents \in Nat /\ MaxUser \in Nat /\ MaxDepth \in Nat

VARIABLES
    stack,          \* the active routines, with their return addresses
    bp,             \* the events that exist
    bphead,         \* the first of the list, 0 at its end
    tracing, var_tracing,   \* unsigned short
    cond_list,      \* trace and stop conditions, the newest first
    trinfo,         \* traced variables, the newest first
    curfunc,
    walk,           \* bpact: the address reached, p, prev, and delayed
    mode            \* "none", "line", "walk", or how the debugger has failed

list == <<bp, bphead>>
conds == <<tracing, var_tracing, cond_list, trinfo>>
vars == <<stack, list, conds, curfunc, walk, mode>>

BPTYPE == {"ALL_ON", "ALL_OFF", "STOP_ON", "STOP_OFF", "TERM_ON", "TERM_OFF",
           "BLOCK_ON", "BLOCK_OFF", "CALL", "RETURN", "STOP_BP", "END_BP"}
isswitch(t) == t \in {"ALL_ON", "ALL_OFF", "STOP_ON", "STOP_OFF", "TERM_ON",
                      "TERM_OFF", "BLOCK_ON", "BLOCK_OFF"}
\* Those that fixbps deletes.
Temporary == {"ALL_OFF", "STOP_OFF", "TERM_OFF", "CALL", "RETURN", "BLOCK_OFF",
              "END_BP"}

codeloc(f) == <<"entry", f, f>>
Behind(f, g) == <<"return", f, g>>
lastaddr == <<"end", Main, Main>>
Address == {"entry", "return", "end"} \X Func \X Func

Event == 1..MaxEvents
Bpinfo == [addr : Address, type : BPTYPE, block : Func, cond : Cond \cup {None},
           node : Func \cup {None}, old : 0..MaxEvents, next : 0..MaxEvents]

Idle == [at |-> lastaddr, p |-> 0, prev |-> 0, delayed |-> FALSE]

Top == stack[Len(stack)].func
return_addr == stack[Len(stack)].ret

\* The counters are unsigned short.
Up(n) == (n + 1) % 65536
\* Not counted, and set to zero (broken on purpose; used by no action).
DownNot(n) == n
DownToNone(n) == 0
Down(n) == (n + 65535) % 65536

Init == /\ stack = <<>>
        /\ bp = <<>> /\ bphead = 0
        /\ tracing = 0 /\ var_tracing = 0 /\ cond_list = <<>> /\ trinfo = <<>>
        /\ curfunc = Main
        /\ walk = Idle
        /\ mode = "none"
-----------------------------------------------------------------------------
(* The list of events.                                                      *)

\* A bound: room for some more events and what the events at an address add.
Room(a, more) ==
    LET here(types) == { e \in DOMAIN bp : bp[e].addr = a /\ bp[e].type \in types }
    IN Cardinality(DOMAIN bp) + more + Cardinality(here({"ALL_ON", "STOP_ON", "TERM_ON"}))
           + 2 * Cardinality(here({"BLOCK_ON"}))
           + (IF here({"CALL"}) = {} THEN 0 ELSE 1) <= MaxEvents

\* The list with an event more at its head: newbp.
Add(l, b) == LET id == CHOOSE e \in Event \ DOMAIN l.bp :
                           \A x \in Event \ DOMAIN l.bp : e <= x
             IN [bp |-> [e \in DOMAIN l.bp \cup {id} |->
                            IF e = id THEN [b EXCEPT !.next = l.bphead] ELSE l.bp[e]],
                 bphead |-> id]

Bp(addr, type, block, cond, node) ==
    [addr |-> addr, type |-> type, block |-> block, cond |-> cond, node |-> node,
     old |-> 0, next |-> 0]

Now == [bp |-> bp, bphead |-> bphead]
Becomes(l) == bp' = l.bp /\ bphead' = l.bphead

addbp(b) == Becomes(Add(Now, b))

\* The list without event e, which is behind prev or, if that is 0, at the head.
Unlink(l, e, prev) ==
    [bp |-> [x \in DOMAIN l.bp \ {e} |->
                IF x = prev THEN [l.bp[x] EXCEPT !.next = l.bp[e].next] ELSE l.bp[x]],
     bphead |-> IF prev = 0 THEN l.bp[e].next ELSE l.bphead]

Before(e) == IF bphead = e THEN 0 ELSE CHOOSE x \in DOMAIN bp : bp[x].next = e

\* The i-th event of the list, 0 behind its end.
Nth[i \in Nat] == IF i = 0 THEN bphead
                  ELSE LET e == Nth[i - 1] IN IF e = 0 THEN 0 ELSE bp[e].next
-----------------------------------------------------------------------------
(* Conditions and traced variables.  The variable "last" of delcond and     *)
(* delvar is never set, so that what is newer goes with the entry.          *)

\* What is left when the entry is not found: delcond panics, delvar is an error.
\* No list is this one, for its entries are pairs.
Lost == << <<>> >>

Cut(l, x) == IF \E i \in 1..Len(l) : l[i] = x
             THEN LET i == CHOOSE i \in 1..Len(l) :
                               l[i] = x /\ \A j \in 1..i - 1 : l[j] # x
                  IN SubSeq(l, i + 1, Len(l))
             ELSE Lost

\* The oldest condition first (broken on purpose; used by no action).
addcondLast(l, type, c) == IF c = None THEN l ELSE l \o <<<<type, c>>>>
addcond(l, type, c) == IF c = None THEN l ELSE <<<<type, c>>>> \o l
delcond(l, type, c) == IF c = None THEN l ELSE Cut(l, <<type, c>>)
addvar(l, f, c) == <<<<f, c>>>> \o l
delvar(l, f, c) == Cut(l, <<f, c>>)

-----------------------------------------------------------------------------
(* Commands.                                                                *)

AtPrompt == mode \in {"line", "none"}

\* A bound: commands find room for what they add.
MayAdd == /\ AtPrompt
          /\ Cardinality({ e \in DOMAIN bp : bp[e].type \notin Temporary }) < MaxUser
          /\ Cardinality(DOMAIN bp) + 1 < MaxEvents

\* No event is waiting to turn something off.
Settled == \A e \in DOMAIN bp : bp[e].type \notin {"ALL_OFF", "STOP_OFF"}

\* "trace if c" is in force at once.
Trace(c) == /\ MayAdd /\ tracing = 0
            /\ c # None => LateConds \/ Settled
            /\ tracing' = Up(tracing)
            /\ cond_list' = addcond(cond_list, "TRPRINT", c)
            /\ addbp(Bp(codeloc(Main), "ALL_ON", Main, c, None))
            /\ UNCHANGED <<stack, var_tracing, trinfo, curfunc, walk, mode>>

\* "trace in f if c"
TraceIn(f, c) == /\ MayAdd
                 /\ addbp(Bp(codeloc(f), "ALL_ON", f, c, None))
                 /\ UNCHANGED <<stack, conds, curfunc, walk, mode>>

\* "trace g in f if c"; in the program's own block it is in force at once.
TraceCalls(f, g, c) ==
    /\ MayAdd
    /\ LET l == Add(Now, Bp(codeloc(f), "BLOCK_ON", f, c, g))
       IN Becomes(IF f = Main THEN Add(l, Bp(codeloc(g), "CALL", g, c, None)) ELSE l)
    /\ UNCHANGED <<stack, conds, curfunc, walk, mode>>

\* "trace x in f if c", x being named by its routine.
TraceVar(f, c) ==
    LET l == Add(Now, Bp(codeloc(f), "TERM_ON", f, c, f))
        here == IF stack = <<>> THEN lastaddr ELSE return_addr
    IN /\ MayAdd
       /\ ~StaleCurfunc /\ stack # <<>> /\ curfunc = f => Top = f
       /\ IF curfunc = f
          THEN /\ var_tracing' = Up(var_tracing)
               /\ trinfo' = addvar(trinfo, f, c)
               /\ Becomes(Add(l, Bp(here, "TERM_OFF", f, c, f)))
          ELSE Becomes(l) /\ UNCHANGED <<var_tracing, trinfo>>
       /\ UNCHANGED <<stack, tracing, cond_list, curfunc, walk, mode>>

\* "stop if c in f" is in force at once, too.
StopIf(f, c) == /\ MayAdd
                /\ LateConds \/ Settled
                /\ var_tracing' = Up(var_tracing)
                /\ cond_list' = addcond(cond_list, "TRSTOP", c)
                /\ addbp(Bp(codeloc(f), "STOP_ON", f, c, None))
                /\ UNCHANGED <<stack, tracing, trinfo, curfunc, walk, mode>>

\* "stop in f if c"
StopIn(f, c) == /\ MayAdd
                /\ addbp(Bp(codeloc(f), "STOP_BP", f, c, None))
                /\ UNCHANGED <<stack, conds, curfunc, walk, mode>>

\* "delete e"
Delete(e) == /\ AtPrompt
             /\ bp[e].type \in Deletable
             /\ tracing' = IF bp[e].type = "ALL_ON" THEN Down(tracing) ELSE tracing
             /\ var_tracing' = IF bp[e].type = "STOP_ON" THEN Down(var_tracing)
                               ELSE var_tracing
             /\ Becomes(Unlink(Now, e, Before(e)))
             /\ UNCHANGED <<stack, cond_list, trinfo, curfunc, walk, mode>>
-----------------------------------------------------------------------------
(* The program.                                                             *)

bpact(a) == /\ walk' = [at |-> a, p |-> bphead, prev |-> 0, delayed |-> FALSE]
            /\ mode' = "walk"

\* fixbps: the events that outlive a run, in their order, with END_BP of start.
Kept(i) == Nth[i] # 0 /\ bp[Nth[i]].type \notin Temporary
FirstKept(i) == IF \E j \in i..MaxEvents : Kept(j)
                THEN Nth[CHOOSE j \in i..MaxEvents : Kept(j) /\ \A k \in i..j - 1 : ~Kept(k)]
                ELSE 0
Place(e) == CHOOSE i \in 0..MaxEvents : Nth[i] = e
Fixed == LET keep == { e \in DOMAIN bp : bp[e].type \notin Temporary }
             l == [bp |-> [e \in keep |-> [bp[e] EXCEPT !.next = FirstKept(Place(e) + 1)]],
                   bphead |-> FirstKept(0)]
         IN Add(l, Bp(lastaddr, "END_BP", Main, None, None))

\* What it takes off the lists before it empties them: what is left of them when
\* the first i events are gone.
CondsLeft[i \in Nat] ==
    IF i = 0 THEN cond_list
    ELSE LET e == Nth[i - 1]
         IN IF e # 0 /\ bp[e].type \in {"ALL_OFF", "STOP_OFF"}
            THEN delcond(CondsLeft[i - 1],
                         IF bp[e].type = "ALL_OFF" THEN "TRPRINT" ELSE "TRSTOP", bp[e].cond)
            ELSE CondsLeft[i - 1]
VarsLeft[i \in Nat] ==
    IF i = 0 THEN trinfo
    ELSE LET e == Nth[i - 1]
         IN IF e # 0 /\ bp[e].type = "TERM_OFF"
            THEN delvar(VarsLeft[i - 1], bp[e].node, bp[e].cond)
            ELSE VarsLeft[i - 1]

\* "run"; the program stands at its first instruction.
Run == /\ AtPrompt
       /\ Room(codeloc(Main), 1)
       /\ Becomes(Fixed)
       /\ tracing' = 0 /\ var_tracing' = 0 /\ cond_list' = <<>> /\ trinfo' = <<>>
       /\ stack' = <<[func |-> Main, ret |-> lastaddr, traced |-> FALSE]>>
       /\ curfunc' = Main
       /\ walk' = [at |-> codeloc(Main), p |-> Fixed.bphead, prev |-> 0,
                   delayed |-> FALSE]
       /\ mode' = IF Lost \in {CondsLeft[MaxEvents], VarsLeft[MaxEvents]} THEN "panic" ELSE "walk"

Call(g) == /\ mode = "line"
           /\ <<Top, g>> \in Calls /\ Len(stack) < MaxDepth
           /\ Room(codeloc(g), 0)
           /\ stack' = Append(stack, [func |-> g, ret |-> Behind(Top, g),
                                      traced |-> FALSE])
           /\ bpact(codeloc(g))
           /\ UNCHANGED <<list, conds, curfunc>>

\* bpact is left out at the return address (broken on purpose; used by no action).
ReturnUnseen == /\ mode = "line" /\ Len(stack) > 1
                /\ stack' = Front(stack)
                /\ UNCHANGED <<list, conds, curfunc, walk, mode>>

Return == /\ mode = "line" /\ Len(stack) > 1
          /\ bpact(return_addr)
          /\ stack' = Front(stack)
          /\ UNCHANGED <<list, conds, curfunc>>

single_stepping == tracing # 0 \/ var_tracing # 0

\* The last instruction: a step ends the program, otherwise END_BP is met.
Finish == /\ mode = "line" /\ Len(stack) = 1
          /\ \/ /\ stack' = <<>> /\ curfunc' = Main /\ mode' = "none"
                /\ UNCHANGED <<list, conds, walk>>
             \/ /\ ~single_stepping
                /\ bpact(lastaddr)
                /\ UNCHANGED <<stack, list, conds, curfunc>>
-----------------------------------------------------------------------------
(* bpact and handlebp: one event of the list at a time.                     *)

ev == bp[walk.p]

\* The event is met, and its condition, where that matters, may be true.
Met(type) == mode = "walk" /\ walk.p # 0 /\ ev.addr = walk.at /\ ev.type = type

\* SAVE and NOSAVE; new events may have come before this one.
SAVE(l) == /\ Becomes(l)
           /\ walk' = [walk EXCEPT !.p = ev.next, !.prev = walk.p]
NOSAVE == /\ Becomes(Unlink(Now, walk.p, walk.prev))
          /\ walk' = [walk EXCEPT !.p = ev.next]

\* Where the routine that has just been entered will return to.
Off(type) == Bp(return_addr, type, ev.block, ev.cond, ev.node)

\* The next event is only fetched when this one is met (broken on purpose; used
\* by no action).
SkipStays == /\ mode = "walk" /\ walk.p # 0
             /\ ev.addr # walk.at \/ (ev.cond # None /\ ~isswitch(ev.type))
             /\ walk' = [walk EXCEPT !.prev = walk.p]
             /\ UNCHANGED <<stack, list, conds, curfunc, mode>>

\* Not here, or not now.
Skip == /\ mode = "walk" /\ walk.p # 0
        /\ ev.addr # walk.at \/ (ev.cond # None /\ ~isswitch(ev.type))
        /\ SAVE(Now)
        /\ UNCHANGED <<stack, conds, curfunc, mode>>

\* ALL_ON is not saved (broken on purpose; used by no action).
AllOnUnsaved == /\ Met("ALL_ON")
                /\ tracing' = Up(tracing)
                /\ cond_list' = addcond(cond_list, "TRPRINT", ev.cond)
                /\ bp' = Unlink(Add(Now, Off("ALL_OFF")), walk.p, walk.prev).bp
                /\ bphead' = IF walk.prev = 0 THEN ev.next ELSE bphead
                /\ walk' = [walk EXCEPT !.p = ev.next]
                /\ curfunc' = ev.block
                /\ stack' = [stack EXCEPT ![Len(stack)].traced = TRUE]
                /\ UNCHANGED <<var_tracing, trinfo, mode>>

AllOn == /\ Met("ALL_ON")
         /\ tracing' = Up(tracing)
         /\ cond_list' = addcond(cond_list, "TRPRINT", ev.cond)
         /\ SAVE(Add(Now, Off("ALL_OFF")))
         /\ curfunc' = ev.block
         /\ stack' = [stack EXCEPT ![Len(stack)].traced = TRUE]
         /\ UNCHANGED <<var_tracing, trinfo, mode>>

AllOff == /\ Met("ALL_OFF")
          /\ tracing' = Down(tracing)
          /\ cond_list' = delcond(cond_list, "TRPRINT", ev.cond)
          /\ NOSAVE
          /\ curfunc' = ev.block
          /\ mode' = IF cond_list' = Lost THEN "panic" ELSE mode
          /\ UNCHANGED <<stack, var_tracing, trinfo>>

StopOn == /\ Met("STOP_ON")
          /\ var_tracing' = Up(var_tracing)
          /\ cond_list' = addcond(cond_list, "TRSTOP", ev.cond)
          /\ SAVE(Add(Now, Off("STOP_OFF")))
          /\ curfunc' = ev.block
          /\ UNCHANGED <<stack, tracing, trinfo, mode>>

StopOff == /\ Met("STOP_OFF")
           /\ var_tracing' = Down(var_tracing)
           /\ cond_list' = delcond(cond_list, "TRSTOP", ev.cond)
           /\ NOSAVE
           /\ curfunc' = ev.block
           /\ mode' = IF cond_list' = Lost THEN "panic" ELSE mode
           /\ UNCHANGED <<stack, tracing, trinfo>>

TermOn == /\ Met("TERM_ON")
          /\ var_tracing' = Up(var_tracing)
          /\ trinfo' = addvar(trinfo, ev.node, ev.cond)
          /\ SAVE(Add(Now, Off("TERM_OFF")))
          /\ curfunc' = ev.block
          /\ UNCHANGED <<stack, tracing, cond_list, mode>>

TermOff == /\ Met("TERM_OFF")
           /\ var_tracing' = Down(var_tracing)
           /\ trinfo' = delvar(trinfo, ev.node, ev.cond)
           /\ NOSAVE
           /\ curfunc' = ev.block
           /\ mode' = IF trinfo' = Lost THEN "panic" ELSE mode
           /\ UNCHANGED <<stack, tracing, cond_list>>

BlockOn == /\ Met("BLOCK_ON")
           /\ LET l == Add(Now, Bp(codeloc(ev.node), "CALL", ev.node, ev.cond, None))
              IN SAVE(Add(l, [Off("BLOCK_OFF") EXCEPT !.cond = None, !.node = None,
                                                      !.old = l.bphead]))
           /\ UNCHANGED <<stack, conds, curfunc, mode>>

\* delbp frees the CALL event; the walk fails if that is where it goes on.
BlockOff == /\ Met("BLOCK_OFF")
            /\ Becomes(Unlink(Unlink(Now, ev.old, Before(ev.old)), walk.p, walk.prev))
            /\ walk' = [walk EXCEPT !.p = ev.next]
            /\ mode' = IF ev.old \in {ev.next, walk.prev} THEN "freed" ELSE mode
            /\ UNCHANGED <<stack, conds, curfunc>>

CallEvent == /\ Met("CALL")
             /\ Becomes(Now)
             /\ walk' = [walk EXCEPT !.p = ev.next, !.prev = walk.p, !.delayed = TRUE]
             /\ curfunc' = ev.block
             /\ UNCHANGED <<stack, conds, mode>>

ReturnEvent == /\ Met("RETURN")
               /\ NOSAVE
               /\ UNCHANGED <<stack, conds, curfunc, mode>>

StopBp == /\ Met("STOP_BP")
          /\ SAVE(Now)
          /\ curfunc' = ev.block
          /\ UNCHANGED <<stack, conds, mode>>

\* endprogram does not come back to bpact.
EndBp == /\ Met("END_BP")
         /\ stack' = <<>> /\ curfunc' = Main /\ mode' = "none"
         /\ UNCHANGED <<list, conds, walk>>

\* The end of the walk; a call is printed, and its return will be.
Walked == /\ mode = "walk" /\ walk.p = 0
          /\ IF walk.delayed
             THEN addbp(Bp(return_addr, "RETURN", curfunc, None, None))
             ELSE UNCHANGED list
          /\ walk' = Idle
          /\ mode' = "line"
          /\ UNCHANGED <<stack, conds, curfunc>>

Walk == Skip \/ AllOn \/ AllOff \/ StopOn \/ StopOff \/ TermOn \/ TermOff
        \/ BlockOn \/ BlockOff \/ CallEvent \/ ReturnEvent \/ StopBp \/ EndBp \/ Walked

If(type) == {None} \cup IF type \in Conditional THEN Cond ELSE {}

Command == \/ \E c \in If("ALL_ON") : Trace(c) \/ \E f \in Where : TraceIn(f, c)
           \/ \E f \in Where, c \in If("TERM_ON") : TraceVar(f, c)
           \/ \E f \in Where, g \in Func \ {Main}, c \in If("BLOCK_ON") : TraceCalls(f, g, c)
           \/ \E f \in Where, c \in Cond : StopIf(f, c)
           \/ \E f \in Where, c \in If("STOP_BP") : StopIn(f, c)
           \/ \E e \in DOMAIN bp : Delete(e)

Next == Command \/ Run \/ (\E g \in Func : Call(g)) \/ Return \/ Finish \/ Walk

\* The debugger does not stop inside bpact.
Spec == Init /\ [][Next]_vars /\ WF_vars(Walk)
-----------------------------------------------------------------------------
\* The list reaches every event, each once, and ends: nothing that bpact adds or
\* takes off while it walks is lost, or is still linked when it is freed.
ListIsWhole == mode # "freed" =>
    LET n == Cardinality(DOMAIN bp)
    IN { Nth[i] : i \in 0..n - 1 } = DOMAIN bp /\ Nth[n] = 0

\* An event that turns something off waits for a routine that is active: none is
\* left behind by a routine that has returned, to fire for a later call.
ExitsOfActiveRoutines ==
    mode = "line" => \A e \in DOMAIN bp :
        bp[e].type \in {"ALL_OFF", "STOP_OFF", "TERM_OFF", "RETURN"} =>
            \E i \in 1..Len(stack) :
                stack[i].func = bp[e].block /\ stack[i].ret = bp[e].addr

\* The counters that decide on single stepping count what is in force, and no
\* condition or variable is missing when it is to be taken off.
CountersMatch ==
    LET on(types) == Cardinality({ e \in DOMAIN bp : bp[e].type \in types })
    IN /\ tracing - on({"ALL_OFF"}) \in {0, 1}
       /\ var_tracing - on({"STOP_OFF", "TERM_OFF"}) \in 0..on({"STOP_ON"})
       /\ mode # "panic"

\* Tracing goes on while the routine is active that it was first turned on for
\* (pdx.1: "only while executing inside the given procedure").
TracedInside ==
    mode = "line" => \A i \in 1..Len(stack) :
        (stack[i].traced /\ \A j \in 1..i - 1 : stack[j].func # stack[i].func)
            => tracing > 0

\* An event takes no more than its own condition off ("delete a condition from the
\* list", trcond.c:74), and no more than its own variable.
TakesOffItsOwn == [][mode = "walk" => /\ Len(cond_list') >= Len(cond_list) - 1
                                      /\ Len(trinfo') >= Len(trinfo) - 1]_vars

\* bpact comes to the end of its list.
WalkEnds == mode = "walk" ~> mode # "walk"

\* The walk never goes on to an event that was freed: bpact remembers "the previous
\* one so that handlebp can delete breakpoints on the fly" (bpact.c:79).
NothingFreedIsUsed == mode # "freed"

===============================================================================
