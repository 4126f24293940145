------------------------------- MODULE PcFiles -------------------------------
(***************************************************************************)
(* The active files of a running Pascal program (src/libpc): the table     *)
(* _actfile, the chain _fchain threaded through the file records, and the  *)
(* routines that put a file on them (GETNAME, for RESET, REWRITE, APPEND   *)
(* and DEFNAME) or take it off (PFCLOSE, PCLOSE, DFDISPOSE).               *)
(*                                                                         *)
(* A file variable is the address of its struct iorec, an integer.  Where  *)
(* that address lies decides which list discipline the file obeys, so the  *)
(* memory layout is a parameter: the stack tops of successive runs, the    *)
(* static files, the dynamic records, and the address of a C local.  The   *)
(* three standard files, which end the chain and are never taken off it,   *)
(* are left out.  ERROR and PERROR never return: an error in a file routine *)
(* stops the program where it is.                                          *)
(***************************************************************************)
EXTENDS Integers, FiniteSets, Sequences

CONSTANTS
    Stack,          \* the stack of each run of the program in one process
    MaxDepth,       \* bound on the depth of calls
    Statics,        \* the program's own file variables, if they are static
    Record,         \* dynamic records; each is the set of its file variables
    CFrame,         \* &locvar in GETNAME
    GLVL,           \* the level of global files, above every address
    MAXFILES,       \* the length of _actfile
    Compiled        \* TRUE: a compiled program; FALSE: one that px interprets

PREDEF == 2         \* the last slot of the standard files
FILNIL == 0
Slot == PREDEF + 1 .. MAXFILES - 1

\* A frame: its file variables, at addresses below the top of its locals, which
\* O_BEG stores in _dp->locvars (compiled programs pass it to PCLOSE as `ap').
FrameFiles(s, d) == Stack[s][d].files
LocVars(s, d) == Stack[s][d].locvars

\* The variables of the block at depth d; those of a compiled program are static.
BlockFiles(s, d) == IF d = 1 /\ Compiled THEN Statics ELSE FrameFiles(s, d)

StackFiles == UNION { FrameFiles(s, d) : s \in DOMAIN Stack, d \in 1..MaxDepth }
Files == StackFiles \cup Statics \cup UNION Record

ASSUME LayoutAssumption ==
    /\ MaxDepth \in Nat \ {0}
    /\ Stack \in Seq([1..MaxDepth -> [files : SUBSET Nat, locvars : Nat]])
    /\ Len(Stack) > 0
    /\ \A s \in DOMAIN Stack, d \in 1..MaxDepth :
         /\ \A f \in FrameFiles(s, d) : f < LocVars(s, d)
         /\ \A e \in 1..d - 1 : \A f \in FrameFiles(s, e) : LocVars(s, d) < f
    /\ \A r \in Record : r # {} /\ IsFiniteSet(r)
    /\ CFrame \in Nat /\ GLVL \in Nat
    /\ \A f \in Files : f \in Nat /\ FILNIL < f /\ f < GLVL
    /\ MAXFILES \in Nat /\ MAXFILES > PREDEF
    /\ Compiled \in BOOLEAN

VARIABLES
    run,        \* which run of the program this is
    depth,      \* the number of active blocks
    heap,       \* the records that are allocated
    iorec,      \* struct iorec at each address, whatever uses the memory now
    fchain,     \* the records linked from _fchain, in their order
    actfile,    \* _actfile, without the standard files
    filefre,    \* _filefre
    disk,       \* slots whose temporary file "#tmp.<slot>" exists
    status      \* "running", "ended" or "aborted"

lists == <<fchain, actfile, filefre>>
vars == <<run, depth, heap, iorec, fchain, actfile, filefre, disk, status>>

\* struct iorec: fbuf also tells a stream that fclose has freed ("closed"); of
\* funit the flags FDEF and TEMP; fname is empty, given or generated.
Cleared == [fblk |-> 0, flev |-> 0, fbuf |-> "null", fdef |-> FALSE,
            temp |-> FALSE, fname |-> ""]

Lowest(S) == CHOOSE x \in S : \A y \in S : x <= y
Highest(S) == CHOOSE x \in S : \A y \in S : x >= y
-----------------------------------------------------------------------------
OnChain == { fchain[i] : i \in 1..Len(fchain) }

\* A walk of the chain behind position p, as long as the nodes are in C: where
\* it ends, and the nodes it meets.
WalkEnd(C, p) == CHOOSE k \in p..Len(fchain) :
                    /\ \A i \in p + 1..k : fchain[i] \in C
                    /\ k < Len(fchain) => fchain[k + 1] \notin C
Met(C, p) == { fchain[i] : i \in p + 1..WalkEnd(C, p) }

\* UNIT, FLUSH, FNIL: the test that a file is active.
IsActive(f) == iorec[f].fblk \in Slot /\ actfile[iorec[f].fblk] = f
Active == { f \in Files : IsActive(f) }

Accessible == (UNION { BlockFiles(run, d) : d \in 1..depth }) \cup UNION heap
-----------------------------------------------------------------------------
Init == /\ run = 1
        /\ depth = 1
        /\ heap = {}
        /\ iorec = [f \in Files |-> Cleared]
        /\ fchain = <<>>
        /\ actfile = [s \in Slot |-> FILNIL]
        /\ filefre = PREDEF
        /\ disk = {}
        /\ status = "running"

\* PFCLOSE has a stream to close; a temporary file goes with its last use.
HasStream(f) == ~iorec[f].fdef /\ iorec[f].fbuf # "null"
Removes(f) == HasStream(f) /\ iorec[f].temp

\* A PFCLOSE without the fclose (broken on purpose; used by no action).
DeadKeepsStream(f) == [Cleared EXCEPT !.fblk = iorec[f].fblk, !.fbuf = iorec[f].fbuf]

\* What PFCLOSE leaves in a record: fbuf is not reset.  Of the rest only fblk
\* can be read before GETNAME makes the record anew; it is all that is kept.
Dead(f) == [Cleared EXCEPT !.fblk = iorec[f].fblk,
                           !.fbuf = IF HasStream(f) THEN "closed" ELSE iorec[f].fbuf]

\* A PFCLOSE that leaves the slot taken (broken on purpose).
PfCloseKeepsSlot(S) ==
    /\ iorec' = [f \in Files |-> IF f \in S THEN Dead(f) ELSE iorec[f]]
    /\ UNCHANGED <<actfile, disk>>

\* PFCLOSE(f, TRUE) for every f in S.
PfClose(S) ==
    /\ iorec' = [f \in Files |-> IF f \in S THEN Dead(f) ELSE iorec[f]]
    /\ actfile' = [s \in Slot |->
                    IF \E f \in S : iorec[f].fblk = s THEN FILNIL ELSE actfile[s]]
    /\ disk' = disk \ { iorec[f].fblk : f \in { g \in S : Removes(g) } }

\* A loop that leaves the closed nodes on the chain (broken on purpose).
CloseRunKeepsLinks(C, p) == /\ PfClose(Met(C, p))
                            /\ UNCHANGED <<run, fchain, filefre>>

\* The loop of PCLOSE and DFDISPOSE over the nodes in C behind position p: it
\* closes them and unlinks them all at the end.
CloseRun(C, p) ==
    /\ PfClose(Met(C, p))
    /\ fchain' = SubSeq(fchain, 1, p) \o SubSeq(fchain, WalkEnd(C, p) + 1, Len(fchain))
    /\ UNCHANGED <<run, filefre>>

\* The same loop, stopped by a temporary file g that cannot be removed: its
\* stream is closed, its slot and the chain are as they were.
CloseRunFails(C, p) ==
    \E g \in Met(C, p) :
        LET done == Met(C \ {g}, p)
            closed == { f \in done \cup {g} : HasStream(f) }
        IN /\ Removes(g)
           /\ iorec' = [f \in Files |->
                            IF f \in closed THEN [iorec[f] EXCEPT !.fbuf = "closed"]
                            ELSE iorec[f]]
           /\ actfile' = [s \in Slot |-> IF \E f \in done : iorec[f].fblk = s
                                         THEN FILNIL ELSE actfile[s]]
           /\ disk' = disk \ { iorec[f].fblk : f \in { h \in done : Removes(h) } }
           /\ status' = "aborted"
           /\ UNCHANGED <<run, depth, heap, fchain, filefre>>

\* A PCLOSE that does not look at levels (broken on purpose).
UpToAll(level) == Files

\* The files PCLOSE(level) closes when it meets them.
UpTo(level) == { f \in Files : iorec[f].flev <= level }
-----------------------------------------------------------------------------
(* GETNAME and its callers.                                                *)

\* The level of a new file: stack files are told by their address.
FileLevel(f) == IF f < CFrame THEN GLVL ELSE f

\* No order among the global files (broken on purpose).
PlaceByLevel(f) == WalkEnd({ n \in Files : iorec[n].flev < FileLevel(f) }, 0)

\* The position a new record is put behind: levels ascend, and so do the addresses
\* of the global files.
Place(f) ==
    LET low == WalkEnd({ n \in Files : iorec[n].flev < FileLevel(f) }, 0)
    IN IF FileLevel(f) = GLVL
       THEN WalkEnd({ n \in Files : iorec[n].flev = GLVL /\ n < f }, low)
       ELSE low

\* The chain with a new record.  (It is not linked yet: ChainMatchesTable.)
Linked(f) == SubSeq(fchain, 1, Place(f)) \o <<f>>
             \o SubSeq(fchain, Place(f) + 1, Len(fchain))

\* A loop of GETNAME over the slots: the first free one from `first' up, or
\* MAXFILES when the loop runs to its end.
ScanFrom(first) == Lowest({ s \in first..MAXFILES - 1 : actfile[s] = FILNIL } \cup {MAXFILES})

\* A search that does not start again at the first slot (broken on purpose).
NextSlotUp == ScanFrom(filefre + 1)

\* Where the two loops leave _filefre: the search goes on behind the slot taken
\* last, then starts again at the first one.
NextSlot == LET up == ScanFrom(filefre + 1)
            IN IF up < MAXFILES THEN up ELSE ScanFrom(PREDEF + 1)

\* A record that forgets that its name is temporary (broken on purpose).
WithNameKept(rec, named) ==
    IF named THEN [rec EXCEPT !.temp = FALSE, !.fname = "given"]
    ELSE [rec EXCEPT !.temp = (rec.fname = ""),
                     !.fname = IF rec.fname = "" THEN "tmp" ELSE @]

\* The name part: a given name, the name the file already has, or a new one.
WithName(rec, named) ==
    IF named THEN [rec EXCEPT !.temp = FALSE, !.fname = "given"]
    ELSE IF rec.fname # "" THEN rec
    ELSE [rec EXCEPT !.temp = TRUE, !.fname = "tmp"]

Aborted(f, rec) == /\ iorec' = [iorec EXCEPT ![f] = rec]
                   /\ status' = "aborted"

\* What the caller does with the record GETNAME returns, the temporary files on
\* disk being tmps: open a stream, or (DEFNAME) reserve the name.
UseName(f, rec, caller, tmps) ==
    \/ /\ caller = "DEFNAME"
       /\ iorec' = [iorec EXCEPT ![f] = [rec EXCEPT !.fdef = TRUE]]
       /\ disk' = tmps
       /\ UNCHANGED status
    \/ /\ caller # "DEFNAME"
       /\ caller = "RESET" /\ rec.fname = "tmp" => rec.fblk \in tmps
       /\ iorec' = [iorec EXCEPT ![f] = [rec EXCEPT !.fbuf = "open"]]
       /\ disk' = IF rec.fname = "tmp" THEN tmps \cup {rec.fblk} ELSE tmps
       /\ UNCHANGED status
    \/ /\ caller # "DEFNAME"
       /\ Aborted(f, [rec EXCEPT !.fbuf = "null"])
       /\ disk' = tmps

\* The name is longer than NAMSIZ.
NameTooLong(f, rec, caller, tmps) ==
    /\ caller \in {"RESET", "REWRITE"}
    /\ Aborted(f, rec)
    /\ disk' = tmps

\* GETNAME finds the file active: it is closed and reactivated in its slot.
Reactivate(f, named, caller) ==
    LET removed == named /\ Removes(f)
        rec == [iorec[f] EXCEPT !.fbuf = IF HasStream(f) THEN "closed" ELSE @,
                                !.fdef = FALSE]
        tmps == IF removed THEN disk \ {iorec[f].fblk} ELSE disk
    IN /\ IsActive(f)
       /\ \/ UseName(f, WithName(rec, named), caller, tmps)
          \/ named /\ NameTooLong(f, rec, caller, tmps)
          \/ /\ removed
             /\ Aborted(f, [iorec[f] EXCEPT !.fbuf = "closed"])
             /\ UNCHANGED disk
       /\ UNCHANGED lists

\* GETNAME gives a new record a slot and a place on the chain.
Activate(f, named, caller) ==
    LET rec == [Cleared EXCEPT !.fblk = NextSlot, !.flev = FileLevel(f)]
    IN /\ ~IsActive(f)
       /\ NextSlot < MAXFILES
       /\ filefre' = NextSlot
       /\ actfile' = [actfile EXCEPT ![NextSlot] = f]
       /\ fchain' = Linked(f)
       /\ \/ UseName(f, WithName(rec, named), caller, disk)
          \/ named /\ NameTooLong(f, rec, caller, disk)

\* ERROR "File table overflow": the second loop ran to its end.
TableOverflow(f) ==
    /\ ~IsActive(f)
    /\ NextSlot = MAXFILES
    /\ filefre' = NextSlot
    /\ Aborted(f, [Cleared EXCEPT !.fblk = iorec[f].fblk, !.flev = FileLevel(f)])
    /\ UNCHANGED <<fchain, actfile, disk>>

GetName(f, named, caller) ==
    /\ status = "running"
    /\ \/ Reactivate(f, named, caller)
       \/ Activate(f, named, caller)
       \/ TableOverflow(f)
    /\ UNCHANGED <<run, depth, heap>>

Reset(f, named) == GetName(f, named, "RESET")
Rewrite(f, named) == GetName(f, named, "REWRITE")
AppendTo(f) == GetName(f, FALSE, "APPEND")

\* The prologue of a program reserves the names of the files in its header.
DefName(f) == /\ depth = 1 /\ heap = {}
              /\ f \in BlockFiles(run, 1) \ Active
              /\ \A g \in Active : iorec[g].fdef
              /\ GetName(f, TRUE, "DEFNAME")
-----------------------------------------------------------------------------
(* Blocks, records and the end of the program.                              *)

\* O_BEG clears the frame of a block compiled with runtime tests; otherwise
\* the block finds there whatever earlier blocks left.
Enter == /\ status = "running"
         /\ depth < MaxDepth
         /\ depth' = depth + 1
         /\ \/ UNCHANGED iorec
            \/ iorec' = [f \in Files |-> IF f \in FrameFiles(run, depth')
                                         THEN Cleared ELSE iorec[f]]
         /\ UNCHANGED <<run, heap, lists, disk, status>>

Leave == /\ status = "running"
         /\ depth > 1
         /\ \/ /\ CloseRun(UpTo(LocVars(run, depth)), 0)
               /\ depth' = depth - 1
               /\ UNCHANGED <<heap, status>>
            \/ CloseRunFails(UpTo(LocVars(run, depth)), 0)

\* The main block ends: O_END, then px_main's PFLUSH; or PCEXIT.
EndProgram ==
    /\ status = "running"
    /\ depth = 1
    /\ LET level == IF Compiled THEN GLVL ELSE LocVars(run, 1)
       IN \/ /\ CloseRun(UpTo(level), 0)
             /\ status' = "ended"
             /\ UNCHANGED <<depth, heap>>
          \/ CloseRunFails(UpTo(level), 0)

New(r) == /\ status = "running"
          /\ r \notin heap
          /\ heap' = heap \cup {r}
          /\ iorec' = [f \in Files |-> IF f \in r THEN Cleared ELSE iorec[f]]
          /\ UNCHANGED <<run, depth, lists, disk, status>>

\* DFDISPOSE closes the files between the first and the last address of the
\* record; it looks for them behind this position.
BeforeRecord(r) == WalkEnd({ f \in Files : iorec[f].flev < GLVL \/ f < Lowest(r) }, 0)

\* DISPOSE in place of DFDISPOSE (broken on purpose).
DisposeOnly(r) == /\ status = "running"
                  /\ r \in heap
                  /\ heap' = heap \ {r}
                  /\ UNCHANGED <<run, depth, iorec, lists, disk, status>>

Dispose(r) ==
    /\ status = "running"
    /\ r \in heap
    /\ LET within == { f \in Files : Lowest(r) <= f /\ f <= Highest(r) }
       IN \/ /\ CloseRun(within, BeforeRecord(r))
             /\ heap' = heap \ {r}
             /\ UNCHANGED <<depth, status>>
          \/ CloseRunFails(within, BeforeRecord(r))

Next == \/ \E f \in Accessible, named \in BOOLEAN : Reset(f, named) \/ Rewrite(f, named)
        \/ \E f \in Accessible : AppendTo(f) \/ DefName(f)
        \/ Enter \/ Leave
        \/ \E r \in Record : New(r) \/ Dispose(r)
        \/ EndProgram

Spec == Init /\ [][Next]_vars
-----------------------------------------------------------------------------
\* While the program runs, the chain and the table hold the same files: the
\* walk of PFLUSH or PCLOSE meets every file that UNIT accepts and no other.
\* A slot belongs to the file that says so in fblk: closing one file never
\* takes the slot of another.
ChainMatchesTable ==
    /\ status = "running" => OnChain = Active
    /\ \A s \in Slot : actfile[s] # FILNIL => iorec[actfile[s]].fblk = s

\* The chain lists files only of active blocks and allocated records: no walk
\* of it reads memory that has another use.
OnlyLiveFiles == status = "running" => OnChain \subseteq Accessible

\* The order PCLOSE and DFDISPOSE stop by: blocks innermost first, then the
\* global files by address, so that those of a record lie together.
ChainSorted ==
    \A i, j \in 1..Len(fchain) : i < j =>
        LET f == fchain[i]  g == fchain[j]
        IN \/ iorec[f].flev < iorec[g].flev
           \/ iorec[f].flev = iorec[g].flev /\ f < g

\* No stream is forgotten: one that is open belongs to a file on the chain.
NoStreamLost == \A f \in Files : iorec[f].fbuf = "open" => f \in OnChain

\* PFLUSH never passes a stream to fflush that fclose has freed.
FlushesOpenStreams ==
    \A f \in OnChain : iorec[f].fdef \/ iorec[f].fbuf # "closed"

\* ... as long as the program has not stopped in an error.
FlushesOpenStreamsInRun == status = "running" => FlushesOpenStreams

\* A temporary file exists only as long as the file variable it stands for is
\* active: none is left behind by a block, a record or a program that ends.
TempsOfActiveFiles ==
    status # "aborted" => disk \subseteq { iorec[f].fblk : f \in { g \in Active : iorec[g].temp } }

\* "File table overflow" is reported only to a program that has as many files
\* open as the table has slots: every slot belongs to a file of its own, which the
\* program can still name.  No block or record before leaked a slot, and no slot
\* freed behind or ahead of _filefre is overlooked (GETNAME.c:98-105).
OverflowOnlyWhenFull ==
    [][filefre' = MAXFILES /\ filefre # MAXFILES =>
         \A s \in Slot : /\ actfile[s] \in Accessible
                         /\ \A t \in Slot \ {s} : actfile[t] # actfile[s]]_vars
=============================================================================
