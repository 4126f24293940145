# Berkeley Pascal: specifications and proofs

TLA+ specifications of the Berkeley Pascal system in this repository: the P-code
interpreter `px`, the runtime library `libpc` it shares with compiled programs,
the breakpoints and the process control of the debugger `pdx`, two pieces of the
compiler (labels and gotos, for statements) and undo in the editor `ex`.  Every
definition is translated from the C source; `PROJECT.json` maps each one to the
lines it stands for.  TLC checks the modules on small programs, memory layouts,
files and buffers.  TLAPS proves, for every value of the constants, the main
properties of procedure calls, of active files, of lazy input (with its refinement),
of breakpoints and process control in `pdx`, of for loops, of the check of gotos, of
set expressions and of undo in `ex`: every property the runs check, but five that are
about liveness.

## 1. Inventory

Paths are relative to `src/`.

| component | state it keeps | operations | what is hard | correct when |
|---|---|---|---|---|
| `px` calls (`px/interp.c` 387-530, `px/pxvars.h`, `src/objfmt.h`) | stack of block marks, `_display`, `_dp`, `curfile`, `_runtst` | O_CALL, O_BEG, O_END, O_FSAV, O_FCALL, O_FRTN, O_GOTO | recursion, procedural parameters and non-local gotos change one global display; each puts back only what it knows of | a block always runs in the environment its source text gives it; gotos reach their frame; files of dead blocks are closed |
| `px` backtrace (`px/utilities.c` 113-151) | none, walks the display | px_backtrace | runs at any instruction, after errors and signals | lists the active calls, innermost first |
| for loops (`src/forop.c`, `px/interp.c` 1576-1641) | initial and final value, shadow of the control variable | the code of a for statement, O_FOR1U to O_FOR4D | a limit at the end of the type, values that the width cannot hold, routines that change the control variable | the body runs once for each value, in order, and the loop ends |
| other `px` opcodes (`px/interp.c`) | evaluation stack | about 240 | 16 and 32 bit arithmetic | compute what Pascal says |
| `px` start-up, errors, signals (`px/main.c`, `int.c`) | object file, counters | px_main, px_exit, handlers | called again in the same process by `pdx` | a second run starts fresh |
| `libpc` active files (`GETNAME`, `PFCLOSE`, `PCLOSE`, `DFDISPOSE`, `RESET`, `REWRITE`, `APPEND`, `DEFNAME`, `PCEXIT`) | `_actfile`, `_filefre`, `_fchain`, the records, temporary files on disk | open, reopen, close at block exit, dispose | records live in memory that is reused; three owners (blocks, heap, program) on one sorted list; errors in the middle | every block and record closes exactly its own files |
| `libpc` input (`IOSYNC`, `GET`, `TEOF`, `TEOLN`, `FNIL`, `READC`, `READLN`, `READ4`, `UNSYNC`, `TELL`, `SEEK`) | window, SYNC, EOLN, EOFF, SPEOLN | as named | the window is filled as late as possible; a last line without newline gets a pseudo end | the program reads the components of the file in order; nothing is read ahead |
| `libpc` output | `lcount` | WRITE*, PUT, LLIMIT, FLUSH | little | |
| `libpc` heap | lowest and highest address | NEW, DISPOSE, NIL | little | |
| sets (`libpc/CTTOT.c` and others, `src/cset.c`) | sets on the evaluation stack | CTTOT, INCT, IN, CARD, ADDT, SUBT, MULT, RELT*; precset, postcset | borders of bytes, longs and the base type; the compiler builds some sets itself | agree with set theory |
| `libpc` ranges, packing, arithmetic | none | PACK, RANG4, SUBSC, ... | little | |
| `libpc` compiled calls | display copies | FSAV, FCALL, FRTN | as in `px`, frames made by the C compiler | as in `px` |
| `pdx` breakpoints (`pdx/breakpoint`, `tree/tracestop.c`) | list of events, trace conditions, counters | newbp, delbp, bpact, handlebp, fixbps, setallbps | handlers add and delete events of the list that is being walked; routine-entry events make exit events | a stop or trace is in force exactly from when it should be until when it should not |
| `pdx` process (`pdx/process`, `machine/setbp.c`, `win32/ptrace.c`) | process state, saved words, instruction cache, two thread events | run, cont, step, next, stepto; pstart, pcont, pio | program and debugger are two threads that alternate; the program may end while breakpoints are in its code | each side runs only when it is its turn; code is as it was |
| `pdx` frames (`pdx/runtime`) | copy of the display | curframe, nextframe, findframe | 7 entries of 20, formals | as the backtrace |
| `pdx` symbols, mappings, source, commands | tables filled once | look-ups | binary searches | |
| front end: labels (`src/lab.c`, `stat.c`) | `level`, `gotos` lists, one number for each label | label, gotoop, labeled, ungoto | one pass, and labels and gotos in any order | a goto into a structured statement is reported, any other is not |
| front end: the rest (`src`) | symbol table, one pass | parse, type, generate | sequential | assumed by `PxProgram` |
| `ex` undo (`ex/ex_cmdsub.c`, `ex_cmds.c`, `ex_re.c`, `ex_subr.c`) | array of lines with `dol` and `unddol`; `undkind`, `unddel`, `undap1`, `undap2` | append, delete, change, move, copy, put, yank, substitute, global, undo | saved lines and text share one array, undo must leave what undoes it | undo brings back the text before the last command |
| `pc`, `pc2`, `pc3`, `pmerge`, `pxp`, `pxref`, `pix`, `eyacc`, `byacc`, the rest of `ex`, `libcompat`, `contrib`, `tstpx` | | | drivers, filters, build tools, vendored code, tests | not modelled |

How they interact: the front end writes P-code whose calls carry static levels;
`px` runs it, calling `libpc` for every file operation, and passes `PCLOSE` the
bottom of each frame at block exit; `libpc` calls ERROR, which leaves through
`px_exit` and prints a backtrace from the display; `pdx` runs the same `px_main` in
a thread of its own, once for each `run` command, and reads its display and code
through `ptrace`-like calls.

The hazards of each part, at their lines, are in `PROJECT.json`.

## 2. Plan

Modules, in order; those of steps 1 to 10 exist.

1. `PxProgram`, `PxCalls`, `PxActivations` (abstract), `PxCallsRefine`,
   `PxBacktrace`, `MCPxCalls`: procedure calls.
2. `PxCallsProofs`: the invariants of `PxCalls`, for every program.
3. `PcActiveFiles` (abstract), `PcFiles`, `PcFilesRefine`, `PcFilesProofs`, `PcReruns`,
   `MCPcFiles`: the file table and chain.
4. `PcTextFile` (abstract), `PcText`, `PcTextRefine`, `PcTextProofs`: lazy input.
5. `PdxBreakpoints`, `PdxBreakpointsProofs`, `MCPdxBreakpoints`: the event list of `pdx`.
6. `PdxProcess`, `PdxProcessProofs`, `MCPdxProcess`: debugger thread, program thread, the two events,
   setbp and unsetbp and the cache of instruction words.
7. `PxForStatement` (abstract), `PxForLoop`, `PxForRefine`,
   `MCPxForLoop`: for statements.
8. `PiLabels`, `MCPiLabels`: the check of labels and gotos; `PiProofs` for this and step 7.
9. `ExBuffer` (abstract), `ExUndo`, `ExUndoProofs`, `MCExUndo`: undo in `ex`.
10. `PascalSets` (abstract), `PcSets`, `PcSetsProofs`, `MCPcSets`: sets.
11. Left: `PdxFrames`, the debugger's walk of the frames of `PxCalls`; where
    `pdx` finds the next instruction (`nextaddr.c`) against where `interp.c` goes
    and what `put.c` laid out; the comparison of symbols in `pc3`.

## 3. Procedure calls in px

**`PxProgram`** is the Pascal program: blocks with their static nest, which of them
take a procedural parameter, declare a file or a label.  Its assumptions are what
the front end guarantees (`fhdr.c`, `flvalue.c`, `lab.c`): static levels are
consecutive and a name is used only in its scope.

**`PxCalls`** has the interpreter's state.  A block mark is named by its depth in the
stack; names are reused as addresses are.  Actions are opcodes: `Call` (O_CALL and
the callee's O_BEG), `CallFormal` (O_FCALL, O_BEG), `End` (O_END and, behind a
formal call, O_FRTN), `EndProgram`, `Goto` with `Unwind` and `Land` as
the iterations and the exit of O_GOTO's loop, `UseFile` and `UseOutput` (GETNAME and
UNIT as far as this module needs them; `PcFiles` has the rest).  The program is
nondeterministic: at every statement the running block may do anything its scope
allows.

**`PxActivations`** is what Pascal promises, with no display: every activation has
an environment, a procedural parameter carries the one it was made in.
**`PxCallsRefine`** maps the interpreter to it: the environment of a suspended
activation is what the display becomes when the frames above it have given back
what they replaced.

**`PxBacktrace`** is px_backtrace as a recursive function on the state of `PxCalls`.

| run | checks | result |
|---|---|---|
| `calls` | TypeOK, DisplayIsStaticNest, OpenFilesInActiveFrames, CurfileActive, GotoFindsTarget, BacktraceOutsideFormals, GotoEnds, ImplementsActivations | hold, if no goto leaves a routine called as a formal |
| `goto_target` | GotoFindsTarget, with such gotos | violated: "Active frame not found" for a legal goto |

Bounds: the program of `calls` has three levels, a routine with a procedural
parameter, a routine inside it that calls that parameter, files and labels at two
levels; with five frames every pair of (recursion, formal call, goto, file) meets.
`goto_target` uses a deeper nest (four levels, six frames) because
the stale entries must lie below the level of the frame that is looked for.

Fairness: weak fairness of the loop of O_GOTO alone (`GotoLoop`).  The
interpreter does not stop inside an instruction; the program need not go on.

BacktraceOutsideFormals says nothing of a block that was called as a formal: there
the display is the closure's, and px_backtrace, which looks for the caller in it,
leaves callers out (with four levels and seven frames TLC finds one), although
px.1:60 speaks of a backtrace of the active routines.

Gotos out of formals also leave the display with entries of a popped environment
and files of skipped frames on the chain; both follow from the same cause and are
excluded by `GotoOutOfFormals = FALSE` in `calls`.  `StackAboveC` is the result of
GETNAME's address comparison; section 4 has the other case.  `_runtst` is kept
as the code sets it (O_END takes it from the block that ends); no property is
stated about it.

### What is proved

`PxCallsProofs` proves, for every program, number of levels and bound on the
stack, under the two assumptions on constants that the runs make too:

| theorem | property | assumes |
|---|---|---|
| DisplayShowsStaticNest | DisplayIsStaticNest | ~GotoOutOfFormals |
| GotoAlwaysFindsTarget | GotoFindsTarget | ~GotoOutOfFormals |
| OpenFilesAreActive | OpenFilesInActiveFrames | ~GotoOutOfFormals, StackAboveC |
| CurfileIsActive | CurfileActive | ~GotoOutOfFormals, StackAboveC |
| TypeCorrect | TypeOK | ~GotoOutOfFormals |
| BacktraceIsRight | BacktraceOutsideFormals | ~GotoOutOfFormals |
| DisplayGivesEnvironments | ImplementsActivations | ~GotoOutOfFormals, StackAboveC |

DisplayIsStaticNest is not inductive: after a return the display must be right for
the caller, and nothing in it says so while the callee runs.  The invariant
`DisplayInv` adds a witness `h`: `h[i]` is the display of the activation of frame
`i`, the youngest one's is the display itself, and frame `i` gives back `h[i-1]`
(`GiveBack` of its `odisp` and `saved`).  Every `h[i]` shows active frames of the
right blocks.  A call extends `h` by one display, a return or an iteration of O_GOTO
shortens it.  `GoodFormal` says that a procedural parameter carries frames older
than the one it was passed to; `GoodTarget` that between the target of a goto and
the frame it has reached there is no formal call, which is where ~GotoOutOfFormals
is used.  `FilesInv` builds on it: the open files belong to frames that are not yet
left, the current file is one of them, and the file a block mark saves is one of an
older frame, so that it is still open when it comes back.

BacktraceIsRight and DisplayGivesEnvironments are about recursive functions, Walk of
`PxBacktrace` and DisplayAt of `PxCallsRefine`.  Each is shown to be a given function
that satisfies its equation: the place where two such functions first differ does
not exist (WalkIs, SameWalk; the library's induction theorems cannot be used).  Both
walks turn out to go through the displays `h[i]`: the backtrace because a frame
that was not called as a formal gives back one entry, the one px_backtrace undoes
(CallerIs); DisplayAt because it is GiveBack, frame by frame (ExplainsWalk).

The refinement needs two more invariants, in `MapInv`: a closure holds as many entries as
there are levels around its routine (EnvSizes), so that O_FCALL replaces the whole environment; and
while O_GOTO's loop runs, `curfile` is what the last frame it left had saved (GotoFile),
so that the current file is the right one wherever the loop stops.  O_GOTO's
first step is the jump of `PxActivations`; the iterations and the end of the loop are
stutters.  SameWalk gives that a step changes no activation below the frame it enters or leaves
(KeepsActivations).

Only model-checked: GotoEnds (liveness).

## 4. Active files in libpc

**`PcFiles`** has the table `_actfile`, the search position `_filefre`, the chain and
every file record.  A file variable is an address, because the code compares
addresses: GETNAME decides by one comparison with a C local whether a file lives in
a stack frame or not, PCLOSE closes while levels are low enough, DFDISPOSE closes
an interval of addresses.  Memory layout is therefore a constant.  The chain is a
sequence; in the code it runs through the `fchain` fields, and ChainMatchesTable,
ChainSorted and OnlyLiveFiles together say that this is the same: each
record is on it at most once, and is not reused while it is.

Actions: `Reset`, `Rewrite`, `AppendTo`, `DefName` (each the whole of GETNAME and of
its caller, with every error exit: name too long, temporary file cannot be removed,
file cannot be opened, table full), `Enter`, `Leave` (O_BEG, O_END with PCLOSE),
`New`, `Dispose` (DFDISPOSE), `EndProgram` (PCLOSE at the end, PCEXIT).  ERROR and
PERROR do not return; a failing action leaves the state as far as the code got.
A block that is entered finds in its file records either zeros (O_BEG with runtime
tests) or what earlier blocks left there.

Left out: the three standard files (always on the chain's end, never closed), PFLUSH
of a file that is about to be reopened, the ferror branch of PFCLOSE, which ends as
the failing unlink does.  Of a closed record only `fblk` and `fbuf` are kept: GETNAME
makes the rest anew before it is read.

**`PcActiveFiles`** is the promise: a file is active from its opening to the end of
its block or the disposal of its record.  **`PcReruns`** adds runtime errors and the
next run in the same process, as in `pdx`.

| run | checks | result |
|---|---|---|
| `files` | ChainMatchesTable, OnlyLiveFiles, ChainSorted, NoStreamLost, FlushesOpenStreamsInRun, TempsOfActiveFiles, OverflowOnlyWhenFull, ImplementsActiveFiles | hold for a compiled program |
| `file_reruns` | StaysActive over two runs in a process | violated: the stale chain of the first run closes a file of the second |

Bounds: a static file, a record with two files, three nested blocks with one file
each, and three table slots for the five files a program can name, so that the table overflows and
slots are reused out of order.  Two files in one record and one outside are what
the interval search of DFDISPOSE can get wrong; three blocks what PCLOSE can.

OverflowOnlyWhenFull is about the two loops that look for a slot (`ScanFrom`,
`NextSlot`): the first goes on from `_filefre`, so that slots freed behind it are found
by the second only.  When both have run to their end, each slot must belong to a file
of its own that the program can still name; a slot that the end of a block or a
disposal had left taken would show here.

`files` has the layout of a compiled program: the heap below the C stack, with the
frames in the C stack.  Where the frames of `px`, which lie in the heap
(machdep.h:112), are below the C stack, the comparison at GETNAME.c:94 takes their files
for global ones, and they are not closed at block exit (PCLOSE.c:39 "Close all files
associated with the topmost stack frame").  Where the heap is above the C stack
(`CFrame = 10`, `Compiled = FALSE`), it takes files of records for files of a
frame; DFDISPOSE.c:57 looks for them among the global ones only, and OnlyLiveFiles
fails.  After an error in the middle of a reopening the
record still refers to the stream that was closed, and PFLUSH passes it to fflush
on the way out; FlushesOpenStreamsInRun says this never happens before the error.

`PcFilesProofs` proves all of the properties of `files`, the refinement too, for every
number of files, blocks, records and slots.  They need
`StackAboveGlobals` (PcFilesRefine): the frames lie above the C stack, static files and
dynamic records below it, and records, being intervals of addresses, do not overlap.
That is what the comparison at GETNAME.c:94 takes for granted; TLC evaluates it on the
layout of `files` (`CompiledAssumption`).  The argument:

- Levels depend on addresses alone (`FileLevel`), and so does the order of the chain
  (`Before`), which is a strict total order.  `Place` finds the position this order
  gives a new record (PlaceIsInOrder); linking and cutting keep a chain in order
  (InsertInOrder, CutInOrder).
- The loop of PCLOSE stops at the first level above its own.  In a chain that is in
  order this is a prefix (MetByLevel), and with the layout and the accessibility of
  every file on the chain it is the files of the block that ends (MetAtLeave).  What
  DFDISPOSE walks is likewise the files of the record (MetInRecord).
- The inductive invariant `FilesInv` adds to the properties what makes them inductive:
  each record on the chain holds its level; a file that is on the chain is defined or has a
  stream; one that is defined has neither a stream nor a temporary file; TEMP and a generated
  name come together.  Parts of it (the order, the slots, open streams) hold even after an
  error stopped a routine half way; the others (`ListsAgree`) until then.
- A search that ends at MAXFILES has passed no free slot: ScanFacts for each loop,
  NextSlotFacts for the two.  OverflowIsReal adds that the file in a slot points back to
  it, hence is in one slot only and active, hence on the chain and accessible.
- StepKeepsPromise maps each action to the action of PcActiveFiles of the same name,
  the file calls to Open or a stutter, and every error and the end of the program to Halt.

## 5. Reading in libpc

**`PcText`** has one file open for reading: the stream, how much of it was taken, the
window and the flags of `funit`.  `IOSYNC` is an operator from file record to file
record, as every routine calls it first.  `READLN` is its loop, one iteration a
step.  `READ4` pushes a full window back (UNSYNC) and scans blanks and digits as
fscanf does.  `RESET` covers both of its branches, the rewinding of the standard
input and the reopening of another file.

**`PcTextFile`** is the file of the user's manual (section 4, pages PSD:7-26 to 7-28):
what is still to be read, every line ending in a mark that reads as a blank, readln as
"while not eoln do get; get", an integer read that gives zero at the end of the file
where only blanks are left (`ReadBlanks`).  `Rest` in `PcText` computes it from the stream and the
flags.

| run | checks | result |
|---|---|---|
| `text` | FlagsAtEof, NoReadAhead, ReadlnEnds, TellsCurrentLocation, ImplementsTextFile | hold away from the edges below; ImplementsTextFile with one exception |

Bounds: all streams of up to three of blank, newline, digit and other; all three
endings of a file (empty, with and without a newline), lines of length 0 to 2,
blanks before and after numbers occur.  State is a finite automaton over the
stream, so that longer streams repeat these situations.

Fairness: weak fairness of READLN's loop; the library does not stop inside a call.
ReadlnEnds holds because IOSYNC sets EOLN at the end of the stream or ERROR is called.

Two edges are kept out of `text` by constants.  `ResetAnywhere`: RESET rewinds the
standard input without clearing SPEOLN (RESET.c:52; SEEK.c:49 does), and IOSYNC.c:62
then takes the first character for the end of the file, so that after a last line without
newline the rewound input seems empty; with `ResetAnywhere = TRUE` FlagsAtEof fails.
`TellAnywhere`: at the end of the file TELL steps back although the window
holds nothing of the stream, so that a SEEK to its result reads the last component
again, and a SEEK to the end of a file clears EOLN, so that a line is made up
behind its last newline.  `libpc/unixio.i`, the same procedures in Pascal, counts
components and has neither effect.

One step of libpc is not one of the manual's file, and ImplementsTextFile excepts it by name
(`BlanksPastEnd`, PcTextRefine).  The manual says of reading integers: "if there are only
blanks left in the file, it will return a zero value and set the end-of-file
condition" (PSD:7-27); READ4.c:55 calls ERROR.  The run reaches this step, and
with `Lazy!Spec` in place of the property TLC stops at it, for one on a file of
one blank.  The exception is as narrow as the case: an error of READ4 where
anything but blanks is left still violates the property.

### What is proved about reading

`PcTextProofs` proves, for every alphabet and every bound on the length of the
stream, with both edges kept out (~ResetAnywhere, ~TellAnywhere), as in `text`:

| theorem | property |
|---|---|
| FlagsAreTrue | FlagsAtEof |
| NeverReadsAhead | NoReadAhead |
| TellIsCurrent | TellsCurrentLocation |
| TypeCorrect | TypeOK |
| LazyWindowIsTextFile | ImplementsTextFile |

FlagsAtEof is not inductive: an integer read at a pseudo end of line pushes back
the blank in the window, and stays at the end only because that blank is no digit; TELL steps
back behind a full window, and needs a character there.  `TextInv` says both
(WindowAgrees): a full window with SPEOLN shows a blank, a full window with no flag
stands behind at least one character.  SyncWindow shows that IOSYNC keeps this,
and every action but READ4 and the moves is IOSYNC with the window emptied or not.
READ4 rests on RunIsLongest: the run of blanks or digits that fscanf skips
exists and ends where it says, which is a fact about least elements (Smallest).
NeverReadsAhead rests on SyncKeepsRest: IOSYNC leaves `Rest`, what the program has
still to read, as it was in each of its branches.

LazyWindowIsTextFile is the refinement: behind the lazy window the program sees
the file of the manual, but for `BlanksPastEnd` (READ4Fails).  Its invariant, `ShownInv`, adds to TextInv how the flags and
the window show the text of `PcTextFile`: what stands in the window, the blank of an end of
line among it, followed by what the stream still holds, is what that text has left
from its position on; and while READLN skips a line, the end of line
it has just seen is the one that the text shows.  A read of an integer takes from the stream what UNSYNC
pushed back and fscanf ran over, and both are the same piece of the text (RunIsLongest again).

Only model-checked: ReadlnEnds (liveness).

Left out: READ8 and READE (UNSYNC with another scan), I/O errors, numbers out of
range, terminals that go on after an end of file.

## 6. Traces and stops in pdx

**`PdxBreakpoints`** has the list of events that `trace` and `stop` commands make, the
two counters that decide on single stepping, the list of conditions and that of traced
variables, and the active routines with their return addresses.  An event is named
by where it is in memory, the list runs through its `next` fields and `bphead`, and
a freed name is reused, as in the code.

| in the code | in the module |
|---|---|
| traceall, tracedata, stop (`tracestop.c`), delbp as `delete` | `Trace`, `TraceIn`, `TraceCalls`, `TraceVar`, `StopIf`, `StopIn`, `Delete`, at a line or before the program runs |
| run: fixbps and start | `Run` |
| O_CALL, O_FCALL, O_END in nextaddr, endprogram | `Call`, `Return`, `Finish`; calls and returns are chosen freely |
| the loop of bpact, one event an iteration | `Skip`, one action for each type of event in handlebp, `Walked` behind the loop |

One walk is many steps because handlebp adds events at the head of the list and
takes events off it while bpact is in the middle.  The new event at a routine's
entry carries the return address, where it turns off what the entry turned on.
A failure stops the model: mode "panic" is the panic of delcond or the error of
delvar, "freed" the use of an event that was freed.

| run | checks | result |
|---|---|---|
| `breakpoints` | ListIsWhole, ExitsOfActiveRoutines, CountersMatch, TracedInside, TakesOffItsOwn, WalkEnds | hold within the restrictions below |
| `breakpoints_freed` | NothingFreedIsUsed | violated: BLOCK_OFF frees the event that bpact goes on to |

Bounds: seven events of which two are made by commands (one command is not enough
for two events at an address, or for nested routines), calls up to three deep in a
program whose block calls a recursive routine that calls another one.  Commands name those two
routines; TRACE commands take a condition or none, `delete` is used on stops.
`traced` in a frame is not in the code: it remembers that an ALL_ON was met at the
entry of that activation.  Deadlock is not checked because the bounds and the
failures stop the model.

Fairness: weak fairness of `Walk`, as the debugger does not stop inside bpact.  The
program need not go on, and the user need not give a command.

The restrictions keep out what the code does not handle; each was confirmed by
dropping it:

- `StaleCurfunc`: curfunc is set by events only, so that after a traced routine has
  returned it may still name it; `trace x in f` then makes an exit event at a
  return address of another routine, and ExitsOfActiveRoutines fails.
- With mutual recursion the exit events of two routines interleave on the list:
  fixbps of the next run can then panic in delcond, and TracedInside fails.  The
  program of the runs has direct recursion only.  Activations of a routine that
  return to the same address share their exit events, which all fire at the
  innermost return; TracedInside is therefore about the first activation.
- Deleting an ALL_ON or STOP_ON whose routine is not active decrements a counter
  that was not incremented (`bp.c` 125-135), and it wraps to 65535.
- `LateConds`: in delcond (`trcond.c` 74, 84-89) and delvar (`trinfo.c` 110-122)
  `last` stays NIL, so that taking out an entry which is not the newest makes the
  list begin behind it and drops every newer one.  A condition that is given while
  older ones are in force is newer than its routine allows, and TakesOffItsOwn
  fails.

Left out: events that only print or stop at a line (INST, AT_BP), `tracei` with its
own counter, `stop` on a change of a variable (STOP_OFF never takes the variable off
again, `bpact.c` 208-213), gotos out of a traced routine, which leave its exit events, and
what printnews and status print.  trace and stop conditions that delbp frees
are values here, so that their reuse is not seen.

### What is proved about breakpoints

`PdxBreakpointsProofs` proves, for every set of routines and conditions, every choice of
who calls whom, every depth of calls and every bound on events:

| theorem | property | where |
|---|---|---|
| ListStaysWhole | ListIsWhole | no CALL event is deleted |
| ExitsBelongToActive | ExitsOfActiveRoutines | that, and not StaleCurfunc |
| CountersCount | CountersMatch without its last conjunct | nothing is deleted that is counted, fewer than 65535 events |
| TracedWhileInside | TracedInside | that, and no mutual recursion |
| CountersAreRight | CountersMatch | that, not StaleCurfunc, not LateConds |
| OffTakesItsOwn | TakesOffItsOwn | no mutual recursion, no event deleted that turns something off, not StaleCurfunc, not LateConds |

The hypotheses are the restrictions above, made precise, and each theorem has only those
it needs.  A CALL event may not be deleted because BLOCK_OFF frees it by its old pointer.
The events that may be deleted where counters matter (`SafeToDelete`) are TERM_ON, BLOCK_ON
and STOP_BP, none of which is counted while it is on the list by itself.  The counters are unsigned
short, so they are exact while there are fewer events than they can count.
`NoMutualRecursion` says that the routines can be ranked so that each calls only itself and
higher ones; recursion of a routine on itself is allowed.  bpact knows an
activation by its return address alone, and two activations that return to one
address, with another routine between them, are what breaks the order of the exit events.
All theorems speak of states up to the use of a freed event (mode "freed",
`breakpoints_freed`), where the model stops.  MaxEvents is at once the bound on the
model and the hypothesis: `Room` admits a step only when what the walk may add fits.

The invariants, each resting on those above it as far as it needs:

- `ListInv`: there is an order s of the events such that `bphead` is the first and
  `next` of each the following one (Linked).  In the middle of a walk p is at some place of it and
  prev directly in front, and what the events ahead may add still fits (Budget).  AddedLinked
  and UnlinkLinked are about an event more at the head and one less anywhere; SaveWalks
  and NoSaveWalks about the two ways bpact goes on, with the event kept, after up to two
  new ones have come in front of the list, and with the event gone.
- `ExitInv`: an event for the end of an activation names an active one, or, in
  the middle of the walk at a return address, is still ahead in this very walk.
- `CountInv`: tracing and var_tracing against the number of events that count them down.
- `StackInv`: a return address is that of its caller and routine, and calls go up in rank;
  so the activations of a routine are next to each other on the stack.
- `TraceInv`: for the first activation of a routine that is traced, an ALL_OFF waits at
  its return address.
- `OrderInv`: of two events that turn something off, the one in front belongs to an
  activation that returns no later than the other's; during a walk, those that are still to
  be met at the address reached have only such events in front.
- `RowInv`: the first entries of `cond_list` and of `trinfo`, which are the newest, are
  those of the events that will take them off, in the order of the list; behind them
  are the conditions that nothing takes off.  That is why `last`
  staying NIL (`trcond.c` 84) does no harm: what is taken off is always the newest.  At
  the start of a run fixbps takes all of them off in this order and finds each (NoneMissing),
  an argument by the least place at which something is missing.

Only model-checked: WalkEnds (liveness).  NothingFreedIsUsed is false.

## 7. Process control in pdx

**`PdxProcess`** has the two threads of the Windows port: the interpreter with the
program in it, and the debugger.  `sevent` and `tevent` are the events of `ptrace.c`;
an event is reset when the thread that waits for it is released.  Each action is
what a thread does between two points at which the other could look: the
interpreter's are one instruction, one trap, or a part of its start and its end; the
debugger's are one wait, one event of setallbps or unsetallbps, one call of bpact.

| in the code | in the module |
|---|---|
| pxthread, pxhalt, pxtrap (`ptrace.c` 91-180) | `Entry`, `Load`, `Released`, `End` |
| O_BPT, ERROR, O_HALT, other instructions | `Trap`, `Fail`, `End`, `Exec` |
| pstart, start (`start.c` 82-114) | `Kill`, `Killed`, `Create`, `Started`, `Loaded` |
| fetch, store, pio, and the cache of words | `fetch`, `iwrite`, `word` |
| setbp, unsetbp and the list of saved half-words | `setbp`, `unsetbp`, `savelist` |
| cont's loop, stepto, dostep, endprogram, printstatus | `Loop` to `Stepped` |
| run, restart, cont, step, stop, trace, delete | `Run`, `Cont`, `Step`, `AddEvent`, `TraceAll`, `Delete` |

| run | checks | result |
|---|---|---|
| `process` | TakesTurns, CodeClean, CacheCoherent, BreakpointsInPlace, PcAgrees, PromptComes | hold, if a program that has ended is not run again |

Bounds: four instructions in two words, of which one branches, one may fail and one
calls halt, so that two breakpoints can share a word and a step can go to either
side; two places to load the program to, whose words share lines of the cache;
one event of the user beside the one at the end of the program; three starts.
The program has no loop, which PromptComes needs.

Fairness: weak fairness of each thread, which the system schedules.  The user need
not give a command.

`RerunHalted = FALSE` keeps out one case: a program that calls halt ends with the
breakpoints in its code, pio refuses unsetbp ("program is not active",
`ptrace.c` 264), and the entries of the saved half-words stay.  In the next run setbp
(`setbp.c` 93) finds its places on the list, counts a reference and sets nothing:
the program runs through its stops.  With `RerunHalted = TRUE` TLC finds
BreakpointsInPlace, CodeClean and CacheCoherent violated; pdx.1:203 says "Stop execution when
the given line is reached".

Some things the code does that no property is against: after a runtime error the
program counter shown is that of the last breakpoint (`interp.c` 374-386), which is
why PcAgrees speaks of breakpoints; `restart` and then `cont` leaves `isstopped` set;
the call of quit for a finished program in printstatus is never reached, as unsetbp
reports its error before; `trace` before the first instruction after `restart` makes
cont report a status, because the signal is still the one of the start.

### What is proved about process control

`PdxProcessProofs` proves, for every program, every layout of its words and every set
of places the user asks for:

| theorem | property | with RerunHalted |
|---|---|---|
| TakesTurnsAlways | TakesTurns | either |
| PcAgreesAlways | PcAgrees | either |
| CodeCleanAlways | CodeClean | FALSE |
| CacheCoherentAlways | CacheCoherent | FALSE |
| BreakpointsInPlaceAlways | BreakpointsInPlace | FALSE |
| UnsetbpFindsAlways | unsetbp finds the entry it looks for | FALSE |

The invariant for the first two, `IInv`, is about the handshake: for each place of the
debugger and each of the program, which event is set and which thread waits
(Handshake, Loading, Signalled), where the program counter is (Located), and what the
debugger aims at while it steps (Aimed).  No fairness is needed.

`Clean` is the invariant for the others.  Each place has a count of the events that
hold it at that point of setallbps, unsetallbps or stepto; the list of saved half-words has
one entry for each place that is held, with that count as its reference count, and the code
has a breakpoint at exactly those places (`Good`).  This is inductive only with two facts a
reader of the code may not expect.  The event at the end of the program is the one that
fixbps keeps, so there is exactly one.  And a line of the cache is coherent only
because each word has one line (its hash slot), and a word cached for an earlier run, loaded
elsewhere, is as it was made: a store to the program writes the word it has just
fetched through that line.  SetbpKeeps, UnsetbpKeeps and the lemmas on fetch and iwrite
carry `Good` through each call; UnsetbpFindsAlways is what UnsetbpKeeps needs.

Only model-checked: PromptComes (liveness).

Left out: `next` and `call`, programs that are compiled anew between runs,
interrupts, the BSD port, and where an instruction goes (nextaddr is given the
program's choice; see the plan).  The events are those of section 6 reduced to
stops and traces at a place.

## 8. For statements

**`PxForStatement`** is the for statement of the standard, as `forop.c` 52-79 quotes
it.  **`PxForLoop`** is the code that forop makes and the O_FOR opcodes: `temp1` and
`temp2` hold the two expressions as longs; `shadow` is the copy of the control
variable that the loop counts with, as wide as the type; `var` is the control
variable.  The option t decides whether final and initial value are checked against
the type.  `Threaten` is a routine, called from the body, that assigns to the
control variable.  **`PxForRefine`** maps one to the other.

| run | checks | result |
|---|---|---|
| `for_loops` | ImplementsForStatement, LoopEnds | hold |

Bounds: widths of two and four bits, longs of four; every subrange of either width,
both directions, both settings of the option, all pairs of values.  Real widths
differ from these in size only.  Fairness: weak fairness of `Run`: `px` does not stop
between instructions, and each run of the body ends.

What is not promised: with the option t off, a loop whose values are outside the
type does anything (the abstract state is "undefined"); LoopEnds is about limits
that the width can hold, since one that it cannot hold is never equal to the shadow and
the loop does not end.

`PiProofs` proves ImplementsForStatement for every set of widths.  The
invariant is that from the first store on the shadow lies between initial and final value
and both are in the type, so that a step never leaves the width
(StepsBetween); each opcode is then a step of the standard or a stutter
(StepImplements).  LoopEnds, a liveness property, is only model-checked.

## 9. Labels and gotos

The compiler makes one pass and must report gotos into structured statements.  It
keeps a single number for each label (NL_GOLEV): the level of the label while
its statement is open, DEAD afterwards, and before the label is met the least level
since its first goto.  **`PiLabels`** has that number, the nesting level and the list of
labels; ungoto adjusts the list at the end of each structured statement.  The module
also remembers where labels and gotos stand, and the properties compare the errors
with these places.

| run | checks | result |
|---|---|---|
| `labels` | GotosAreLegal, LegalGotosPass | hold for a block with one label part |

Bounds: two labels, two gotos, four structured statements up to three deep, with
the parts of ifs and the arms of cases: enough for a goto and its label in two
statements side by side, one inside the other, and in both parts of an if.
Deadlock is not checked, since the end of the block is the end.

With a second label part, which standard Pascal does not have and the
compiler accepts with a warning, `lab.c` 131 starts the list anew and ungoto no
longer reaches the labels of the first part; with `OneLabelPart = FALSE` TLC finds
GotosAreLegal violated.  Gotos from a nested routine are not checked
(`lab.c` 238), and `0.h` 651-675 speaks of one block only.

`PiProofs` proves both properties for every number of labels, statements and
levels.  `LabelInv` says what the number means: for a label that is still to
come, how many statements the first goto to it and the present statement have
in common; for a label that has been met, its level if all statements around it
are open, and DEAD otherwise.  MovedLabel shows that ungoto keeps this when
statements are closed.

## 10. Sets

**`PascalSets`** is set theory: operands are sets, a constructor is the union of its
ranges, and a bound outside the base type is an error, even in a range that is
empty.  **`PcSets`** has sets as arrays of longs.  A constructor goes one of three
ways, by the elements the compiler can evaluate: a constant (`ConstantSet`, postcset
of `cset.c`), CTTOT at run time (`Construct`), or for `x in [...]` no set at all:
`MemberOf` is INCT in a compiled program, and `InctUsed` the error that px has for its
opcode.  Which of the two runs the program is chosen at the beginning (`interpreted`); all
the rest is the same, px's opcodes calling the routines that compiled code calls.
`Refuse` is the compiler's error for a constant out of bounds, which is met only
before the first element that is not constant and not at all in a set of integers
whose type was guessed.  Operators and comparisons work on longs,
equality, membership and card on bytes.

A long is modelled as the set of its bits, in the numbering of the elements.  Both halves
of the table of masks, for either order of bytes, are that numbering.  `long` is taken to have 32 bits, as
the tables and LG2BITSLONG are; BitsPerLong is a constant.

| run | checks | result |
|---|---|---|
| `sets` | ImplementsSets | holds with one exception |

Bounds: a base type of nine values from -2 in three longs of two bytes of two bits,
ints of five bits, so that ranges end before, at and behind each border of
bytes, longs and type, and differences wrap.  On the left all constructors of one
element and those of a range and a value at the borders, on the right those of one
element.

The exception is `InctUsed`.  In `px` O_INCT is ERROR("-- INCT used --") (`interp.c`
1522-1535, marked FIXME), while `px/interp.txt` 116 describes it as "Membership in a
constructed set": any `x in [...]` with an element that pi cannot evaluate stops an interpreted
program.  ImplementsSets names this step as the only one that is none of set theory; the
run reaches it, and with `Sets!Spec` alone TLC stops at it.
INCT in a compiled program checks no bounds, and the abstract module allows both outcomes.

`PcSetsProofs` proves ImplementsSets (SetExpressionsAreRight) for every size of bytes, longs
and ints and every base type, and for compiled programs `Sets!Spec` itself
(CompiledSetsAreRight): they never take the excepted step.  RangeIsRange and SingleIsSingle say which
bits a range and a value set; ElementOf and ByteOf, which element a bit is, by longs and
by bytes; from them CollectIsUnion, and one lemma for each operator.  DistanceOf is about
wrapping: an element outside the type has a distance, as an int, that is outside too.
CardIsCardinality is about the loop of CARD: after k bytes it has counted the elements
that these hold, and no byte has a bit behind the last element (ByteWithin), which is so because
constructors never set one (`Rep`).  The step from one byte to the next is ByteCounts
and LowStep; that the loop agrees with it up to the last byte is shown by the least
place where it would not (Counting).

## 11. Undo in ex

**`ExBuffer`** is the promise: undo brings back the text from before the last command
and is its own inverse; a global command is one command; put brings what delete,
change or yank took.  **`ExUndo`** has the array of lines with `dol`, and
`undkind`, `unddel`, `undap1`, `undap2`.  The saved lines stand in the array behind
the text.

| in the code | in the module |
|---|---|
| append, read, and put from a named buffer | `AppendLines` |
| insert, delete | `Insert`, `Delete` |
| change, join, the filter | `Change` |
| substitute, shift | `Substitute` |
| move, copy, put, yank | `Move`, `Copy`, `put`, `yank` |
| global, and the commands in it | `GlobalBegins`, `GlobalEnds`, any command while `inglobal` |
| undo, and its refusal | `Undo`, `SomeChange` |

`before` is not in the code; it remembers the text that undo must bring back.

| run | checks | result |
|---|---|---|
| `ex_undo` | ImplementsBuffer, UndoIsOffered | hold |

Bounds: up to four lines of two texts, commands that bring up to two lines.  Undo
exchanges two neighbouring pieces of the array and shifts one of its line numbers
by the length of the other; four lines have pieces of every relative length and
order.  The state space is the same for any sequence of commands.

### What is proved about undo

`ExUndoProofs` proves, for every set of lines, every bound on the text and on what a
command brings:

| theorem | property |
|---|---|
| UndoIsBuffer | ImplementsBuffer |
| UndoAlwaysOffered | UndoIsOffered |

The invariant, `UndoInv`, says what the array, the marks and `undkind` mean together.

- In a global command the saved lines are the text before it, and undkind is "all".
- After a move the text is two neighbouring pieces exchanged; undap1, undap2 and unddel
  say which.
- Otherwise the text is A, N, Z, one after the other, where N are the lines the command brought
  (undap1 to undap2), and A with Z is what is left of the old text.  The saved
  lines belong behind the line that unddel names, which is counted in the text as it
  is and so is shifted past N where N comes first.  Put gives nothing back,
  and after a global A and Z are empty.

Every command is given by what it does to these pieces (one lemma for each of replace,
copy, move, put, yank and undo), and the step then maps to `ExBuffer`'s or is a
stutter.  Undo and move work with three reversals of the array; ExchangePieces says that
these exchange two neighbouring pieces.

Left out: macros in command mode (`ex_cmdsub.c` 1303 sets
`inglobal` without saving the text, although READ_ME:679 promises that a macro is
undone as a unit), errors for want of room in the middle of a command, `u!`, marks and
the current line, named buffers, and open and visual mode.

## 12. Not modelled

- The frames of `pdx` and its decoding of instructions: next in the plan.
- The rest of the front end, one sequential pass: it appears as the assumptions of
  `PxProgram`.
- Other opcodes of `px`, ranges, packing and arithmetic of `libpc`: a few lines each
  without state, where a reference definition would be the same formula again.
- `libpc` output and heap: calls of stdio and malloc with a counter or two bounds.
- Compiled calls (`FCALL`, `FRTN`, `FSAV`): what section 3 models, with frames that a
  C compiler and assembly outside the repository make.
- Everything in the last row of the inventory is I/O, build tooling, tests or
  third-party code.

Out of the prover's reach, and left to TLC: liveness and ENABLED, that is GotoEnds,
ReadlnEnds, WalkEnds, PromptComes and LoopEnds.  What a recursive function computes is
proved by a least counterexample, since induction takes an operator as a parameter.

## 13. Running

    tlc -config MCPxCalls.cfg MCPxCalls.tla
    tlc -workers 2 -config MCPdxProcess.cfg MCPdxProcess.tla
    tlapm PxCallsProofs.tla

The modules with theorems are `PxCallsProofs`, `PcTextProofs`, `PcFilesProofs`,
`PcSetsProofs`, `PdxBreakpointsProofs` (about ten minutes), `PdxProcessProofs`, `PiProofs`
and `ExUndoProofs`.  `PROJECT.json` lists for each run its module and
configuration, and for each property a mutant: a definition and the faulty form of it
under which TLC finds the property violated.  The faulty forms stand next to the
definitions, marked "Faulty" or "broken on purpose"; no action uses them.
