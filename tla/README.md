# Checkpoint creation and restoration: TLA+ models

The repository creates checkpoints of slices of RISC-V programs with a modified
gem5 (`src/createCkpt`) and re-executes them later on a simulator, an FPGA or a
plain Linux system with a small loader (`src/restoreCkpt`). A checkpoint is not
a memory image. It holds the registers at the start of the slice, the address
ranges of its code and data, the *first loads* (bytes that are read before they
are written), the system calls with their effects, and one *exit instruction*
at which the loader stops the slice. This directory models the repository's own
code on that path; the vendored gem5, riscv-pk, BOOM, rocket-chip and FastLZ are
modelled only through the calls that the repository's code makes.

## Inventory

| Component | State | Operations | Interaction | What makes it correct |
|---|---|---|---|---|
| Settings (`sim/ckpt_collect.cc`) | sorted list of control entries | `init_ckpt_settings` | read once, then walked by `isCkptStart` | entries are met in order, none is skipped |
| Recorder control (`cpu/simple/atomic.cc` `tick`, `sim/ckpt_collect.cc`, `sim/ckptinfo.cc`) | instruction count, open checkpoints, `preinsts` | execute a micro-op, execute an ecall, open, close, program exit | drives every recorder below on every tick | each slice starts and ends where it should; the exit instruction is usable; no checkpoint is lost |
| First-load recorder (`addAddrInfo`, `addload`, `addstore`) | flagged bytes, recorded bytes | load, store, AMO, LR, SC, system call write | called by `readMem`, `writeMem`, `amoMem` | what the slice reads first is recorded with its initial value |
| System call recorder and table (`syscall_desc.cc`, `se_workload.cc`, `saveSysInfo`) | recorded calls, table, offsets | enter, execute, return, the loops of `saveSysInfo` | the loader reads it by index and offset | every call gets back its own effects |
| First-load file (`combine_loads`, `saveFLoads_comp`, `recovery_fastlz`) | words, windows, chunks | combine, save, restore | recorder to loader | recorded bytes survive the round trip |
| Address ranges (`detectOver`, `getRange`; `loadelf`, `alloc_memrange`) | blocks, ranges, mappings | build, trim, map | recorder to loader | everything touched is mapped, code is not wiped |
| Loader: takeover (`takeover_syscall.cpp`, `ckpt_load.cpp`, `user_jmp.cpp`) | overwritten instructions, calls served, trampolines | start, run, serve a call, exit | runs inside the guest's address space | the replay repeats the slice and stops at its end |
| Loader: jump planning (`getRangeInfo`, `findMidPoints`) | gaps, gap cursor, midpoints | collect gaps, found, skip, give up | feeds the takeover | jumps land, trampolines do not collide |
| Re-creation (`tick` in readckpt mode, `ckpt_insert_syscall`, `initCkptSysInfo`) | count of program micro-ops, calls taken from the table, code page map | program micro-op, loader micro-op | the simulator watches the loader replay a checkpoint and makes new ones | each new checkpoint has exactly the calls of its slice |
| ChampSim traces (`sim/trace_collect.cc`) | count, current interval, open file | `record_traces` on every micro-op, `exit(0)` at the end | shares `tick` with the checkpoints | one complete file per interval |
| `readckpt` with hardware support (`ckptinfo/readckpt`, `fpga_support/boom_scala/exu`) | special registers of the core, pipeline, saved register files | clock cycle of a pipeline stage, divert, trap, return | the core interrupts the slice and the loader at any instruction | a sample comes on time and is invisible to the slice |
| Tools, scripts, vendored sources | | | | not modelled, see the end |

There is no concurrency between threads in this code. What is hard is the
interleaving of several *open checkpoints* in one run, that of the core's
sampling with the instructions in its pipeline, the order of recording
against faults and system calls, and the agreement of two separately written
programs (recorder and loader) on computed offsets, addresses and jump
distances. `PROJECT.json` lists these hazards line by line.

## Modules

| Module | Models | State and actions |
|---|---|---|
| `CkptSettings` | `init_ckpt_settings` | pure: lines of the settings file to the sorted entry list, start wrapping at the integer width |
| `CkptCollect` | `tick` and the checkpoint list | `ExecInst` is the NoFault branch of `tick` for one micro-op, in the code's order: `ckpt_addinst`, `isCkptStart`/`addCkpt`, the exit test and `ckpt_detectOver`, the insertion into `preinsts`, `countInst`. `ExecEcall` and `ProgramExit` are the two ends of a system call |
| `FirstLoads` | byte flags and first loads | one action per kind of access; a fault-and-retry is part of the access. `mem0`, `written`, `needed` are history that says what a replay would need |
| `FLoadFile` | first loads through the file | one step per byte combined, window saved, window restored |
| `SysTable` | recording and saving system calls | `RecordCall` is a whole call with its hooks; every loop iteration of `saveSysInfo` is a step, with the file position and the offset as separate variables |
| `Replay` | recorder, table and loader composed | extends `SysTable`: `RecordInst`, `RecordSyscall`, `CloseSlice`, `SaveSlice`, `read_ckptinfo`, `RunInst`, `takeoverSyscall` |
| `SliceReplay` | the promise of a checkpoint | the recorded events are executed again in order, with the recorded effects, and the replay finishes |
| `Ranges` | range construction and mapping | one step per iteration of `getRange`, of the trim loop and of `alloc_memrange`; `isCkptInst` is the simulator's test for program code |
| `JmpPlan` | `getRangeInfo`, `findMidPoints` and `createJAL` | one step per iteration of the loops, real addresses and the real `jal` encoding |
| `TraceRec` | the trace recorder | `record_traces` for one micro-op with the files it opens, writes and closes; a record is its number and address |
| `Recreate` | readckpt mode of `tick`, composed with `TraceRec` | `BenchInst` is `tick` for a program micro-op, `LoaderInst` for one of the loader, `TraceExit` the tracer's `exit(0)` in the middle of `tick` |
| `Sampling` | the loader `readckpt` on the extended BOOM core | the loader's routines are instruction sequences; `Decode`, `Dispatch`, `Execute`, `Commit`, `Throw` move one instruction through a stage in a clock cycle; `Return`, `Divert`, `Trap` are the cycle after a flush |
| `CkptCollectProofs`, `FirstLoadsProofs`, `FLoadFileProofs`, `ReplayProofs`, `RangesProofs`, `JmpPlanProofs`, `RecreateProofs`, `SamplingProofs` | | theorems about the module of that name; `ReplayProofs` also holds those about `SysTable`, which `Replay` extends |
| `MC...` | | instances for TLC |

### Abstractions

* Programs are arbitrary: any instruction may follow any other, except that a
  system call returns to the instruction behind it. `Replay` adds that the
  program is deterministic, as a slice whose inputs are restored is.
* `isCompressed` is a member that no constructor sets, and the assignment in
  `Decoder::decode` is compiled out because `Support_ReadCkpt_TempRegs` is
  defined. `CkptCollect` and `Recreate` draw its value per instruction, once.
* Byte values, call numbers, arguments and data are members of small sets.
  Registers other than a0 are part of the deterministic program.
* In `Recreate` the loader is one address, and its micro-ops are any number; the
  program makes the calls of the table in their order, which is what the table
  was recorded from.
* In `Sampling` the slice is a straight line in which instruction k computes
  the value k, so that every register content tells which instruction it should
  come from. The core is one instruction wide. Stages that move in one cycle read
  only what the previous cycle left, so moving them one after the other, with
  stalls anywhere, loses no behaviour. Branches of the slice and mispredictions
  are left out.
* Compression is lossless. Printing and statistics are left out.

## Runs

| Run | Result | Question |
|---|---|---|
| `exit` | holds | With three overlapping and nested checkpoints, a two-byte instruction, an instruction of two micro-ops and system calls anywhere, with and without `strictLength`: is each exit instruction new in its slice since the last call and inside the recorded code, is the next control entry never behind the program, is no checkpoint lost, and with `strictLength`, does each have exactly its length (or, nested in an older one, end with it) and are all created? |
| `compressed_exit` | violated | Is the exit instruction always a four-byte one? |
| `slice_memory` | holds | After any sequence of loads, stores, AMOs, LR/SC and system call writes of one and two bytes around a block and page boundary: are the first loads complete, and is each recorded once? |
| `block_crossing` | violated | The same for a store across a block boundary |
| `first_load_file` | holds | Do all choices of recorded bytes survive the file, and does the buffer suffice? |
| `replay` | holds | Does recording, saving and replaying implement `SliceReplay`, does the table return every effect without duplicates, and does the replay end at the exit instruction? |
| `ranges` | holds | Is everything mapped that is touched, does the code survive, are the ranges sorted, and does a re-creation take exactly the executed pages for the program? |
| `jump_plan` | holds | Do all jumps land, do trampolines stay in gaps and apart, and does the loader give up only if it must? |
| `recreate` | holds | With overlapping new checkpoints and consecutive traces: does each checkpoint get exactly the calls of its slice and an exit instruction that is new in it, does the table never run out, and has each trace the micro-ops of its interval from the first on, without gaps or foreign records, and is it never written after it was closed? |
| `trace_length` | violated | Does a finished trace have as many records as its `tracectrl` line asks for? |
| `sampling` | holds | Is a sample invisible to the slice wherever it strikes, does it come on time and once, do the counters hold the sampled window, and does the replay end? |
| `overflow_trap` | violated | Does the overflow exception never reach the kernel? |

### What the violated runs show

* `compressed_exit`: since `isCompressed` is not set, a two-byte instruction may
  be chosen, and the loader overwrites it and half of its successor.
* `block_crossing`: the loop over the second block of a split access runs to
  `len1` instead of `len2` (`ckptinfo.cc:50`). Bytes that were not accessed are
  flagged, and their first load is lost.
* `trace_length`: `need_record` closes a file when the count reaches `end-1`, before
  that micro-op is recorded (`trace_collect.cc:249`). A trace of length n has n-1
  records, although the second number of `tracectrl` is the number of
  instructions to record (`README_Support_ChampSim_Trace.md:13-14`) and the file
  is named `_len_n`.
* `overflow_trap`: decode marks instructions with the overflow cause while
  `overflow_event` holds, and the core keeps the exception from the kernel only
  if `overflow_event` still holds when it commits. Between the two,
  `takeoverSyscall` may clear `procTag`; the exception then goes to the kernel
  with a cause that it does not know. The comment at `core.scala:1292` says that
  it does not. The run `sampling` contains these behaviours too (`killed`); its
  properties speak about the others.

### Conditions under which the passing runs hold

The models contain the following cases; the instances above leave them out
because the property is false for them. Most are also listed as hazards.

* `exit`: two control entries with the same start. `isCkptStart` compares the
  count for equality with the next entry only, so the second never matches and
  blocks all later ones, although the settings may have several `ckptctrl` lines.
* `slice_memory`: an access that crosses a block (`block_crossing`) or a cache
  line (`readMem` hands `ckpt_addload` the data pointer of the second fragment
  with the address of the whole access), a store-conditional that fails on bytes
  the slice never accessed (`ScUnpaired`), and an atomic on an untouched
  file-backed page (`FileBacked`).
* `recreate`: trace intervals that overlap. `logfp` is not reset when a file is
  closed, and a later interval's records would go to it.
* `sampling`: `initCode` has the instructions that set the core's registers one
  behind the other. The `mv t0` between them and `Set_EventSel` (`define.h:97-116`)
  are left out: they are counted from `Set_ProcTag` on, so for a run
  length of 1 with a warm-up the limit can be reached before `Set_WarmupInsts`
  has executed. Run lengths in use are many thousands of instructions.
* `sampling`: `CountersHoldWindow` needs a warm-up. Without one, the counters also
  hold the loader's instructions behind `init_start`. A sample counts the
  loader's own tagged instructions around system calls as events.
* `replay`: a blocking call that is retried. It is recorded as a call that
  returned 0. And checkpoints made with `strictLength`, which are not part of
  `Replay`: they have no exit instruction (`createCkpt/README.md:24`) and are meant
  for a loader that stops after a number of instructions, which `newreadckpt` does
  not (`restoreCkpt/README.md:35`). It would plan a jump for address 0 and, after
  the last call, store it there.
* `ranges`: data below the first executed code page, which `detectOver` removes
  from the memory ranges and `loadelf` does not map; slices that access no
  memory; code that ends above 2 GB (`textend` is an `int`).
* `jump_plan`: code ranges more than 2 GB apart (`dis` is an `int`), and data
  that the slice reads from a gap, which the planner takes for free memory.

### Bounds

* `exit`: three checkpoints (starts 0, 1, 3; lengths 4, 1, 2), so that two and
  three are open at once and one is nested; the count saturates at 6, behind
  the last end. A page of 8 bytes makes instruction 6 reach into the next page.
* `slice_memory`: two bytes on each side of a boundary, values 0 and 1; no bound
  on the number of accesses.
* `first_load_file`: every set of bytes at 1..10 with values 0 and 1, words of
  two bytes and windows of three words: enough for words that straddle two
  slots, for overlapping windows, and for chunks of more than one window.
* `replay`: slices of up to five events with up to three calls out of eleven
  that differ in one field each; one trampoline shared by all addresses, the
  hardest case for the return jump.
* `ranges`: pages of two bytes, blocks of two pages, addresses below 16, up to
  four code addresses, two data bytes, a first-load word and a buffer.
* `recreate`: a table of three calls from two ecalls, three checkpoints (starts
  1, 2, 6; lengths 3, 1, 4) of which two overlap and one is nested, traces of
  which two are consecutive and one follows after a gap; 13 program micro-ops,
  enough to reach the exit instruction, the end of all checkpoints and the end
  of all traces, each first in some behaviour.
* `sampling`: eight instructions with calls at the second and the fourth, so that
  a sample falls before, in and behind `takeoverSyscall` for run lengths 1 to 6
  and warm-ups 0 to 2; a reorder buffer of two entries and one interrupt.
* `jump_plan`: up to six code ranges within about 2 MB, pairs of addresses at
  offsets where the distance is just inside or outside the reach of `jal`.

Runs disable the deadlock check where the modelled program ends (the simulator
calls `exit(0)`, the loader finishes). `slice_memory` never stops and checks it.

### Fairness

`FairSpec` of `CkptCollect` assumes weak fairness of instruction execution: the
simulator reschedules its tick event for ever, and a program executes ordinary
instructions between system calls. `SliceSpec` assumes weak fairness of saving
and of the loader, which are sequential programs that nothing can delay. The
recorded program itself is under no fairness: recording may go on for ever.
`Sampling` assumes weak fairness of the next-state relation, which is the clock:
a stall that changes nothing is a stutter, so some stage moves sooner or later.
No particular stage is favoured.

`AllCkptsCreated` is stated for `strictLength` only. Without it a slice may run
in a loop in which every instruction has been seen, and has no exit.

## Theorems

Checked by TLAPS for every value of the constants that the named assumptions
allow: every program, entry list, table and length of run. Hypotheses that are not
assumptions of a module are part of the theorem; each is a case listed under
"Conditions" above, and the constants of the passing run satisfy it.

### Recorder control (`CkptCollectProofs`)

* `TypeCorrect`: `Spec => []TypeOK`.
* `ExitFirst`: `Spec => []ExitFirstAfterLastSyscall`. The property is not
  inductive. All open checkpoints share one `preinsts`, and the strengthening
  `PreinstsCover` says why that works: while the simulator runs, what any open
  slice has executed since its last call and could have been an exit
  instruction is in `preinsts`. Opening keeps it because a new slice is empty,
  an ecall because it empties both sides, an instruction because an open slice
  makes `tick` insert it.
* `EntryCorrect` and `NothingLost`: `Spec => []NoCkptLost`, with `EntryInv`: every
  object stands for its control entry, and `exit(0)` is called with an empty list.
* `NeverBehind`: `DistinctStarts /\ Spec => []NextCtrlAhead`.
* `ExitCode`: `Spec => []ExitCodeRecorded`. `addinst` records the page of every
  instruction and the next page if the instruction may reach into it; the proof
  needs pages of at least four bytes, which `BoundAssumption` states.
* `StrictExact`: `Spec => []StrictLengthExact`. The strengthening `NeverOverdue`
  says that an open checkpoint is never overdue unless it is nested in an older
  one: only the oldest is asked whether it is due, but at the end of one that is not
  nested the oldest is due as well.

### First loads (`FirstLoadsProofs`)

* `Complete` and `Unique`, under `Tame` (no access crosses a
  line or block, no file-backed page, no unpaired failing SC). The inductive
  invariant `SliceInv` says that a flagged byte was read first or written, that
  bytes not written still have their initial value, that a byte read first is
  recorded with it, and that untouched pages are zero. Bytes written by system
  calls are not flagged, so they may be recorded later with a new value; that is
  harmless because they are not needed.

### First-load file (`FLoadFileProofs`)

* `BytesSurvive`: `Spec => []BytesRestored`, under `FileAssumption` only (a window
  is a whole number of words). The property speaks about the end; the invariant
  `IInv` follows the bytes through the three programs. `CombineInv`: the words
  do not overlap, and every byte visited by `combine_loads` is in a finished word,
  was in a word of zeros that was dropped, or is in the word being filled.
  `SaveInv`: the chunks written and the one being collected hold the words
  in front of word `i` (`Holds`), each window taking up at the word where the one
  in front of it ends, and the last word closes the last chunk. `LoadInv`: for some m the
  loader's memory holds words 1 to m and zeros elsewhere, and the rest of the file
  holds the others. `WindowRestored` is the step that overlapping windows make hard:
  a window may overwrite bytes of an earlier window, but only bytes that lie behind
  the words of that window and are zero.
* `BufferSuffices`: `Spec => []BufferFits`. A chunk that is not closed is
  shorter than `MaxCompressSize`.

### System call table (`ReplayProofs`)

* `FileRoundTrip`: `NoRetry /\ Spec => []RoundTrip`. `NoRetry` excludes calls that
  block and are retried.
* `TableMinimal`: `Spec => []NoDuplicates`.
* `TypeCorrect`: `Spec => []TypeOK`.
* All three follow from `SectionCorrect`: `Spec => []SectionInv`, one invariant
  about every iteration of `saveSysInfo`. `RecordInv` relates what was recorded to
  the calls; `ScanInv` says of the scanning loop that entries are pairwise
  different and that every call scanned so far has its entry; `FileInv` says that
  the entries written so far hold offsets that are the sums of the sizes before
  them (`PlainEntries` for entries without data, which come first, `DataEntries`
  for those with data), and that the bytes written so far start where those
  offsets point. Neither property is inductive: both speak about the finished file.

### Replay (`ReplayProofs`)

* `SliceRoundTrip`, `SliceTableMinimal`: the same two properties in the
  composition, because every step of it is a step of `SysTable` or leaves its
  variables alone.
* `ReplayExits`: `SliceSpec => []ReplayEndsAtExit`, and
  `SliceTypeCorrect`: `SliceSpec => []SliceTypeOK`. `ReplayInv` says that the
  recorded slice is deterministic, that its exit instruction does not occur since
  its last call, that exactly the ecalls (and, once armed, the exit
  instruction) are overwritten, and that the replay stands at the event of the
  slice that it is about to repeat. `SliceAssumption` asks for a midpoint
  of every instruction: without one the loader stops before the replay
  (`JmpPlan` models that).
* `ReplayImplements`: under `NoRetry`, `SliceSpec`
  implements the initial condition and the next-state relation of
  `SliceReplay`: the safety part of `ImplementsSliceReplay`. A step of the
  recorder maps to an abstract recording step, saving stutters, and a step of the
  loader maps to the repetition of one event with its recorded effects.

### Address ranges (`RangesProofs`)

* `RangesAreSorted`: `Spec => []RangesSorted`, and `BenchIsCode`:
  `Spec => []BenchExactlyCode`, for every slice, page size and block size.
* `CodeStays`: `SmallCode /\ Spec => []CodeIntact`, and `TouchedMapped`:
  `SmallCode /\ DataAbove /\ Spec => []TouchedIsMapped`. `SmallCode`: the code ends
  below 2 GiB, so that the `int` `textend` holds its end. `DataAbove`: nothing
  below the first code page is accessed.
* They follow from `RangesCorrect`: `Spec => []RangeInv`. `Building` is the
  invariant of the loop of `getRange`: the ranges with the one in progress are made of
  whole units with gaps between them, hold the unit of every visited address and
  no others, and the addresses to come do not lie before the last range. `MemInv` says that
  trimming only ever works on the first range and that what lies behind the code
  is kept; `MapInv` says what the loader has mapped, and that no memory range
  reaches a code page.

### Jump planning (`JmpPlanProofs`)

* `GiveUpHopeless`: `WellFormedInputs /\ Spec => []GiveUpOnlyIfHopeless`,
  `AllJumpsLand`: `... => []JumpsLand`, and `AllStubsInGaps`:
  `... => []StubsInGaps`, for every number of ranges and addresses.
  `WellFormedInputs` is what the recorder writes: code ranges of whole pages
  (multiples of 64 bytes are enough) that are sorted, do not overlap (`RangesAreSorted`)
  and span at most 2 GiB, and even addresses inside them. Without the
  span the `int` distances wrap.
* They follow from `PlanCorrect`: `... => [](GapsInv /\ PlanInv)`. `GapsInv` says that each
  gap lies between two neighbouring code ranges that `getRangeInfo` has visited,
  and that gaps are in order. `PlanInv` says that a midpoint lies in a gap in reach of its
  address, and that an address still to be planned is above every gap the cursor
  has passed and out of its reach. `FartherBehind` keeps that true when a gap is
  skipped: later addresses are farther from it. `FartherAhead` is why giving up
  is final: later gaps are farther from the address.
* `JalLands` is the encoding: `createJAL` cuts an even offset of 21 bits into four
  fields and the processor puts them together again (`Fields`, `FieldsBack`).
  `MaxJALOffset` leaves room for the 44 bytes by which the way back
  starts behind the midpoint.

### Re-creation and traces (`RecreateProofs`)

* `TypeCorrect`, and `TableNeverOverflows`: `Spec => []NoTableOverflow`.
  `CountInv` says that the simulator's count of calls is behind the program's
  only between the jump into the loader and the loader's first micro-op.
* `CallsExact`: `Spec => []CallsOfSlice`, with `SliceCalls`: an open checkpoint has
  the calls between the one before its start and the last one taken.
* `NewExitIsFirst`: `Spec => []NewExitFirst`, with `PreinstsCover` as in the recorder.
* `NeverLate` and `TracesConsecutive`: `DisjointIntervals /\ Spec => []NoLateRecord`
  and `[]TraceConsecutive`. `TraceInv` says that the open file is that of the current
  interval and holds one record for every micro-op from its start on, and that a
  finished one lacks the last micro-op and no other; so `trace_length` fails for
  every finished trace, and by one record.

### Sampling (`SamplingProofs`)

All five invariants of `Sampling`, for every slice, placement of calls, run length,
warm-up, size of the reorder buffer and number of interrupts, from
`SamplingAssumption` only.

* The pipeline first. `head` is the oldest instruction that has not committed,
  wherever it is (reorder buffer, dispatch, decode, or the target of a flush).
  `PipeInv` says that the stages hold the instructions from `head` on in program
  order, that a ucsr instruction is alone in the reorder buffer, that only its
  last entry may have an exception, and that the pipeline is empty in the cycle
  of a flush and in the kernel. `PipeStep` then reduces the ten actions to four moves:
  `Quiet` (`head` stays, the core counts), `Fire` (the ucsr instruction at
  `head` executes), `CommitHead` and `DivertHead`. Everything else is proved about the
  moves.
* `TypeCorrect`: `Spec => []TypeOK`, and `SampleIsTransparent`:
  `Spec => []SampleTransparent`, from `DataAlways`: `Spec => []DataInv`. `vpc` and
  `vregs` are the position and the registers of the slice as if there were no
  `sample_func`: while it runs they are spread over `userExitPC`, temp register 0
  and its stack, and which part is where depends on how far it is. The rest of the
  invariant says, position by position, which of `vregs` and `program_intregs`
  hold the context of the slice, and that temp register 2 holds its way back.
* The other three follow from `SampleAlways`: `Spec => []SampleInv`. `CountInv`
  says that `procTag` is a function of the position, that the sample is set up once
  and taken once, and that `nowEventNum` is the window except for the commit of the
  last cycle.
* `SampleIsOnTime`: `Spec => []SampleOnTime`. `pot` is the number of instructions that
  may still commit although `overflow_event` holds: those that decode let pass, and the
  one behind an interrupt, where decode does not see it. While `overflow_event`
  holds no move raises `pot` and every commit lowers it, so `window + pot` is bounded
  (`InTime`). If the window fills up while the last instructions before
  `ClearProcTag` commit, the count goes on behind `SetProcTag` with up to two more
  (`OneLate`); that is where the 3 in the property comes from.
* `CountersAreTheWindow`: `Spec => []CountersHoldWindow`. `kernelDue` says that an
  interrupt is in the pipeline or being served; each one pays for the one
  instruction of the kernel that may be counted (`CounterInv`).
* `ExitIsSampled`: `Spec => []SampledBeforeExit`. `Progress` is the number of tagged
  instructions up to `head`, `credit` what the core has counted for them;
  `ProgressInv` bounds the first by the second, including the at most two
  instructions lost at the end of the warm-up. So when a long enough slice jumps to
  `takeoverSyscall` for its exit, `overflow_event` holds. The jump has emptied the
  pipeline, so `pot` is 0 and nothing commits any more before the sample (`ExitInv`).
  The size of the reorder buffer does not matter.

### Only model-checked

Liveness: `AllCkptsCreated`, the end of the replay in `ImplementsSliceReplay`,
and `ReplayEnds` of `Sampling`. Every invariant that a passing run checks is also
a theorem. Induction with the library's theorems is out of reach of
the installed provers, because they take an operator; where a proof needs induction
over numbers, `LeastNat` states that a set of numbers has a least element, once
in each module that needs it.

## Plan

1. Done: recorder control, first loads, first-load file, system call table,
   replay with its abstract specification, ranges, jump planning.
2. Done: re-creation of checkpoints from a checkpoint, composed with the trace
   recorder; the code map of the re-creation; the sampling loader on the extended
   core; `strictLength` chosen per run in the recorder.
3. Done: theorems about the recorder, the first-load file, the table, the replay
   and its refinement, the ranges, the jump planning, the re-creation and the
   traces.
4. Done: theorems about the sampled replay, with an invariant that describes the
   instructions in the pipeline.
5. Open: a wider core in `Sampling` (several commits in a cycle), the other event
   selectors, and the liveness properties, which stay with TLC.

## Not modelled

* Of the extended core: event selectors other than committed instructions, the
  path over ptrace (`exitFuncAddr` = 0), the other performance counters, several
  processes under one kernel, and the rest of the pipeline (branches, memory
  order, caches).
* The fields of a trace record, and files that cannot be opened (`need_record`
  then switches tracing off).
* Of the loop at `ckptinfo.cc:50`, the write behind the end of `exist[8]` when the
  first part of a split access is longer than four bytes; its flags are modelled.
  `FirstLoads` starts without a reservation, so a store-conditional at the
  start of a slice does not pair with a load-reserved before it.
* The start address of a re-created checkpoint, and gem5's decode cache, in which
  the loader's special instructions replace cached ordinary ones.
* Limits that real slices stay far from: code of more than 256 MB in a re-creation
  (64K flags in `ckptinst_map`), slices of 2^32 instructions (the header packs
  length and warm-up into one word).
* What a start means in a re-creation: the jump that replaces an ecall and every
  micro-op are counted there, and neither is in a normal run. Both counts are
  modelled; no document says which one a control entry refers to.
* Viewers, converters and test drivers in `restoreCkpt/ckptinfo`: sequential
  file input and output around the formats modelled here.
* Which of gem5's system call handlers report their writes to the recorder.
* Vendored code: gem5 apart from the functions named above, riscv-pk, BOOM,
  rocket-chip, FastLZ. Scripts, benchmarks and configurations.
  These are more than 1.6 million lines, two copies of gem5 among them, to which
  the repository adds hooks of a few lines each. What the repository itself
  implements is a few thousand lines in the files named in the inventory, so the
  share of all lines that is modelled is necessarily small.
