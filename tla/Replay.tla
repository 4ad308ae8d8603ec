------------------------------- MODULE Replay -------------------------------
(***************************************************************************)
(* A checkpoint from end to end: the recorder follows one slice of the     *)
(* program, saveSysInfo writes its system calls (module SysTable), and the *)
(* loader newreadckpt re-executes the slice.  The loader has no help from  *)
(* hardware.  It replaces every recorded ecall by a jump to takeoverSyscall *)
(* and comes back through a trampoline near the ecall; it ends the slice   *)
(* by overwriting the exit instruction with a jump as soon as the last     *)
(* recorded call is served.                                                *)
(*                                                                         *)
(* The program is deterministic: as long as the replay has seen the        *)
(* recorded events, its next instruction is the recorded one.  Memory      *)
(* other than what system calls write is the subject of FirstLoads.  The   *)
(* slice has an exit instruction: checkpoints made with strictLength have  *)
(* none and need a loader with an instruction limit, which this one lacks. *)
(***************************************************************************)
EXTENDS SysTable

CONSTANTS
  Insts,        (* Addresses of the program's ordinary instructions.       *)
  Midpoint,     (* The trampoline that findMidPoints picks for an address. *)
  MaxEvents     (* Bound: number of events in the slice.                   *)

(* The loader gives up before the replay when it finds no trampoline for   *)
(* an address that it needs (module JmpPlan).                              *)
ASSUME SliceAssumption ==
  /\ Insts \subseteq Nat \ {0}
  /\ \A c \in Calls : c.pc \notin Insts
  /\ Insts \cup {c.pc : c \in Calls} \subseteq DOMAIN Midpoint
  /\ MaxEvents \in Nat

NoPc == 0

VARIABLES
  slice,      (* the recorded events: address and, for a call, its number  *)
  exit_pc,    (* the exit instruction, NoPc before the slice is closed     *)
  status,     (* "off", "run", and how the replay ended                    *)
  pc,         (* address at which the replay continues                     *)
  replaced,   (* addresses overwritten with a jump to takeoverSyscall      *)
  nowcallnum, (* calls served                                              *)
  tempMemory, (* the trampoline through which the loader returns           *)
  jal,        (* return address in the last jump of every trampoline       *)
  log         (* history: the events of the replay                         *)

loader == <<status, pc, replaced, nowcallnum, tempMemory, jal, log>>

allvars == <<vars, slice, exit_pc, loader>>

SliceInit ==
  /\ Init
  /\ slice = <<>>
  /\ exit_pc = NoPc
  /\ status = "off"
  /\ pc = NoPc
  /\ replaced = {}
  /\ nowcallnum = 0
  /\ tempMemory = NoPc
  /\ jal = [m \in {Midpoint[a] : a \in DOMAIN Midpoint} |-> NoPc]
  /\ log = <<>>

-----------------------------------------------------------------------------
(* Recording.  A system call returns to the instruction behind it.         *)
follows(a) ==
  slice # <<>> /\ slice[Len(slice)].call # 0 => a = slice[Len(slice)].pc + 4

RecordInst(a) ==
  /\ phase = "record"
  /\ Len(slice) < MaxEvents
  /\ follows(a)
  /\ slice' = Append(slice, [pc |-> a, call |-> 0])
  /\ UNCHANGED <<vars, exit_pc, loader>>

RecordSyscall(c) ==
  /\ Len(slice) < MaxEvents
  /\ follows(c.pc)
  /\ RecordCall(c)
  /\ slice' = Append(slice, [pc |-> c.pc, call |-> Len(calls) + 1])
  /\ UNCHANGED <<exit_pc, loader>>

(* The instructions executed since the last system call. *)
sinceLastCall ==
  {slice[n].pc : n \in {m \in DOMAIN slice :
                          \A k \in m..Len(slice) : slice[k].call = 0}}

(* The recorder closes the checkpoint at an instruction that was not       *)
(* executed since the last system call (CkptCollect,                       *)
(* ExitFirstAfterLastSyscall).                                             *)
CloseSlice(a) ==
  /\ StartSave
  /\ a \notin sinceLastCall
  /\ follows(a)
  /\ exit_pc' = a
  /\ UNCHANGED <<slice, loader>>

SaveSlice ==
  /\ saveSysInfo
  /\ UNCHANGED <<slice, exit_pc, loader>>

-----------------------------------------------------------------------------
(* The loader. *)
totalcallnum == Len(sys_idxs)

(* updateJmpInst with the return address of an entry. *)
updateJmpInst(a, target) ==
  /\ tempMemory' = Midpoint[a]
  /\ jal' = [jal EXCEPT ![Midpoint[a]] = target]

(* processJmp replaces the ecalls of the entries up to the largest index   *)
(* in use.                                                                 *)
processJmp_ReturnPc ==
  {infos[k].pc + 4 : k \in DOMAIN infos}

processJmp_OneShort ==
  {infos[k].pc : k \in {j \in DOMAIN infos :
                          \E n \in DOMAIN sys_idxs : j <= sys_idxs[n]}}

processJmp ==
  {infos[k].pc : k \in {j \in DOMAIN infos :
                          \E n \in DOMAIN sys_idxs : j <= sys_idxs[n] + 1}}

(* Where the program goes after event n; beyond the last event the exit    *)
(* instruction.                                                            *)
successor(n) == IF n < Len(slice) THEN slice[n + 1].pc ELSE exit_pc

(* read_ckptinfo up to its StartJump: replace the ecalls, overwrite the    *)
(* exit instruction at once if there is no call, and enter the slice       *)
(* through the trampoline of its first instruction.                        *)
read_ckptinfo ==
  /\ phase = "done"
  /\ status = "off"
  /\ replaced' = processJmp \cup
                   (IF totalcallnum = 0 /\ exit_pc # NoPc THEN {exit_pc} ELSE {})
  /\ updateJmpInst(successor(0), successor(0))
  /\ pc' = jal'[tempMemory']
  /\ status' = "run"
  /\ UNCHANGED <<vars, slice, exit_pc, nowcallnum, log>>

(* The next event of the program, if the replay is still in the slice. *)
inSlice == Len(log) < Len(slice) /\ slice[Len(log) + 1].pc = pc

event == slice[Len(log) + 1]

(* How the replay ends; nothing else changes. *)
end(how) ==
  /\ status' = how
  /\ UNCHANGED <<pc, replaced, nowcallnum, tempMemory, jal, log>>

(* The program runs by itself: the next instruction of the slice, or it    *)
(* strays from the slice, or it executes an ecall that was not replaced.   *)
RunInst ==
  /\ status = "run"
  /\ pc \notin replaced
  /\ IF inSlice /\ event.call = 0
       THEN /\ log' = Append(log, [pc |-> pc])
            /\ pc' = successor(Len(log) + 1)
            /\ UNCHANGED <<status, replaced, nowcallnum, tempMemory, jal>>
       ELSE end("stray")
  /\ UNCHANGED <<vars, slice, exit_pc>>

(* Is the number of the program's call the recorded one? *)
rightNum ==
  /\ inSlice
  /\ event.call # 0
  /\ calls[event.call].num = lookup(nowcallnum + 1).num

(* Serve a call: a0, memory, the way back, the count and, after the last   *)
(* call, the exit instruction.                                             *)
lastCall == nowcallnum + 1 = totalcallnum

serve(e) ==
  /\ updateJmpInst(e.pc, e.pc + 4)
  /\ nowcallnum' = nowcallnum + 1
  /\ replaced' = IF lastCall THEN replaced \cup {exit_pc} ELSE replaced
  /\ log' = Append(log, [pc |-> pc, a0 |-> a0(e), mem |-> memWrite(e)])
  /\ pc' = jal'[tempMemory']
  /\ UNCHANGED status

(* A jump into takeoverSyscall.  When all calls are served, this is the    *)
(* exit instruction.                                                       *)
takeoverSyscall ==
  /\ status = "run"
  /\ pc \in replaced
  /\ IF nowcallnum >= totalcallnum THEN end("over")
     ELSE IF ~rightNum THEN end("wrongnum")
     ELSE serve(lookup(nowcallnum + 1))
  /\ UNCHANGED <<vars, slice, exit_pc>>

Loader == read_ckptinfo \/ RunInst \/ takeoverSyscall

SliceNext ==
  \/ \E a \in Insts : RecordInst(a)
  \/ \E c \in Calls : RecordSyscall(c)
  \/ \E a \in Insts : CloseSlice(a)
  \/ SaveSlice
  \/ Loader

(* saveSysInfo and the loader are sequential programs that run to their    *)
(* end; nothing else can delay them.                                       *)
SliceSpec ==
  SliceInit /\ [][SliceNext]_allvars /\ WF_allvars(SaveSlice \/ Loader)

-----------------------------------------------------------------------------
(* Type correctness of the recorded slice and of the loader's state: only  *)
(* ecalls and the exit instruction are ever overwritten.                   *)
SliceTypeOK ==
  /\ TypeOK
  /\ slice \in Seq([pc : Nat, call : Nat])
  /\ exit_pc \in Insts \cup {NoPc}
  /\ status \in {"off", "run", "over", "stray", "wrongnum"}
  /\ pc \in Nat
  /\ replaced \subseteq {c.pc : c \in Calls} \cup {exit_pc}
  /\ nowcallnum \in 0..Len(calls)

(* The replay never leaves the slice, never meets a call that it takes for *)
(* another one, and ends at the exit instruction with every event of the   *)
(* slice executed: overwriting the exit instruction after the last call    *)
(* neither ends the slice early nor lets it run on.                        *)
ReplayEndsAtExit ==
  /\ status \notin {"stray", "wrongnum"}
  /\ status = "over" => pc = exit_pc /\ Len(log) = Len(slice)

(* The events that the slice had, with what each call did to a0 and to     *)
(* memory.                                                                 *)
recorded ==
  [n \in DOMAIN slice |->
     IF slice[n].call = 0 THEN [pc |-> slice[n].pc]
     ELSE [pc |-> slice[n].pc, a0 |-> a0After(calls[slice[n].call]),
           mem |-> {memWritten(calls[slice[n].call])}]]

Abstract == INSTANCE SliceReplay WITH
  outcome <- recorded,
  log <- log,
  stage <- CASE status = "off"  -> "recording"
             [] status = "over" -> "finished"
             [] OTHER           -> "replaying"

(* Recording, saving and replaying a slice implements SliceReplay: the     *)
(* replay executes the recorded events with their recorded effects, in     *)
(* order, and it finishes.                                                 *)
ImplementsSliceReplay == Abstract!Spec

=============================================================================
