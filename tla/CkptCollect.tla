----------------------------- MODULE CkptCollect -----------------------------
(***************************************************************************)
(* The recorder: AtomicSimpleCPU::tick() and the checkpoint list it drives *)
(* (sim/ckpt_collect.cc).  Every tick executes one micro-op of the running *)
(* program.  The recorder counts instructions, opens a checkpoint when the *)
(* count reaches the next configured start, tells every open checkpoint    *)
(* about the instruction or system call, and closes checkpoints that have  *)
(* reached their length: at once with strictLength, else at the first      *)
(* instruction that the loader can later turn into an exit jump.           *)
(*                                                                         *)
(* The program is arbitrary: any instruction may follow any other, except  *)
(* that a system call returns to the instruction behind it.                *)
(* Checkpoint k is the one created from the k-th control entry, so the     *)
(* vector pendingCkpts, which is filled in that order, is a set of numbers *)
(* and pendingCkpts[0] is its least element.                               *)
(***************************************************************************)
EXTENDS Integers, Sequences, FiniteSets

CONSTANTS
  Pc,           (* Addresses of the program's instructions.              *)
  Compressed,   (* The two-byte instructions among them.                 *)
  Ecall,        (* The system call instructions (always four bytes).     *)
  Uops,         (* Number of micro-ops of each instruction.              *)
  Ctrls,        (* ckptsettings.ctrls: start and length of each ckpt.    *)
  PageSize,     (* Size of a code page (4096).                           *)
  MaxInst       (* Bound: the instruction count saturates here, beyond   *)
                (* the end of every configured checkpoint.               *)

Ids == 1..Len(Ctrls)

NoPc == 0

ASSUME PcAssumption ==
  /\ Pc \subseteq Nat \ {NoPc}
  /\ Compressed \subseteq Pc
  /\ Ecall \subseteq Pc \ Compressed
  /\ \A pc \in Ecall : pc + 4 \in Pc
  /\ Uops \in [Pc -> Nat \ {0}]

ASSUME CtrlAssumption ==
  /\ Ctrls \in Seq([start : Nat, length : Nat \ {0}])
  /\ \A k \in Ids : Ctrls[k].start + Ctrls[k].length < MaxInst
  /\ \A j, k \in Ids : j < k => Ctrls[j].start <= Ctrls[k].start

ASSUME BoundAssumption ==
  /\ PageSize \in Nat /\ PageSize >= 4
  /\ MaxInst \in Nat

VARIABLES
  numInst,   (* t_info.numInst: completed instructions; ecalls not counted *)
  uop,       (* micro-ops already executed of the current instruction      *)
  curpc,     (* the instruction that comes next, or NoPc for any           *)
  ckptidx,   (* control entries already used                               *)
  pending,   (* pendingCkpts: numbers of the open checkpoints              *)
  info,      (* what each checkpoint has recorded                          *)
  preinsts,  (* instructions seen since the last system call that could    *)
             (* have been the exit instruction                             *)
  isCompressed, (* instructions whose isCompressed member reads as true    *)
  strictLength, (* the setting of that name                                *)
  status     (* "run", "created" after exit(0), "exited" with the program  *)

vars == <<numInst, uop, curpc, ckptidx, pending, info, preinsts,
          isCompressed, strictLength, status>>

(***************************************************************************)
(* A CkptInfo object.  seen is history: the instructions executed in the   *)
(* slice since its last system call, which is what a replay can run into   *)
(* after it has armed the exit instruction.                                *)
(***************************************************************************)
CkptInfo ==
  [startnum : 0..MaxInst, length : Nat,
   text : SUBSET (Pc \cup {pc + PageSize : pc \in Pc}), seen : SUBSET Pc,
   exit_pc : Pc \cup {NoPc}, simNums : 0..MaxInst]

EmptyInfo ==
  [startnum |-> 0, length |-> 0, text |-> {}, seen |-> {},
   exit_pc |-> NoPc, simNums |-> 0]

saved == (1..ckptidx) \ pending

(* StaticInst::isCompressed is set by no constructor, and the assignment in *)
(* Decoder::decode is compiled out (Support_ReadCkpt_TempRegs is defined),  *)
(* so each decoded instruction keeps whatever its memory held.  Decoded     *)
(* instructions are cached, so the value does not change during a run.      *)
Init ==
  /\ isCompressed \in SUBSET Pc
  /\ strictLength \in BOOLEAN
  /\ numInst = 0
  /\ uop = 0
  /\ curpc = NoPc
  /\ ckptidx = 0
  /\ pending = {}
  /\ info = [k \in Ids |-> EmptyInfo]
  /\ preinsts = {}
  /\ status = "run"

-----------------------------------------------------------------------------
(* CkptInfo::addinst: the code page of the instruction, and the next page  *)
(* when the four bytes at pc reach into it.                                *)
addinst_NextWord(text, pc) ==
  text \cup {pc}
       \cup IF (pc \div PageSize) * PageSize + PageSize < pc + 4
              THEN {pc + 4} ELSE {}

addinst_FirstPage(text, pc) == text \cup {pc}

addinst(text, pc) ==
  text \cup {pc}
       \cup IF (pc \div PageSize) * PageSize + PageSize < pc + 4
              THEN {pc + PageSize} ELSE {}

hasValidCkpt == pending # {}

isCkptStart_OneAtATime ==
  /\ ckptidx < Len(Ctrls)
  /\ pending = {}
  /\ numInst = Ctrls[ckptidx + 1].start

isCkptStart ==
  /\ ckptidx < Len(Ctrls)
  /\ numInst = Ctrls[ckptidx + 1].start

(* addCkpt: a fresh object; the slice begins behind this micro-op.         *)
addCkpt(recorded) ==
  [recorded EXCEPT ![ckptidx + 1] =
     [EmptyInfo EXCEPT !.startnum = numInst,
                       !.length = Ctrls[ckptidx + 1].length]]

(* CkptInfo::detectOver: has this checkpoint run for its length? *)
detectOver_OneEarly(rec) == numInst + 1 >= rec.startnum + rec.length

detectOver_Exactly(rec) == numInst = rec.startnum + rec.length

detectOver_OneLate(rec) == numInst > rec.startnum + rec.length

detectOver(rec) == numInst >= rec.startnum + rec.length

(* pendingCkpts[0] *)
firstPending == CHOOSE k \in pending : \A j \in pending : k <= j

(* The part of tick() that decides whether to call ckpt_detectOver.  The   *)
(* oldest open checkpoint alone is asked whether it is due.                *)
isExitInst_NoPreinsts(pc) ==
  /\ detectOver(info[firstPending])
  /\ strictLength \/ pc \notin isCompressed

isExitInst(pc) ==
  /\ detectOver(info[firstPending])
  /\ \/ strictLength
     \/ pc \notin isCompressed /\ pc \notin preinsts

-----------------------------------------------------------------------------
(* ckpt_addinst on every open checkpoint, then isCkptStart and addCkpt.    *)
recordinst(pc) ==
  [k \in Ids |-> IF k \in pending
                   THEN [info[k] EXCEPT !.text = addinst(@, pc)] ELSE info[k]]

opened(pc) ==
  IF isCkptStart THEN addCkpt(recordinst(pc)) ELSE recordinst(pc)

openIds == IF isCkptStart THEN pending \cup {ckptidx + 1} ELSE pending

(* ckpt_detectOver: the open checkpoints that are written and removed.  A  *)
(* checkpoint opened by this micro-op can be among them only if an older   *)
(* one was open before it (startlog).                                      *)
ckpt_detectOver(pc) ==
  IF hasValidCkpt /\ isExitInst(pc)
    THEN {k \in openIds : detectOver(opened(pc)[k])} ELSE {}

(* One micro-op of an ordinary instruction: the NoFault branch of tick().  *)
(* Micro-ops of one instruction share numInst; countInst adds one after    *)
(* the last of them.                                                       *)
ExecInst(pc) ==
  LET over == ckpt_detectOver(pc)
      now  == opened(pc)
  IN
  /\ status = "run"
  /\ pc \notin Ecall
  /\ curpc \in {NoPc, pc}
  /\ uop' = (uop + 1) % Uops[pc]
  /\ curpc' = IF uop' = 0 THEN NoPc ELSE pc
  /\ numInst' = IF uop' = 0 /\ numInst < MaxInst THEN numInst + 1 ELSE numInst
  /\ ckptidx' = IF isCkptStart THEN ckptidx + 1 ELSE ckptidx
  /\ pending' = openIds \ over
  /\ info' = [k \in Ids |->
                IF k \in over
                  THEN [now[k] EXCEPT
                          !.exit_pc = IF strictLength THEN NoPc ELSE pc,
                          !.simNums = numInst - now[k].startnum]
                  ELSE IF k \in pending
                         THEN [now[k] EXCEPT !.seen = @ \cup {pc}]
                         ELSE now[k]]
  /\ preinsts' = IF hasValidCkpt /\ pc \notin isCompressed /\ ~strictLength
                   THEN preinsts \cup {pc} ELSE preinsts
  /\ status' = IF over # {} /\ pending' = {} /\ ckptidx' = Len(Ctrls)
                 THEN "created" ELSE status
  /\ UNCHANGED <<isCompressed, strictLength>>

(* A system call: tick() empties preinsts before it executes the ecall,    *)
(* which faults, is not counted and not added to the code; the call is     *)
(* recorded by ckpt_add_sysenter and ckpt_add_sysret on its way through    *)
(* EmuLinux::syscall.                                                      *)
ExecEcall(pc) ==
  /\ status = "run"
  /\ uop = 0
  /\ curpc \in {NoPc, pc}
  /\ pc \in Ecall
  /\ curpc' = pc + 4
  /\ preinsts' = {}
  /\ info' = [k \in Ids |->
                IF k \in pending
                  THEN [info[k] EXCEPT !.seen = {}]
                  ELSE info[k]]
  /\ UNCHANGED <<numInst, uop, ckptidx, pending, isCompressed, strictLength, status>>

(* The program's exit system call ends the simulation; checkpoints that    *)
(* are still open are never written.                                       *)
ProgramExit(pc) ==
  /\ status = "run"
  /\ uop = 0
  /\ curpc \in {NoPc, pc}
  /\ pc \in Ecall
  /\ status' = "exited"
  /\ preinsts' = {}
  /\ UNCHANGED <<numInst, uop, curpc, ckptidx, pending, info, isCompressed,
                 strictLength>>

Next ==
  \E pc \in Pc : ExecInst(pc) \/ ExecEcall(pc) \/ ProgramExit(pc)

Spec == Init /\ [][Next]_vars

(* A program cannot run system calls only: between two of them it executes *)
(* at least the instructions that load the call number, and the simulator  *)
(* reschedules its tick event for ever.                                    *)
FairSpec == Spec /\ WF_vars(\E pc \in Pc : ExecInst(pc))

-----------------------------------------------------------------------------
(* Type correctness of the recorder's state.                               *)
TypeOK ==
  /\ numInst \in 0..MaxInst
  /\ uop \in Nat
  /\ curpc \in Pc \cup {NoPc}
  /\ ckptidx \in 0..Len(Ctrls)
  /\ pending \subseteq 1..ckptidx
  /\ info \in [Ids -> CkptInfo]
  /\ preinsts \subseteq Pc
  /\ isCompressed \subseteq Pc
  /\ strictLength \in BOOLEAN
  /\ status \in {"run", "created", "exited"}

(* The exit instruction of a finished checkpoint is an ordinary            *)
(* instruction that the slice did not execute between its last system call *)
(* and the exit.  A replay that overwrites exit_pc once the last recorded  *)
(* system call is served therefore stops at the recorded exit and never    *)
(* earlier, for any overlap of checkpoints, although all of them share     *)
(* one preinsts set (atomic.cc:831-842, detectOver).                       *)
ExitFirstAfterLastSyscall ==
  ~strictLength =>
    \A k \in saved :
      /\ info[k].exit_pc \in Pc \ Ecall
      /\ info[k].exit_pc \notin info[k].seen

(* The exit instruction is a four-byte instruction: the loader writes a    *)
(* four-byte jump over it (atomic.cc:831 tests isCompressed for this).     *)
ExitInstFourBytes ==
  \A k \in saved : info[k].exit_pc \notin Compressed

(* isCkptStart compares for equality, so an entry whose start the counter  *)
(* has passed would block all later ones: the next entry is never behind   *)
(* the program.                                                            *)
NextCtrlAhead ==
  ckptidx < Len(Ctrls) => Ctrls[ckptidx + 1].start >= numInst

(* With strictLength a finished checkpoint covers exactly the configured   *)
(* number of instructions, unless it is nested in an older one: only the   *)
(* oldest open checkpoint is asked whether it is due.                      *)
endOf(k) == Ctrls[k].start + Ctrls[k].length

StrictLengthExact ==
  strictLength =>
    \A k \in saved : (\A j \in 1..k : endOf(j) <= endOf(k)) =>
                       info[k].simNums = Ctrls[k].length

(* A checkpoint leaves pendingCkpts only by being written: every entry     *)
(* whose start was reached is open or was saved with at least its length,  *)
(* and the simulator calls exit(0) only when nothing is left to write.     *)
NoCkptLost ==
  /\ \A k \in 1..ckptidx : info[k].startnum = Ctrls[k].start
  /\ \A k \in saved : info[k].simNums >= Ctrls[k].length
  /\ status = "created" => saved = Ids

(* The loader overwrites the four bytes of the exit instruction: the code  *)
(* ranges of the checkpoint contain the page of each of them, although the *)
(* instruction that closes a checkpoint may be its only one in that page   *)
(* and may reach into the next (ckpt_addinst comes before the exit test).  *)
ExitCodeRecorded ==
  ~strictLength =>
    \A k \in saved : \A b \in info[k].exit_pc .. (info[k].exit_pc + 3) :
      \E a \in info[k].text : a \div PageSize = b \div PageSize

(* With strictLength every run of a program that does not exit creates all *)
(* its checkpoints.  (Otherwise the program may never execute an           *)
(* instruction that can be overwritten.)                                   *)
AllCkptsCreated == strictLength => <>(status # "run")

=============================================================================
