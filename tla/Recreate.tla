------------------------------ MODULE Recreate ------------------------------
(***************************************************************************)
(* Creating checkpoints, and traces, while a checkpoint is replayed: the   *)
(* readckpt mode of AtomicSimpleCPU::tick().  The simulated process is the *)
(* loader; isCkptInst tells the instructions of the restored program from  *)
(* the loader's by their page.  The program makes no system calls any      *)
(* more, it jumps into the loader, so tick() takes the first loader        *)
(* instruction behind a program instruction for the next call of the first *)
(* checkpoint and copies the call from its table (ckpt_insert_syscall).    *)
(*                                                                         *)
(* Every step is a micro-op.  The program is arbitrary up to the order of  *)
(* its calls, which is that of the table.                                  *)
(***************************************************************************)
EXTENDS TraceRec, FiniteSets

CONSTANTS
  Pc,        (* Addresses of ordinary instructions of the program.         *)
  CallPcs,   (* The table of the first checkpoint: address of each call.   *)
  ExitPc,    (* Its exit instruction.                                      *)
  Ctrls,     (* ckptsettings.ctrls for the new checkpoints.                *)
  MaxBench   (* Bound: micro-ops of the program.                           *)

Ids == 1..Len(Ctrls)

totalcallnum == Len(CallPcs)

NoPc == 0

LoaderPc == 1

(* The instructions of the restored program. *)
ProgramPc == Pc \cup {ExitPc} \cup {CallPcs[n] : n \in DOMAIN CallPcs}

ASSUME RecreateAssumption ==
  /\ CallPcs \in Seq(Nat)
  /\ MaxBench \in Nat
  /\ LoaderPc \notin ProgramPc
  /\ ExitPc \notin Pc
  /\ \A n \in DOMAIN CallPcs : /\ CallPcs[n] \notin Pc \cup {ExitPc}
                                /\ CallPcs[n] + 4 \in Pc
  /\ Ctrls \in Seq([start : Nat \ {0}, length : Nat \ {0}])
  /\ \A j, k \in Ids : j < k => Ctrls[j].start <= Ctrls[k].start

VARIABLES
  curpc,       (* the next instruction; LoaderPc for any of the loader     *)
  strictLength,
  isCompressed,     (* instructions whose isCompressed reads as true       *)
  benchinsts,  (* micro-ops of the program                                 *)
  last_isBenchInst,
  takeSysNum,  (* calls taken from the table                               *)
  preinsts,    (* candidates for an exit instruction that were executed    *)
  ckptidx, pending, info,  (* the new checkpoints, as in CkptCollect       *)
  made,        (* history: jumps of the program into the loader            *)
  status       (* "run", "exited" with the loader, "created", "traced" or  *)
               (* "overflow": the ways in which the simulation ends        *)

ckptVars == <<preinsts, ckptidx, pending, info>>

vars == <<traceVars, curpc, strictLength, isCompressed, benchinsts, last_isBenchInst,
          takeSysNum, ckptVars, made, status>>

(* A checkpoint: calls are the numbers of the recorded calls; from and to  *)
(* are history, the jumps made before its slice and before its exit, seen  *)
(* the instructions since the last call of the slice.                      *)
CkptInfo ==
  [startnum : Nat, length : Nat, calls : Seq(Nat), exit_pc : ProgramPc \cup {NoPc},
   from : Nat, to : Nat, seen : SUBSET ProgramPc]

EmptyInfo == [startnum |-> 0, length |-> 0, calls |-> <<>>, exit_pc |-> NoPc,
              from |-> 0, to |-> 0, seen |-> {}]

Init ==
  /\ TraceInit
  /\ curpc = LoaderPc
  /\ strictLength \in BOOLEAN
  /\ isCompressed \in SUBSET ProgramPc
  /\ benchinsts = 0
  /\ last_isBenchInst = FALSE
  /\ takeSysNum = 0
  /\ preinsts = {}
  /\ ckptidx = 0
  /\ pending = {}
  /\ info = [k \in Ids |-> EmptyInfo]
  /\ made = 0
  /\ status = "run"

saved == (1..ckptidx) \ pending

firstPending == CHOOSE k \in pending : \A j \in pending : k <= j

isCkptInst == curpc # LoaderPc

(* The program's jumps into the loader: the next call of the table, and    *)
(* the exit instruction once all calls are served.                         *)
jumpPc == IF made < totalcallnum THEN CallPcs[made + 1] ELSE ExitPc

isJump == curpc = jumpPc

(* Where the program may continue. *)
successors == IF isJump THEN {LoaderPc} ELSE Pc \cup {jumpPc}

-----------------------------------------------------------------------------
(* isCkptStart with the micro-op just counted. *)
isCkptStart ==
  /\ ckptidx < Len(Ctrls)
  /\ benchinsts + 1 = Ctrls[ckptidx + 1].start

openIds_Always == pending \cup {ckptidx + 1}

openIds == IF isCkptStart THEN pending \cup {ckptidx + 1} ELSE pending

opened ==
  IF isCkptStart
    THEN [info EXCEPT ![ckptidx + 1] =
            [EmptyInfo EXCEPT !.startnum = benchinsts + 1,
                              !.length = Ctrls[ckptidx + 1].length, !.from = made]]
    ELSE info

detectOver(rec) == benchinsts + 1 >= rec.startnum + rec.length

isExitInst_NoPreinsts ==
  /\ pending # {}
  /\ detectOver(info[firstPending])
  /\ strictLength \/ curpc \notin isCompressed

isExitInst ==
  /\ pending # {}
  /\ detectOver(info[firstPending])
  /\ strictLength \/ (curpc \notin isCompressed /\ curpc \notin preinsts)

over == IF isExitInst THEN {k \in openIds : detectOver(opened[k])} ELSE {}

(* tick() for a micro-op of the program, behind record_traces. *)
recordBench ==
  /\ benchinsts' = benchinsts + 1
  /\ last_isBenchInst' = TRUE
  /\ ckptidx' = IF isCkptStart THEN ckptidx + 1 ELSE ckptidx
  /\ pending' = openIds \ over
  /\ info' = [k \in Ids |->
                IF k \in over
                  THEN [opened[k] EXCEPT !.to = made,
                          !.exit_pc = IF strictLength THEN NoPc ELSE curpc]
                  ELSE IF k \in pending THEN [opened[k] EXCEPT !.seen = @ \cup {curpc}]
                  ELSE opened[k]]
  /\ preinsts' = IF pending # {} /\ curpc \notin isCompressed /\ ~strictLength
                   THEN preinsts \cup {curpc} ELSE preinsts
  /\ made' = IF isJump THEN made + 1 ELSE made
  /\ status' = IF over # {} /\ pending' = {} /\ ckptidx' = Len(Ctrls)
                 THEN "created" ELSE status

BenchInst(next) ==
  /\ status = "run"
  /\ isCkptInst
  /\ ~lastTrace(curpc)
  /\ benchinsts < MaxBench
  /\ next \in successors
  /\ curpc' = next
  /\ record_traces(curpc)
  /\ recordBench
  /\ UNCHANGED <<strictLength, isCompressed, takeSysNum>>

(* The tracer ends the simulation before the rest of tick(): checkpoints   *)
(* that are open are not written.                                          *)
TraceExit ==
  /\ status = "run"
  /\ lastTrace(curpc)
  /\ closeLastTrace
  /\ status' = "traced"
  /\ UNCHANGED <<curpc, strictLength, isCompressed, benchinsts, last_isBenchInst,
                 takeSysNum, ckptVars, made>>

(* The number is beyond the table: exit(1). *)
overflow_AtEnd(n) == n >= totalcallnum

overflow(n) == n > totalcallnum

(* ckpt_insert_syscall: the call with this number becomes a call of every  *)
(* open checkpoint.  The jump of the exit instruction has no entry.        *)
ckpt_insert_syscall_First(n) ==
  [k \in Ids |->
     IF k \in pending /\ k = firstPending
       THEN [info[k] EXCEPT !.calls = Append(@, n + 1), !.seen = {}]
       ELSE info[k]]

ckpt_insert_syscall(n) ==
  [k \in Ids |->
     IF k \in pending /\ n < totalcallnum
       THEN [info[k] EXCEPT !.calls = Append(@, n + 1), !.seen = {}]
       ELSE info[k]]

(* The first loader micro-op behind the program's. *)
takeSyscall == last_isBenchInst

(* A micro-op of the loader.  It stays in the loader, goes to the program, *)
(* or, when the exit instruction was reached, ends the process.            *)
LoaderInst(next) ==
  /\ status = "run"
  /\ ~isCkptInst
  /\ ~lastTrace(LoaderPc)
  /\ next \in {LoaderPc} \cup
       (IF made = 0 THEN Pc \cup {jumpPc}
        ELSE IF made <= totalcallnum THEN {CallPcs[made] + 4} ELSE {})
  /\ curpc' = next
  /\ record_traces(LoaderPc)
  /\ IF takeSyscall
       THEN /\ takeSysNum' = takeSysNum + 1
            /\ preinsts' = {}
            /\ info' = ckpt_insert_syscall(takeSysNum)
            /\ status' = IF overflow(takeSysNum) THEN "overflow" ELSE status
       ELSE UNCHANGED <<takeSysNum, preinsts, info, status>>
  /\ last_isBenchInst' = FALSE
  /\ UNCHANGED <<strictLength, isCompressed, benchinsts, ckptidx, pending, made>>

(* The loader's exit after the exit instruction. *)
LoaderExit ==
  /\ status = "run"
  /\ ~isCkptInst
  /\ made > totalcallnum
  /\ ~last_isBenchInst
  /\ status' = "exited"
  /\ UNCHANGED <<traceVars, curpc, strictLength, isCompressed, benchinsts,
                 last_isBenchInst, takeSysNum, ckptVars, made>>

Next ==
  \/ \E next \in Pc \cup {LoaderPc, jumpPc} : BenchInst(next) \/ LoaderInst(next)
  \/ TraceExit
  \/ LoaderExit

Spec == Init /\ [][Next]_vars

-----------------------------------------------------------------------------
TypeOK ==
  /\ curpc \in ProgramPc \cup {LoaderPc}
  /\ strictLength \in BOOLEAN /\ last_isBenchInst \in BOOLEAN
  /\ benchinsts \in 0..MaxBench
  /\ takeSysNum \in Nat
  /\ preinsts \subseteq ProgramPc
  /\ pending \subseteq 1..ckptidx /\ ckptidx \in 0..Len(Ctrls)
  /\ info \in [Ids -> CkptInfo]
  /\ made \in 0..(totalcallnum + 1)
  /\ status \in {"run", "exited", "created", "traced", "overflow"}

(* Every new checkpoint has exactly the calls that the program made in its *)
(* slice, in order, although calls are only inferred from a change of code *)
(* and several slices overlap: no call from before the slice, none beyond  *)
(* its exit instruction, even if that is a replaced ecall, and none twice. *)
CallsOfSlice ==
  /\ \A k \in saved : info[k].calls = [n \in 1..(info[k].to - info[k].from) |->
                                         info[k].from + n]
  /\ \A k \in pending : takeSysNum <= totalcallnum =>
       info[k].calls = [n \in 1..(takeSysNum - info[k].from) |-> info[k].from + n]

(* The exit instruction of a new checkpoint was not executed in its slice  *)
(* since the last recorded call, so that a replay of the new checkpoint    *)
(* cannot stop early.                                                      *)
NewExitFirst ==
  ~strictLength => \A k \in saved : info[k].exit_pc \notin info[k].seen

(* The table never runs out: the program enters the loader once for each   *)
(* call and once to exit ("syscall num %d is overflow").                   *)
NoTableOverflow == status # "overflow"
=============================================================================
