------------------------------ MODULE Sampling ------------------------------
(***************************************************************************)
(* The loader readckpt on the extended BOOM core.  readckpt asks the core  *)
(* to count the committed instructions of the slice, to skip a warm-up,    *)
(* and to divert the slice once into sample_func, which reads the          *)
(* performance counters and goes back to the interrupted instruction.      *)
(* System calls of the slice are jumps to takeoverSyscall, which hides its *)
(* own work from the counters by clearing procTag.                         *)
(*                                                                         *)
(* A step is a clock cycle in which at most one pipeline stage moves; any  *)
(* stage may stall.  Stages that move in the same cycle only read what the *)
(* cycle before left, so letting them move one after the other loses no    *)
(* behaviour.  The core is one instruction wide and counts instructions    *)
(* (sampleEventSel = 0), which is the setting init_start uses.             *)
(***************************************************************************)
EXTENDS Naturals, Sequences, FiniteSets

CONSTANTS
  ProgLen,    (* Instructions of the slice before its exit instruction.    *)
  Ecalls,     (* Those of them that are replaced system calls.             *)
  RunLengths, (* Possible numbers of events to sample.                     *)
  Warmups,    (* Possible numbers of warm-up instructions.                 *)
  LoaderOps,  (* Ordinary loader instructions that are counted: at the end *)
              (* of read_ckptinfo, and while registers are saved.          *)
  RobSize,    (* Entries of the reorder buffer.                            *)
  MaxIntr     (* Bound: interrupts during the replay.                      *)

ASSUME SamplingAssumption ==
  /\ {ProgLen, LoaderOps, MaxIntr} \cup Warmups \subseteq Nat
  /\ {RobSize} \cup RunLengths \subseteq Nat \ {0}
  /\ Ecalls \subseteq 1..ProgLen

-----------------------------------------------------------------------------
(* The code: for each region the instructions in program order. "op" is    *)
(* any ordinary instruction.                                               *)
Ops(n) == [k \in 1..n |-> "op"]

(* The end of read_ckptinfo: init_start, Load_ProgramIntRegs, JmpTempReg.  *)
initCode ==
  <<"RstPFC", "SetPfcEnable", "SetProcTag", "SetFuncAddr", "SetMaxEventNum",
    "SetWarmupInst">> \o Ops(LoaderOps) \o <<"LoadRest", "LoadA0", "URet2">>

(* The slice; its ecalls and its exit instruction are jumps to temp 3. *)
progCode ==
  [k \in 1..(ProgLen + 1) |->
     IF k \in Ecalls \cup {ProgLen + 1} THEN "URet3" ELSE "op"]

(* takeoverSyscall. *)
takeoverCode_TagLost ==
  Ops(LoaderOps) \o
  <<"SaveProgram", "ClearProcTag", "Serve", "SetTemp2Npc", "LoadRest", "LoadA0", "URet2">>

takeoverCode ==
  Ops(LoaderOps) \o
  <<"SaveProgram", "ClearProcTag", "Serve", "SetTemp2Npc", "SetProcTag",
    "LoadRest", "LoadA0", "URet2">>

(* sample_func. *)
sampleCode_PcFirst ==
  <<"SetTemp0A0", "SaveAll", "SetTemp0ExitPc", "SaveA0", "ReadCounters", "RstPFC",
    "SetPfcEnable", "SetProcTag", "SetFuncAddr", "ClearMaxEventNum",
    "ClearWarmupInst", "LoadAll", "URet0">>

sampleCode ==
  <<"SetTemp0A0", "SaveAll", "SaveA0", "SetTemp0ExitPc", "ReadCounters", "RstPFC",
    "SetPfcEnable", "SetProcTag", "SetFuncAddr", "ClearMaxEventNum",
    "ClearWarmupInst", "LoadAll", "URet0">>

Code == [init |-> initCode, prog |-> progCode, takeover |-> takeoverCode,
         sample |-> sampleCode]

Inst(pc) == Code[pc[1]][pc[2]]

Next1(pc) == <<pc[1], pc[2] + 1>>

URets == {"URet0", "URet2", "URet3"}

(* Executed when they read their registers. *)
SetInsts ==
  {"SetPfcEnable", "SetProcTag", "ClearProcTag", "SetFuncAddr", "SetMaxEventNum",
   "ClearMaxEventNum", "SetWarmupInst", "ClearWarmupInst", "SetTemp0A0",
   "SetTemp2Npc", "SetTemp0ExitPc"}

(* The ucsr instructions are dispatched into an empty pipeline and nothing *)
(* follows them until they have left it.                                   *)
is_unique(pc) ==
  Inst(pc) \in URets \cup SetInsts \cup {"SaveA0", "ReadCounters", "RstPFC"}

NoPc == <<"none", 0>>

SampleFunc == <<"sample", 1>>

TakeOver == <<"takeover", 1>>

(* A register file: a0 and all the others.  The value k stands for what    *)
(* instruction k of the slice computes, Loader for values of the loader.   *)
Loader == ProgLen + 2

LoaderRegs == [a0 |-> Loader, rest |-> Loader]

(* The n-th recorded system call. *)
CallPc(n) == CHOOSE k \in Ecalls : Cardinality({j \in Ecalls : j <= k}) = n

(* What the slice has in its registers before instruction k: the result of *)
(* instruction k - 1, and in the others that of the last instruction which *)
(* is no system call.                                                      *)
Context(k) ==
  [a0 |-> k - 1,
   rest |-> CHOOSE j \in 0..(k - 1) :
              /\ j \notin Ecalls
              /\ \A i \in (j + 1)..(k - 1) : i \in Ecalls]

-----------------------------------------------------------------------------
VARIABLES
  runLength, warmup,  (* read from the checkpoint                          *)
  ucsr,       (* the registers added to the core                           *)
  committed,  (* RegNext(PopCount(arch_valids)): commits of the last cycle *)
  user,       (* cycles in user mode, at most 3; 0 in the kernel           *)
  fpc,        (* the instruction in decode                                 *)
  dis,        (* the instruction in dispatch, if any                       *)
  rob,        (* reorder buffer                                            *)
  flush,      (* what redirects the pipeline in the next cycle             *)
  regs,       (* integer registers                                         *)
  program_intregs, tempStackMem,  (* register files saved by the loader    *)
  nowcallnum, (* system calls served                                       *)
  status,     (* "run", "exit" or "killed" by the kernel                   *)
  intr,       (* interrupts so far                                         *)
  samples,    (* sampleHapTimes                                            *)
  window      (* history: commits of the tagged slice since the warm-up    *)

pipeline == <<fpc, dis, rob, flush>>

data == <<regs, program_intregs, tempStackMem, nowcallnum, status, samples>>

vars == <<runLength, warmup, ucsr, committed, user, pipeline, data, intr, window>>

Init ==
  /\ runLength \in RunLengths
  /\ warmup \in Warmups
  /\ ucsr = [procTag |-> FALSE, exitFuncAddr |-> NoPc, warmupInstNum |-> 0,
             maxEventNum |-> 0, pfc_enable |-> FALSE, userExitPC |-> NoPc,
             nowWarmupInsts |-> 0, nowEventNum |-> 0, instCounter |-> 0,
             temp |-> [n \in {0, 2, 3} |-> IF n = 2 THEN <<"prog", 1>>
                                           ELSE IF n = 3 THEN TakeOver ELSE NoPc]]
  /\ committed = 0
  /\ user = 3
  /\ fpc = <<"init", 1>>
  /\ dis = <<>>
  /\ rob = <<>>
  /\ flush = [kind |-> "none", pc |-> NoPc]
  /\ regs = LoaderRegs
  /\ program_intregs = Context(1)
  /\ tempStackMem = LoaderRegs
  /\ nowcallnum = 0
  /\ status = "run"
  /\ intr = 0
  /\ samples = 0
  /\ window = 0

-----------------------------------------------------------------------------
(* The conditions of the core. *)
isUserMode == user = 3

sampleValid ==
  isUserMode /\ ucsr.procTag /\ ucsr.maxEventNum # 0 /\ ucsr.warmupInstNum = 0

warmupValid == isUserMode /\ ucsr.procTag /\ ucsr.warmupInstNum # 0

overflow_event == sampleValid /\ ucsr.nowEventNum > ucsr.maxEventNum

startCounter == user > 0 /\ ucsr.procTag /\ ucsr.pfc_enable

warmupEnds == warmupValid /\ ucsr.nowWarmupInsts > ucsr.warmupInstNum

(* The registers after a cycle in which no instruction writes them. *)
counted_NoReset ==
  [ucsr EXCEPT
     !.nowWarmupInsts = IF warmupEnds THEN 0
                        ELSE IF warmupValid THEN @ + committed ELSE @,
     !.warmupInstNum = IF warmupEnds THEN 0 ELSE @,
     !.nowEventNum = IF sampleValid THEN @ + committed ELSE @,
     !.instCounter = IF startCounter THEN @ + committed ELSE @]

counted ==
  [ucsr EXCEPT
     !.nowWarmupInsts = IF warmupEnds THEN 0
                        ELSE IF warmupValid THEN @ + committed ELSE @,
     !.warmupInstNum = IF warmupEnds THEN 0 ELSE @,
     !.nowEventNum = IF warmupEnds THEN 0
                     ELSE IF sampleValid THEN @ + committed ELSE @,
     !.instCounter = IF warmupEnds THEN 0
                     ELSE IF startCounter THEN @ + committed ELSE @]

(* One cycle with c commits, after which the core is in user mode for u    *)
(* cycles.                                                                 *)
Cycle(c, u) ==
  /\ committed' = c
  /\ user' = u
  /\ window' = IF warmupEnds THEN c
               ELSE IF ucsr.procTag /\ ucsr.warmupInstNum = 0 /\ ucsr.maxEventNum # 0
                      THEN window + c ELSE window

Clock(c) == Cycle(c, IF user \in 1..2 THEN user + 1 ELSE user)

running == status = "run" /\ user > 0 /\ flush.kind = "none"

(* Decode: every instruction becomes an exception while overflow_event     *)
(* holds; an interrupt is attached here as well.                           *)
Decode(interrupt) ==
  /\ running
  /\ dis = <<>>
  /\ fpc[2] \in DOMAIN Code[fpc[1]]
  /\ interrupt => intr < MaxIntr
  /\ dis' = <<[pc |-> fpc, done |-> FALSE,
               exception |-> CASE overflow_event -> "Cause_OverFlow"
                               [] ~overflow_event /\ interrupt -> "interrupt"
                               [] OTHER -> "none"]>>
  /\ fpc' = Next1(fpc)
  /\ intr' = IF interrupt /\ ~overflow_event THEN intr + 1 ELSE intr
  /\ ucsr' = counted
  /\ Clock(0)
  /\ UNCHANGED <<rob, flush, data, runLength, warmup>>

(* Dispatch into the reorder buffer. *)
Dispatch_Unbounded ==
  /\ running
  /\ dis # <<>>
  /\ \A i \in DOMAIN rob : rob[i].exception = "none" /\ ~is_unique(rob[i].pc)
  /\ is_unique(dis[1].pc) => rob = <<>>
  /\ rob' = rob \o dis
  /\ dis' = <<>>
  /\ ucsr' = counted
  /\ Clock(0)
  /\ UNCHANGED <<fpc, flush, data, intr, runLength, warmup>>

Dispatch ==
  /\ running
  /\ dis # <<>>
  /\ Len(rob) < RobSize
  /\ \A i \in DOMAIN rob : rob[i].exception = "none" /\ ~is_unique(rob[i].pc)
  /\ is_unique(dis[1].pc) => rob = <<>>
  /\ rob' = rob \o dis
  /\ dis' = <<>>
  /\ ucsr' = counted
  /\ Clock(0)
  /\ UNCHANGED <<fpc, flush, data, intr, runLength, warmup>>

(* What a ucsr instruction writes when it reads its registers. *)
ucsrWrite(inst) ==
  LET c == counted IN
  CASE inst = "SetProcTag"       -> [c EXCEPT !.procTag = TRUE]
    [] inst = "ClearProcTag"     -> [c EXCEPT !.procTag = FALSE]
    [] inst = "SetFuncAddr"      -> [c EXCEPT !.exitFuncAddr = SampleFunc]
    [] inst = "SetPfcEnable"     -> [c EXCEPT !.pfc_enable = TRUE]
    [] inst = "SetMaxEventNum"   -> [c EXCEPT !.maxEventNum = runLength,
                                              !.nowEventNum = 0]
    [] inst = "ClearMaxEventNum" -> [c EXCEPT !.maxEventNum = 0, !.nowEventNum = 0]
    [] inst = "SetWarmupInst"    -> [c EXCEPT !.warmupInstNum = warmup,
                                              !.nowWarmupInsts = 0]
    [] inst = "ClearWarmupInst"  -> [c EXCEPT !.warmupInstNum = 0,
                                              !.nowWarmupInsts = 0]
    [] inst = "SetTemp0A0"       -> [c EXCEPT !.temp[0] = <<"a0", regs.a0>>]
    [] inst = "SetTemp0ExitPc"   -> [c EXCEPT !.temp[0] = ucsr.userExitPC]
    [] inst = "SetTemp2Npc"      -> [c EXCEPT !.temp[2] = <<"prog", CallPc(nowcallnum) + 1>>]
    [] OTHER                     -> c

(* Execution, in any order; an instruction with an exception never issues. *)
Execute(i) ==
  /\ running
  /\ i \in DOMAIN rob
  /\ ~rob[i].done
  /\ rob[i].exception = "none"
  /\ rob' = [rob EXCEPT ![i].done = TRUE]
  /\ ucsr' = ucsrWrite(Inst(rob[i].pc))
  /\ Clock(0)
  /\ UNCHANGED <<fpc, dis, flush, data, intr, runLength, warmup>>

-----------------------------------------------------------------------------
(* The architectural effect of an instruction when it commits. *)
setRegs(r) ==
  /\ regs' = r
  /\ UNCHANGED <<program_intregs, tempStackMem, nowcallnum, status, samples>>

(* The end of Save_ProgramIntRegs, whose first instruction overwrites a0,  *)
(* and Load_ReadCkptIntRegs.                                               *)
SaveProgram ==
  /\ program_intregs' = [program_intregs EXCEPT !.rest = regs.rest]
  /\ regs' = LoaderRegs
  /\ UNCHANGED <<tempStackMem, nowcallnum, status, samples>>

(* The middle of takeoverSyscall: exit after the last call, or set the     *)
(* recorded result.                                                        *)
Serve ==
  /\ IF nowcallnum >= Cardinality(Ecalls)
       THEN /\ status' = "exit"
            /\ UNCHANGED <<program_intregs, nowcallnum>>
       ELSE /\ program_intregs' = [program_intregs EXCEPT !.a0 = CallPc(nowcallnum + 1)]
            /\ nowcallnum' = nowcallnum + 1
            /\ UNCHANGED status
  /\ UNCHANGED <<regs, tempStackMem, samples>>

saveContext(m) ==
  /\ tempStackMem' = m
  /\ regs' = LoaderRegs
  /\ UNCHANGED <<program_intregs, nowcallnum, status, samples>>

commitEffect(pc) ==
  LET inst == Inst(pc) IN
  CASE inst = "op" /\ pc[1] = "prog" -> setRegs([a0 |-> pc[2], rest |-> pc[2]])
    [] inst = "op" /\ pc[1] = "takeover" -> setRegs([regs EXCEPT !.a0 = Loader])
    [] inst = "SaveProgram" -> SaveProgram
    [] inst = "Serve" -> Serve
    [] inst = "LoadRest" -> setRegs([program_intregs EXCEPT !.a0 = Loader])
    [] inst = "LoadA0" -> setRegs([regs EXCEPT !.a0 = program_intregs.a0])
    [] inst = "SaveAll" -> saveContext([tempStackMem EXCEPT !.rest = regs.rest])
    [] inst = "SaveA0" -> saveContext([tempStackMem EXCEPT !.a0 = ucsr.temp[0][2]])
    [] inst = "LoadAll" -> setRegs(tempStackMem)
    [] inst = "ReadCounters" ->
         /\ samples' = samples + 1
         /\ UNCHANGED <<regs, program_intregs, tempStackMem, nowcallnum, status>>
    [] OTHER -> UNCHANGED data

(* The head commits; a uret flushes the pipeline in the next cycle. *)
Commit ==
  /\ running
  /\ rob # <<>>
  /\ rob[1].exception = "none"
  /\ rob[1].done
  /\ commitEffect(rob[1].pc)
  /\ IF Inst(rob[1].pc) \in URets
       THEN /\ flush' = [kind |-> Inst(rob[1].pc), pc |-> rob[1].pc]
            /\ rob' = <<>>
            /\ dis' = <<>>
       ELSE /\ rob' = Tail(rob)
            /\ UNCHANGED <<flush, dis>>
  /\ ucsr' = IF Inst(rob[1].pc) = "RstPFC" THEN [counted EXCEPT !.instCounter = 0]
             ELSE counted
  /\ Clock(1)
  /\ UNCHANGED <<fpc, intr, runLength, warmup>>

(* The head has an exception: com_xcpt, and the pipeline is emptied. *)
Throw_WhenDone ==
  /\ running
  /\ rob # <<>>
  /\ rob[1].exception # "none"
  /\ rob[1].done
  /\ flush' = [kind |-> rob[1].exception, pc |-> rob[1].pc]
  /\ rob' = <<>>
  /\ dis' = <<>>
  /\ ucsr' = counted
  /\ Clock(0)
  /\ UNCHANGED <<fpc, data, intr, runLength, warmup>>

Throw ==
  /\ running
  /\ rob # <<>>
  /\ rob[1].exception # "none"
  /\ flush' = [kind |-> rob[1].exception, pc |-> rob[1].pc]
  /\ rob' = <<>>
  /\ dis' = <<>>
  /\ ucsr' = counted
  /\ Clock(0)
  /\ UNCHANGED <<fpc, data, intr, runLength, warmup>>

(* A cycle in which nothing moves. *)
Stall ==
  /\ status = "run"
  /\ flush.kind = "none"
  /\ ucsr' = counted
  /\ Clock(0)
  /\ UNCHANGED <<pipeline, data, intr, runLength, warmup>>

-----------------------------------------------------------------------------
(* The cycle after a flush. *)
noFlush == flush' = [kind |-> "none", pc |-> NoPc]

temp(kind) ==
  ucsr.temp[CASE kind = "URet0" -> 0 [] kind = "URet2" -> 2 [] kind = "URet3" -> 3]

Return ==
  /\ flush.kind \in URets
  /\ fpc' = temp(flush.kind)
  /\ noFlush
  /\ ucsr' = counted
  /\ Clock(0)
  /\ UNCHANGED <<dis, rob, data, intr, runLength, warmup>>

(* A Cause_OverFlow exception while overflow_event still holds goes to     *)
(* sample_func and not to the kernel.  (With exitFuncAddr = 0 it would     *)
(* become a system call for ptrace; init_start sets exitFuncAddr before    *)
(* maxEventNum.)                                                           *)
isOverFlowExcpt == flush.kind = "Cause_OverFlow" /\ overflow_event

Divert_KeepTag ==
  /\ isOverFlowExcpt
  /\ ucsr.exitFuncAddr # NoPc
  /\ fpc' = ucsr.exitFuncAddr
  /\ noFlush
  /\ ucsr' = [counted EXCEPT !.maxEventNum = 0, !.nowEventNum = 0,
                             !.userExitPC = flush.pc]
  /\ Clock(0)
  /\ UNCHANGED <<dis, rob, data, intr, runLength, warmup>>

Divert ==
  /\ isOverFlowExcpt
  /\ ucsr.exitFuncAddr # NoPc
  /\ fpc' = ucsr.exitFuncAddr
  /\ noFlush
  /\ ucsr' = [counted EXCEPT !.procTag = FALSE, !.maxEventNum = 0, !.nowEventNum = 0,
                             !.pfc_enable = FALSE, !.userExitPC = flush.pc]
  /\ Clock(0)
  /\ UNCHANGED <<dis, rob, data, intr, runLength, warmup>>

(* Any other exception is the kernel's: it serves an interrupt, and ends   *)
(* the process at a cause it does not know.                                *)
Trap ==
  /\ flush.kind \in {"interrupt", "Cause_OverFlow"}
  /\ ~isOverFlowExcpt
  /\ fpc' = flush.pc
  /\ noFlush
  /\ status' = IF flush.kind = "interrupt" THEN status ELSE "killed"
  /\ ucsr' = counted
  /\ Cycle(0, 0)
  /\ UNCHANGED <<dis, rob, regs, program_intregs, tempStackMem, nowcallnum,
                 samples, intr, runLength, warmup>>

(* The kernel returns; its last instruction may commit in this cycle. *)
Eret(c) ==
  /\ status = "run"
  /\ user = 0
  /\ user' = 1
  /\ committed' = c
  /\ ucsr' = counted
  /\ UNCHANGED <<pipeline, data, intr, window, runLength, warmup>>

Next ==
  \/ \E interrupt \in BOOLEAN : Decode(interrupt)
  \/ Dispatch
  \/ \E i \in 1..RobSize : Execute(i)
  \/ Commit
  \/ Throw
  \/ Stall
  \/ Return
  \/ Divert
  \/ Trap
  \/ \E c \in 0..1 : Eret(c)

(* The clock runs, and no instruction stalls forever. *)
Spec == Init /\ [][Next]_vars /\ WF_vars(Next)

-----------------------------------------------------------------------------
TypeOK ==
  /\ \A i \in DOMAIN rob : rob[i].pc[2] \in DOMAIN Code[rob[i].pc[1]]
  /\ Len(rob) <= RobSize /\ Len(dis) <= 1
  /\ user \in 0..3
  /\ committed \in 0..1
  /\ status \in {"run", "exit", "killed"}
  /\ flush.kind \in URets \cup {"none", "interrupt", "Cause_OverFlow"}
  /\ {ucsr.nowEventNum, ucsr.nowWarmupInsts, window, nowcallnum, samples} \subseteq Nat

(* The next instruction to commit, if it is known. *)
atHead(pc) == rob # <<>> /\ rob[1].pc = pc /\ rob[1].exception = "none"

(* A sample is invisible to the slice: every instruction of the slice      *)
(* commits with the registers that the slice computed, wherever the core   *)
(* diverted it to sample_func: in the slice itself, or in takeoverSyscall  *)
(* while registers are half saved or half restored and a return address    *)
(* waits in a temp register.                                               *)
SampleTransparent ==
  \A k \in 1..(ProgLen + 1) : atHead(<<"prog", k>>) /\ rob[1].done => regs = Context(k)

(* The slice is diverted on time: after more than runLength instructions   *)
(* that were tagged and past the warm-up, not counting those of the        *)
(* kernel, and no later than the instructions already in the pipeline.     *)
SampleOnTime ==
  isOverFlowExcpt => window \in (runLength + 1)..(runLength + RobSize + 3)

(* When sample_func reads the counters they hold the instructions of the   *)
(* window, at most one more for each return from the kernel, and none of   *)
(* its own.                                                                *)
CountersHoldWindow ==
  warmup > 0 /\ atHead(<<"sample", 5>>) =>
    ucsr.instCounter \in window..(window + intr)

(* A slice of warmup + runLength instructions is sampled exactly once      *)
(* before the loader exits: the counts of the core run behind, but the     *)
(* loader's own tagged instructions more than make up for it.              *)
SampledBeforeExit ==
  status = "exit" /\ ProgLen >= warmup + runLength => samples = 1

(* The replay ends: sample_func always gets back to the slice and the      *)
(* slice to its exit instruction.                                          *)
ReplayEnds == <>(status # "run")

(* core.scala: "overflow maxevent will not cause exception to kernel". *)
OverflowStaysInUser == status # "killed"
=============================================================================
