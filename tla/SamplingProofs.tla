--------------------------- MODULE SamplingProofs ---------------------------
(***************************************************************************)
(* Proofs about a sampled replay on the extended core: for every slice,    *)
(* run length, warm-up, size of the reorder buffer and number of           *)
(* interrupts.                                                             *)
(***************************************************************************)
EXTENDS Sampling, SequenceTheorems, FiniteSetTheorems, WellFoundedInduction, TLAPS

-----------------------------------------------------------------------------
(* The code of the loader and of the slice. *)
Regions == {"init", "prog", "takeover", "sample"}

Insts ==
  URets \cup SetInsts \cup
  {"op", "RstPFC", "LoadRest", "LoadA0", "SaveProgram", "Serve", "SaveAll", "SaveA0",
   "ReadCounters", "LoadAll"}

(* Ordinary loader instructions. *)
LEMMA OpsSeq ==
  ASSUME NEW n \in Nat
  PROVE  Ops(n) \in Seq(Insts) /\ Len(Ops(n)) = n /\ \A k \in 1..n : Ops(n)[k] = "op"
<1>1. "op" \in Insts
  BY DEF Insts
<1>2. Ops(n) \in [1..n -> Insts] /\ \A k \in 1..n : Ops(n)[k] = "op"
  BY <1>1 DEF Ops
<1>3. QED
  BY <1>2

(* The instructions of read_ckptinfo. *)
LEMMA InitCode ==
  /\ initCode \in Seq(Insts) /\ Len(initCode) = LoaderOps + 9
  /\ initCode[1] = "RstPFC" /\ initCode[2] = "SetPfcEnable" /\ initCode[3] = "SetProcTag"
  /\ initCode[4] = "SetFuncAddr" /\ initCode[5] = "SetMaxEventNum"
  /\ initCode[6] = "SetWarmupInst"
  /\ \A k \in 1..LoaderOps : initCode[6 + k] = "op"
  /\ initCode[LoaderOps + 7] = "LoadRest" /\ initCode[LoaderOps + 8] = "LoadA0"
  /\ initCode[LoaderOps + 9] = "URet2"
<1> DEFINE b == <<"RstPFC", "SetPfcEnable", "SetProcTag", "SetFuncAddr",
                  "SetMaxEventNum", "SetWarmupInst">>
           a == <<"LoadRest", "LoadA0", "URet2">>
<1>1. b \in Seq(Insts) /\ Len(b) = 6 /\ a \in Seq(Insts) /\ Len(a) = 3
  BY DEF Insts, SetInsts, URets
<1>2. /\ b[1] = "RstPFC" /\ b[2] = "SetPfcEnable" /\ b[3] = "SetProcTag"
      /\ b[4] = "SetFuncAddr" /\ b[5] = "SetMaxEventNum" /\ b[6] = "SetWarmupInst"
      /\ a[1] = "LoadRest" /\ a[2] = "LoadA0" /\ a[3] = "URet2"
  OBVIOUS
<1> DEFINE o == Ops(LoaderOps)
           t == b \o o
           u == t \o a
<1>3. initCode = u
  BY DEF initCode
<1>4. LoaderOps \in Nat /\ o \in Seq(Insts) /\ Len(o) = LoaderOps
      /\ \A k \in 1..LoaderOps : o[k] = "op"
  BY SamplingAssumption, OpsSeq
<1> HIDE DEF a, b, o
<1>5. /\ t \in Seq(Insts) /\ Len(t) = Len(b) + Len(o)
      /\ \A k \in 1..(Len(b) + Len(o)) : t[k] = IF k <= Len(b) THEN b[k] ELSE o[k - Len(b)]
  BY <1>1, <1>4, ConcatProperties
<1> HIDE DEF t
<1>6. /\ u \in Seq(Insts) /\ Len(u) = Len(t) + Len(a)
      /\ \A k \in 1..(Len(t) + Len(a)) : u[k] = IF k <= Len(t) THEN t[k] ELSE a[k - Len(t)]
  <2>1. t \in Seq(Insts) /\ a \in Seq(Insts)
    BY <1>1, <1>5
  <2>2. QED
    BY <2>1, ConcatProperties
<1> HIDE DEF u
<1>7. Len(t) = LoaderOps + 6 /\ Len(u) = LoaderOps + 9
  BY <1>1, <1>4, <1>5, <1>6
<1>8. ASSUME NEW k \in 1..6 PROVE u[k] = b[k]
  BY <1>1, <1>4, <1>5, <1>6, <1>7
<1>9. ASSUME NEW k \in 1..LoaderOps PROVE u[6 + k] = "op"
  <2>1. 6 + k \in 1..(LoaderOps + 6) /\ ~(6 + k <= 6) /\ (6 + k) - 6 = k
        /\ 6 + k \in 1..(LoaderOps + 9) /\ 6 + k <= LoaderOps + 6
    BY <1>4
  <2>2. u[6 + k] = t[6 + k] /\ t[6 + k] = o[k]
    BY <1>1, <1>4, <1>5, <1>6, <1>7, <2>1
  <2>3. QED
    BY <1>4, <2>2
<1>10. ASSUME NEW k \in 1..3 PROVE u[LoaderOps + 6 + k] = a[k]
  <2>1. LoaderOps + 6 + k \in 1..(LoaderOps + 9) /\ ~(LoaderOps + 6 + k <= LoaderOps + 6)
        /\ (LoaderOps + 6 + k) - (LoaderOps + 6) = k
    BY <1>4
  <2>2. QED
    BY <1>1, <1>6, <1>7, <2>1
<1>11. /\ u[LoaderOps + 7] = a[1] /\ u[LoaderOps + 8] = a[2] /\ u[LoaderOps + 9] = a[3]
  <2>1. /\ LoaderOps + 6 + 1 = LoaderOps + 7 /\ LoaderOps + 6 + 2 = LoaderOps + 8
        /\ LoaderOps + 6 + 3 = LoaderOps + 9
    BY <1>4
  <2>2. QED
    BY <1>10, <2>1
<1>12. QED
  BY <1>2, <1>3, <1>6, <1>7, <1>8, <1>9, <1>11

(* The instructions of takeoverSyscall. *)
LEMMA TakeoverCode ==
  /\ takeoverCode \in Seq(Insts) /\ Len(takeoverCode) = LoaderOps + 8
  /\ \A k \in 1..LoaderOps : takeoverCode[k] = "op"
  /\ takeoverCode[LoaderOps + 1] = "SaveProgram" /\ takeoverCode[LoaderOps + 2] = "ClearProcTag"
  /\ takeoverCode[LoaderOps + 3] = "Serve" /\ takeoverCode[LoaderOps + 4] = "SetTemp2Npc"
  /\ takeoverCode[LoaderOps + 5] = "SetProcTag" /\ takeoverCode[LoaderOps + 6] = "LoadRest"
  /\ takeoverCode[LoaderOps + 7] = "LoadA0" /\ takeoverCode[LoaderOps + 8] = "URet2"
<1> DEFINE a == <<"SaveProgram", "ClearProcTag", "Serve", "SetTemp2Npc", "SetProcTag",
                  "LoadRest", "LoadA0", "URet2">>
           o == Ops(LoaderOps)
<1>1. a \in Seq(Insts) /\ Len(a) = 8 /\ LoaderOps \in Nat
  BY SamplingAssumption DEF Insts, SetInsts, URets
<1>2. /\ a[1] = "SaveProgram" /\ a[2] = "ClearProcTag" /\ a[3] = "Serve"
      /\ a[4] = "SetTemp2Npc" /\ a[5] = "SetProcTag" /\ a[6] = "LoadRest"
      /\ a[7] = "LoadA0" /\ a[8] = "URet2"
  OBVIOUS
<1>3. takeoverCode = o \o a
  BY DEF takeoverCode
<1>4. o \in Seq(Insts) /\ Len(o) = LoaderOps /\ \A k \in 1..LoaderOps : o[k] = "op"
  BY <1>1, OpsSeq
<1> HIDE DEF a, o
<1>5. /\ takeoverCode \in Seq(Insts) /\ Len(takeoverCode) = LoaderOps + 8
      /\ \A k \in 1..(LoaderOps + 8) :
           takeoverCode[k] = IF k <= LoaderOps THEN o[k] ELSE a[k - LoaderOps]
  <2> DEFINE u == o \o a
  <2>1. /\ u \in Seq(Insts) /\ Len(u) = Len(o) + Len(a)
        /\ \A k \in 1..(Len(o) + Len(a)) : u[k] = IF k <= Len(o) THEN o[k] ELSE a[k - Len(o)]
    BY <1>1, <1>4, ConcatProperties
  <2> HIDE DEF u
  <2>2. QED
    BY <1>1, <1>3, <1>4, <2>1 DEF u
<1>6. ASSUME NEW k \in 1..8 PROVE takeoverCode[LoaderOps + k] = a[k]
  <2>1. LoaderOps + k \in 1..(LoaderOps + 8) /\ ~(LoaderOps + k <= LoaderOps)
        /\ (LoaderOps + k) - LoaderOps = k
    BY <1>1
  <2>2. QED
    BY <1>5, <2>1
<1>7. \A k \in 1..LoaderOps : takeoverCode[k] = "op"
  BY <1>1, <1>4, <1>5
<1>8. QED
  BY <1>2, <1>5, <1>6, <1>7

(* The instructions of sample_func. *)
LEMMA SampleCode ==
  /\ sampleCode \in Seq(Insts) /\ Len(sampleCode) = 13
  /\ sampleCode[1] = "SetTemp0A0" /\ sampleCode[2] = "SaveAll" /\ sampleCode[3] = "SaveA0"
  /\ sampleCode[4] = "SetTemp0ExitPc" /\ sampleCode[5] = "ReadCounters"
  /\ sampleCode[6] = "RstPFC" /\ sampleCode[7] = "SetPfcEnable"
  /\ sampleCode[8] = "SetProcTag" /\ sampleCode[9] = "SetFuncAddr"
  /\ sampleCode[10] = "ClearMaxEventNum" /\ sampleCode[11] = "ClearWarmupInst"
  /\ sampleCode[12] = "LoadAll" /\ sampleCode[13] = "URet0"
  BY DEF sampleCode, Insts, SetInsts, URets

(* A position in the code. *)
At == {p \in Regions \X Nat : p[2] \in DOMAIN Code[p[1]]}

(* How far each region reaches. *)
LEMMA CodeDomain ==
  /\ LoaderOps \in Nat /\ ProgLen \in Nat
  /\ Code["init"] = initCode /\ DOMAIN Code["init"] = 1..(LoaderOps + 9)
  /\ Code["prog"] = progCode /\ DOMAIN Code["prog"] = 1..(ProgLen + 1)
  /\ Code["takeover"] = takeoverCode /\ DOMAIN Code["takeover"] = 1..(LoaderOps + 8)
  /\ Code["sample"] = sampleCode /\ DOMAIN Code["sample"] = 1..13
<1>1. LoaderOps \in Nat /\ ProgLen \in Nat
  BY SamplingAssumption
<1>2. /\ Code["init"] = initCode /\ Code["prog"] = progCode
      /\ Code["takeover"] = takeoverCode /\ Code["sample"] = sampleCode
  BY DEF Code
<1>3. DOMAIN initCode = 1..(LoaderOps + 9)
  BY InitCode
<1>4. DOMAIN takeoverCode = 1..(LoaderOps + 8)
  BY TakeoverCode
<1>5. DOMAIN sampleCode = 1..13
  BY SampleCode
<1>6. DOMAIN progCode = 1..(ProgLen + 1)
  BY DEF progCode
<1>7. QED
  BY <1>1, <1>2, <1>3, <1>4, <1>5, <1>6

(* A position is a region and an offset into it. *)
LEMMA AtShape ==
  ASSUME NEW p \in At
  PROVE  /\ p = <<p[1], p[2]>> /\ p[1] \in Regions /\ p[2] \in Nat /\ p[2] >= 1
         /\ p[1] = "init" => p[2] <= LoaderOps + 9
         /\ p[1] = "prog" => p[2] <= ProgLen + 1
         /\ p[1] = "takeover" => p[2] <= LoaderOps + 8
         /\ p[1] = "sample" => p[2] <= 13
<1>1. p = <<p[1], p[2]>> /\ p[1] \in Regions /\ p[2] \in Nat /\ p[2] \in DOMAIN Code[p[1]]
  BY DEF At
<1>2. CASE p[1] = "init"
  BY <1>1, <1>2, CodeDomain
<1>3. CASE p[1] = "prog"
  BY <1>1, <1>3, CodeDomain
<1>4. CASE p[1] = "takeover"
  BY <1>1, <1>4, CodeDomain
<1>5. CASE p[1] = "sample"
  BY <1>1, <1>5, CodeDomain, SMTT(30)
<1>6. QED
  BY <1>1, <1>2, <1>3, <1>4, <1>5 DEF Regions

(* Which pairs are positions. *)
LEMMA AtPair ==
  ASSUME NEW r \in Regions, NEW j \in Nat, j >= 1,
         \/ r = "init" /\ j <= LoaderOps + 9
         \/ r = "prog" /\ j <= ProgLen + 1
         \/ r = "takeover" /\ j <= LoaderOps + 8
         \/ r = "sample" /\ j <= 13
  PROVE  <<r, j>> \in At
<1>1. j \in DOMAIN Code[r]
  <2>1. CASE r = "init" /\ j <= LoaderOps + 9
    BY <2>1, CodeDomain
  <2>2. CASE r = "prog" /\ j <= ProgLen + 1
    BY <2>2, CodeDomain
  <2>3. CASE r = "takeover" /\ j <= LoaderOps + 8
    BY <2>3, CodeDomain
  <2>4. CASE r = "sample" /\ j <= 13
    BY <2>4, CodeDomain
  <2>5. QED
    BY <2>1, <2>2, <2>3, <2>4
<1>2. QED
  BY <1>1 DEF At

(* The instruction at a position of read_ckptinfo. *)
LEMMA InstInit ==
  ASSUME NEW p \in At, p[1] = "init"
  PROVE  \/ p[2] = 1 /\ Inst(p) = "RstPFC"
         \/ p[2] = 2 /\ Inst(p) = "SetPfcEnable"
         \/ p[2] = 3 /\ Inst(p) = "SetProcTag"
         \/ p[2] = 4 /\ Inst(p) = "SetFuncAddr"
         \/ p[2] = 5 /\ Inst(p) = "SetMaxEventNum"
         \/ p[2] = 6 /\ Inst(p) = "SetWarmupInst"
         \/ p[2] > 6 /\ p[2] <= LoaderOps + 6 /\ Inst(p) = "op"
         \/ p[2] = LoaderOps + 7 /\ Inst(p) = "LoadRest"
         \/ p[2] = LoaderOps + 8 /\ Inst(p) = "LoadA0"
         \/ p[2] = LoaderOps + 9 /\ Inst(p) = "URet2"
<1>1. p[2] \in Nat /\ p[2] >= 1 /\ p[2] <= LoaderOps + 9 /\ LoaderOps \in Nat
  BY AtShape, CodeDomain
<1>2. Inst(p) = initCode[p[2]]
  BY CodeDomain DEF Inst
<1>3. CASE p[2] > 6 /\ p[2] <= LoaderOps + 6
  <2>1. p[2] - 6 \in 1..LoaderOps /\ 6 + (p[2] - 6) = p[2]
    BY <1>1, <1>3
  <2>2. QED
    BY <1>2, <1>3, <2>1, InitCode
<1>4. CASE ~(p[2] > 6 /\ p[2] <= LoaderOps + 6)
  <2>1. p[2] \in {1, 2, 3, 4, 5, 6, LoaderOps + 7, LoaderOps + 8, LoaderOps + 9}
    BY <1>1, <1>4
  <2>2. QED
    BY <1>2, <2>1, InitCode, SMTT(30)
<1>5. QED
  BY <1>3, <1>4

(* The instruction at a position of the slice. *)
LEMMA InstProg ==
  ASSUME NEW p \in At, p[1] = "prog"
  PROVE  \/ p[2] \in Ecalls \cup {ProgLen + 1} /\ Inst(p) = "URet3"
         \/ p[2] \notin Ecalls \cup {ProgLen + 1} /\ p[2] <= ProgLen /\ Inst(p) = "op"
<1>1. p[2] \in 1..(ProgLen + 1) /\ ProgLen \in Nat
  BY AtShape, CodeDomain
<1>2. Inst(p) = progCode[p[2]]
  BY CodeDomain DEF Inst
<1>3. QED
  BY <1>1, <1>2 DEF progCode

(* The instruction at a position of takeoverSyscall. *)
LEMMA InstTakeover ==
  ASSUME NEW p \in At, p[1] = "takeover"
  PROVE  \/ p[2] <= LoaderOps /\ Inst(p) = "op"
         \/ p[2] = LoaderOps + 1 /\ Inst(p) = "SaveProgram"
         \/ p[2] = LoaderOps + 2 /\ Inst(p) = "ClearProcTag"
         \/ p[2] = LoaderOps + 3 /\ Inst(p) = "Serve"
         \/ p[2] = LoaderOps + 4 /\ Inst(p) = "SetTemp2Npc"
         \/ p[2] = LoaderOps + 5 /\ Inst(p) = "SetProcTag"
         \/ p[2] = LoaderOps + 6 /\ Inst(p) = "LoadRest"
         \/ p[2] = LoaderOps + 7 /\ Inst(p) = "LoadA0"
         \/ p[2] = LoaderOps + 8 /\ Inst(p) = "URet2"
<1>1. p[2] \in Nat /\ p[2] >= 1 /\ p[2] <= LoaderOps + 8 /\ LoaderOps \in Nat
  BY AtShape, CodeDomain
<1>2. Inst(p) = takeoverCode[p[2]]
  BY CodeDomain DEF Inst
<1>3. CASE p[2] <= LoaderOps
  BY <1>1, <1>2, <1>3, TakeoverCode
<1>4. CASE ~(p[2] <= LoaderOps)
  <2>1. p[2] \in {LoaderOps + 1, LoaderOps + 2, LoaderOps + 3, LoaderOps + 4,
                  LoaderOps + 5, LoaderOps + 6, LoaderOps + 7, LoaderOps + 8}
    BY <1>1, <1>4
  <2>2. QED
    BY <1>2, <2>1, TakeoverCode
<1>5. QED
  BY <1>3, <1>4

(* The instruction at a position of sample_func. *)
LEMMA InstSample ==
  ASSUME NEW p \in At, p[1] = "sample"
  PROVE  \/ p[2] = 1 /\ Inst(p) = "SetTemp0A0"
         \/ p[2] = 2 /\ Inst(p) = "SaveAll"
         \/ p[2] = 3 /\ Inst(p) = "SaveA0"
         \/ p[2] = 4 /\ Inst(p) = "SetTemp0ExitPc"
         \/ p[2] = 5 /\ Inst(p) = "ReadCounters"
         \/ p[2] = 6 /\ Inst(p) = "RstPFC"
         \/ p[2] = 7 /\ Inst(p) = "SetPfcEnable"
         \/ p[2] = 8 /\ Inst(p) = "SetProcTag"
         \/ p[2] = 9 /\ Inst(p) = "SetFuncAddr"
         \/ p[2] = 10 /\ Inst(p) = "ClearMaxEventNum"
         \/ p[2] = 11 /\ Inst(p) = "ClearWarmupInst"
         \/ p[2] = 12 /\ Inst(p) = "LoadAll"
         \/ p[2] = 13 /\ Inst(p) = "URet0"
<1>1. p[2] \in Nat /\ p[2] >= 1 /\ p[2] <= 13
  BY AtShape
<1>2. Inst(p) = sampleCode[p[2]]
  BY CodeDomain DEF Inst
<1>3. p[2] \in {1, 2, 3, 4, 5, 6, 7, 8, 9, 10, 11, 12, 13}
  BY <1>1
<1>4. QED
  BY <1>2, <1>3, SampleCode

(* Every region ends in a uret. *)
LEMMA NextAt ==
  ASSUME NEW p \in At, Inst(p) \notin URets
  PROVE  Next1(p) \in At
<1>1. p = <<p[1], p[2]>> /\ p[1] \in Regions /\ p[2] \in Nat /\ p[2] >= 1
      /\ LoaderOps \in Nat /\ ProgLen \in Nat
  BY AtShape, CodeDomain
<1>2. \/ p[1] = "init" /\ p[2] + 1 <= LoaderOps + 9
      \/ p[1] = "prog" /\ p[2] + 1 <= ProgLen + 1
      \/ p[1] = "takeover" /\ p[2] + 1 <= LoaderOps + 8
      \/ p[1] = "sample" /\ p[2] + 1 <= 13
  <2>1. CASE p[1] = "init"
    BY <1>1, <2>1, InstInit DEF URets
  <2>2. CASE p[1] = "prog"
    BY <1>1, <2>2, InstProg DEF URets
  <2>3. CASE p[1] = "takeover"
    BY <1>1, <2>3, InstTakeover DEF URets
  <2>4. CASE p[1] = "sample"
    BY <1>1, <2>4, InstSample DEF URets
  <2>5. QED
    BY <1>1, <2>1, <2>2, <2>3, <2>4 DEF Regions
<1>3. QED
  BY <1>1, <1>2, AtPair DEF Next1

-----------------------------------------------------------------------------
(* The registers added to the core. *)
UcsrFields ==
  {"procTag", "exitFuncAddr", "warmupInstNum", "maxEventNum", "pfc_enable",
   "userExitPC", "nowWarmupInsts", "nowEventNum", "instCounter", "temp"}

UcsrType(u) ==
  /\ DOMAIN u = UcsrFields
  /\ u.procTag \in BOOLEAN /\ u.pfc_enable \in BOOLEAN
  /\ u.warmupInstNum \in Nat /\ u.maxEventNum \in Nat
  /\ u.nowWarmupInsts \in Nat /\ u.nowEventNum \in Nat /\ u.instCounter \in Nat
  /\ DOMAIN u.temp = {0, 2, 3}

(* The registers that no cycle changes by itself. *)
Kept(u) ==
  /\ u.procTag = ucsr.procTag /\ u.exitFuncAddr = ucsr.exitFuncAddr
  /\ u.maxEventNum = ucsr.maxEventNum /\ u.pfc_enable = ucsr.pfc_enable
  /\ u.userExitPC = ucsr.userExitPC /\ u.temp = ucsr.temp

(* What a cycle does to the registers. *)
LEMMA Counted ==
  ASSUME UcsrType(ucsr), committed \in Nat
  PROVE  /\ UcsrType(counted) /\ Kept(counted)
         /\ counted.nowWarmupInsts = IF warmupEnds THEN 0
              ELSE IF warmupValid THEN ucsr.nowWarmupInsts + committed
              ELSE ucsr.nowWarmupInsts
         /\ counted.warmupInstNum = IF warmupEnds THEN 0 ELSE ucsr.warmupInstNum
         /\ counted.nowEventNum = IF warmupEnds THEN 0
              ELSE IF sampleValid THEN ucsr.nowEventNum + committed ELSE ucsr.nowEventNum
         /\ counted.instCounter = IF warmupEnds THEN 0
              ELSE IF startCounter THEN ucsr.instCounter + committed ELSE ucsr.instCounter
<1>1. DOMAIN counted = UcsrFields
  BY DEF UcsrType, UcsrFields, counted
<1>2. Kept(counted)
  BY DEF UcsrType, UcsrFields, counted, Kept
<1>3. /\ counted.nowWarmupInsts = IF warmupEnds THEN 0
           ELSE IF warmupValid THEN ucsr.nowWarmupInsts + committed
           ELSE ucsr.nowWarmupInsts
      /\ counted.warmupInstNum = IF warmupEnds THEN 0 ELSE ucsr.warmupInstNum
  BY DEF UcsrType, UcsrFields, counted
<1>4. /\ counted.nowEventNum = IF warmupEnds THEN 0
           ELSE IF sampleValid THEN ucsr.nowEventNum + committed ELSE ucsr.nowEventNum
      /\ counted.instCounter = IF warmupEnds THEN 0
           ELSE IF startCounter THEN ucsr.instCounter + committed ELSE ucsr.instCounter
  BY DEF UcsrType, UcsrFields, counted
<1>5. UcsrType(counted)
  BY <1>1, <1>2, <1>3, <1>4 DEF UcsrType, Kept
<1>6. QED
  BY <1>2, <1>3, <1>4, <1>5

(* What a cycle does in which a ucsr instruction writes. *)
LEMMA Written ==
  ASSUME UcsrType(ucsr), committed \in Nat, runLength \in Nat, warmup \in Nat,
         NEW inst
  PROVE  LET w == ucsrWrite(inst)
             c == counted IN
         /\ UcsrType(w)
         /\ w.procTag = IF inst = "SetProcTag" THEN TRUE
                        ELSE IF inst = "ClearProcTag" THEN FALSE ELSE ucsr.procTag
         /\ w.exitFuncAddr = IF inst = "SetFuncAddr" THEN SampleFunc ELSE ucsr.exitFuncAddr
         /\ w.pfc_enable = IF inst = "SetPfcEnable" THEN TRUE ELSE ucsr.pfc_enable
         /\ w.userExitPC = ucsr.userExitPC
         /\ w.maxEventNum = IF inst = "SetMaxEventNum" THEN runLength
                            ELSE IF inst = "ClearMaxEventNum" THEN 0 ELSE ucsr.maxEventNum
         /\ w.nowEventNum = IF inst \in {"SetMaxEventNum", "ClearMaxEventNum"} THEN 0
                            ELSE c.nowEventNum
         /\ w.warmupInstNum = IF inst = "SetWarmupInst" THEN warmup
                              ELSE IF inst = "ClearWarmupInst" THEN 0 ELSE c.warmupInstNum
         /\ w.nowWarmupInsts = IF inst \in {"SetWarmupInst", "ClearWarmupInst"} THEN 0
                               ELSE c.nowWarmupInsts
         /\ w.instCounter = c.instCounter
         /\ w.temp[0] = IF inst = "SetTemp0A0" THEN <<"a0", regs.a0>>
                        ELSE IF inst = "SetTemp0ExitPc" THEN ucsr.userExitPC
                        ELSE ucsr.temp[0]
         /\ w.temp[2] = IF inst = "SetTemp2Npc" THEN <<"prog", CallPc(nowcallnum) + 1>>
                        ELSE ucsr.temp[2]
         /\ w.temp[3] = ucsr.temp[3]
<1> DEFINE w == ucsrWrite(inst)
           c == counted
           n == <<"prog", CallPc(nowcallnum) + 1>>
           a == <<"a0", regs.a0>>
<1>1. UcsrType(c) /\ Kept(c)
  BY Counted
<1>2. w = CASE inst = "SetProcTag"       -> [c EXCEPT !.procTag = TRUE]
    [] inst = "ClearProcTag"     -> [c EXCEPT !.procTag = FALSE]
    [] inst = "SetFuncAddr"      -> [c EXCEPT !.exitFuncAddr = SampleFunc]
    [] inst = "SetPfcEnable"     -> [c EXCEPT !.pfc_enable = TRUE]
    [] inst = "SetMaxEventNum"   -> [c EXCEPT !.maxEventNum = runLength,
                                              !.nowEventNum = 0]
    [] inst = "ClearMaxEventNum" -> [c EXCEPT !.maxEventNum = 0, !.nowEventNum = 0]
    [] inst = "SetWarmupInst"    -> [c EXCEPT !.warmupInstNum = warmup,
                                              !.nowWarmupInsts = 0]
    [] inst = "ClearWarmupInst"  -> [c EXCEPT !.warmupInstNum = 0,
                                              !.nowWarmupInsts = 0]
    [] inst = "SetTemp0A0"       -> [c EXCEPT !.temp[0] = a]
    [] inst = "SetTemp0ExitPc"   -> [c EXCEPT !.temp[0] = ucsr.userExitPC]
    [] inst = "SetTemp2Npc"      -> [c EXCEPT !.temp[2] = n]
    [] OTHER                     -> c
  BY DEF ucsrWrite
<1> HIDE DEF w, c, n, a
<1> DEFINE Goal ==
       /\ UcsrType(w)
       /\ w.procTag = IF inst = "SetProcTag" THEN TRUE
                      ELSE IF inst = "ClearProcTag" THEN FALSE ELSE ucsr.procTag
       /\ w.exitFuncAddr = IF inst = "SetFuncAddr" THEN SampleFunc ELSE ucsr.exitFuncAddr
       /\ w.pfc_enable = IF inst = "SetPfcEnable" THEN TRUE ELSE ucsr.pfc_enable
       /\ w.userExitPC = ucsr.userExitPC
       /\ w.maxEventNum = IF inst = "SetMaxEventNum" THEN runLength
                          ELSE IF inst = "ClearMaxEventNum" THEN 0 ELSE ucsr.maxEventNum
       /\ w.nowEventNum = IF inst \in {"SetMaxEventNum", "ClearMaxEventNum"} THEN 0
                          ELSE c.nowEventNum
       /\ w.warmupInstNum = IF inst = "SetWarmupInst" THEN warmup
                            ELSE IF inst = "ClearWarmupInst" THEN 0 ELSE c.warmupInstNum
       /\ w.nowWarmupInsts = IF inst \in {"SetWarmupInst", "ClearWarmupInst"} THEN 0
                             ELSE c.nowWarmupInsts
       /\ w.instCounter = c.instCounter
       /\ w.temp[0] = IF inst = "SetTemp0A0" THEN a
                      ELSE IF inst = "SetTemp0ExitPc" THEN ucsr.userExitPC
                      ELSE ucsr.temp[0]
       /\ w.temp[2] = IF inst = "SetTemp2Npc" THEN n ELSE ucsr.temp[2]
       /\ w.temp[3] = ucsr.temp[3]
<1> SUFFICES Goal
  BY DEF w, c, n, a
<1>3. CASE inst = "SetProcTag"
  <2>1. w = [c EXCEPT !.procTag = TRUE]
    BY <1>2, <1>3
  <2>2. QED
    BY <1>1, <1>3, <2>1 DEF UcsrType, UcsrFields, Kept
<1>4. CASE inst = "ClearProcTag"
  <2>1. w = [c EXCEPT !.procTag = FALSE]
    BY <1>2, <1>4
  <2>2. QED
    BY <1>1, <1>4, <2>1 DEF UcsrType, UcsrFields, Kept
<1>5. CASE inst = "SetFuncAddr"
  <2>1. w = [c EXCEPT !.exitFuncAddr = SampleFunc]
    BY <1>2, <1>5
  <2>2. QED
    BY <1>1, <1>5, <2>1 DEF UcsrType, UcsrFields, Kept
<1>6. CASE inst = "SetPfcEnable"
  <2>1. w = [c EXCEPT !.pfc_enable = TRUE]
    BY <1>2, <1>6
  <2>2. QED
    BY <1>1, <1>6, <2>1 DEF UcsrType, UcsrFields, Kept
<1>7. CASE inst = "SetMaxEventNum"
  <2>1. w = [c EXCEPT !.maxEventNum = runLength, !.nowEventNum = 0]
    BY <1>2, <1>7
  <2>2. QED
    BY <1>1, <1>7, <2>1 DEF UcsrType, UcsrFields, Kept
<1>8. CASE inst = "ClearMaxEventNum"
  <2>1. w = [c EXCEPT !.maxEventNum = 0, !.nowEventNum = 0]
    BY <1>2, <1>8
  <2>2. QED
    BY <1>1, <1>8, <2>1 DEF UcsrType, UcsrFields, Kept
<1>9. CASE inst = "SetWarmupInst"
  <2>1. w = [c EXCEPT !.warmupInstNum = warmup, !.nowWarmupInsts = 0]
    BY <1>2, <1>9
  <2>2. QED
    BY <1>1, <1>9, <2>1 DEF UcsrType, UcsrFields, Kept
<1>10. CASE inst = "ClearWarmupInst"
  <2>1. w = [c EXCEPT !.warmupInstNum = 0, !.nowWarmupInsts = 0]
    BY <1>2, <1>10
  <2>2. QED
    BY <1>1, <1>10, <2>1 DEF UcsrType, UcsrFields, Kept
<1>11. CASE inst = "SetTemp0A0"
  <2>1. w = [c EXCEPT !.temp[0] = a]
    BY <1>2, <1>11
  <2>2. QED
    BY <1>1, <1>11, <2>1 DEF UcsrType, UcsrFields, Kept
<1>12. CASE inst = "SetTemp0ExitPc"
  <2>1. w = [c EXCEPT !.temp[0] = ucsr.userExitPC]
    BY <1>2, <1>12
  <2>2. QED
    BY <1>1, <1>12, <2>1 DEF UcsrType, UcsrFields, Kept
<1>13. CASE inst = "SetTemp2Npc"
  <2>1. w = [c EXCEPT !.temp[2] = n]
    BY <1>2, <1>13
  <2>2. QED
    BY <1>1, <1>13, <2>1 DEF UcsrType, UcsrFields, Kept
<1>14. CASE inst \notin SetInsts
  <2>1. w = c
    BY <1>2, <1>14 DEF SetInsts
  <2>2. QED
    BY <1>1, <1>14, <2>1 DEF UcsrType, Kept, SetInsts
<1>15. QED
  BY <1>3, <1>4, <1>5, <1>6, <1>7, <1>8, <1>9, <1>10, <1>11, <1>12, <1>13, <1>14 DEF SetInsts

-----------------------------------------------------------------------------
(* The pipeline. *)
Exceptions == {"none", "interrupt", "Cause_OverFlow"}

Entry == [pc : At, done : BOOLEAN, exception : Exceptions]

(* The next instruction in program order that has not committed. *)
head ==
  IF Len(rob) > 0 THEN rob[1].pc
  ELSE IF Len(dis) > 0 THEN dis[1].pc
  ELSE IF flush.kind = "none" THEN fpc
  ELSE IF flush.kind \in URets THEN temp(flush.kind)
  ELSE flush.pc

(* A ucsr instruction has executed and not yet committed. *)
fired == Len(rob) > 0 /\ rob[1].done /\ is_unique(rob[1].pc)

PipeTypes ==
  /\ rob \in Seq(Entry) /\ Len(rob) <= RobSize
  /\ dis \in Seq(Entry) /\ Len(dis) <= 1
  /\ flush.kind \in URets \cup Exceptions
  /\ user \in 0..3 /\ committed \in 0..1 /\ intr \in Nat
  /\ status \in {"run", "exit", "killed"}

(* The reorder buffer holds the instructions from head on, a ucsr          *)
(* instruction is alone in it, and only its last entry has an exception.   *)
RobInv ==
  \A n \in 1..Len(rob) :
    /\ rob[n].pc = <<head[1], head[2] + (n - 1)>>
    /\ is_unique(rob[n].pc) => Len(rob) = 1
    /\ n < Len(rob) => rob[n].exception = "none"
    /\ rob[n].exception # "none" => ~rob[n].done

(* Dispatch and decode follow it in program order. *)
FetchInv ==
  /\ Len(dis) = 1 => dis[1].pc = <<head[1], head[2] + Len(rob)>> /\ ~dis[1].done
  /\ flush.kind = "none" => fpc = <<head[1], head[2] + Len(rob) + Len(dis)>>

(* The pipeline is empty in the cycle of a flush and after the kernel. *)
ModeInv ==
  /\ flush.kind # "none" => Len(rob) = 0 /\ Len(dis) = 0 /\ user = 3 /\ status = "run"
  /\ flush.kind \in {"interrupt", "Cause_OverFlow"} => committed = 0
  /\ user <= 1 => Len(dis) = 0
  /\ user <= 2 => Len(rob) = 0
  /\ user \in {0, 2} => committed = 0

PipeInv == PipeTypes /\ head \in At /\ RobInv /\ FetchInv /\ ModeInv

(* Every step is one of four moves.  Most steps only move the pipeline and *)
(* the clock.                                                              *)
Quiet ==
  /\ head' = head /\ (fired' <=> fired)
  /\ ucsr' = counted
  /\ status = "run" /\ status' \in {"run", "killed"}
  /\ UNCHANGED <<regs, program_intregs, tempStackMem, nowcallnum, samples>>
  /\ \/ Clock(0) /\ user' \in 0..3 /\ (user = 3 => user' = 3)
        /\ (user # 3 => user' >= user /\ (user' = 3 => user = 2))
        /\ (user = 0 <=> user' = 0)
     \/ Cycle(0, 0) /\ user = 3 /\ committed = 0
     \/ user = 0 /\ user' = 1 /\ committed' \in 0..1 /\ window' = window

(* A ucsr instruction executes. *)
Fire ==
  /\ user = 3 /\ user' = 3 /\ status = "run"
  /\ is_unique(head) /\ ~fired /\ fired' /\ head' = head
  /\ ucsr' = ucsrWrite(Inst(head))
  /\ UNCHANGED data
  /\ Clock(0)

(* An instruction commits. *)
CommitHead ==
  /\ user = 3 /\ user' = 3 /\ status = "run"
  /\ (is_unique(head) => fired) /\ ~fired'
  /\ head' = IF Inst(head) \in URets THEN temp(Inst(head)) ELSE Next1(head)
  /\ commitEffect(head)
  /\ ucsr' = IF Inst(head) = "RstPFC" THEN [counted EXCEPT !.instCounter = 0] ELSE counted
  /\ Clock(1)

(* The slice is diverted to sample_func. *)
DivertHead ==
  /\ user = 3 /\ user' = 3 /\ status = "run" /\ committed = 0 /\ overflow_event
  /\ ~fired /\ ~fired' /\ ucsr.exitFuncAddr # NoPc
  /\ head' = ucsr.exitFuncAddr
  /\ ucsr' = [counted EXCEPT !.procTag = FALSE, !.maxEventNum = 0, !.nowEventNum = 0,
                             !.pfc_enable = FALSE, !.userExitPC = head]
  /\ UNCHANGED data
  /\ Clock(0)

Move == Quiet \/ Fire \/ CommitHead \/ DivertHead

(* A sequence is empty exactly when its length is 0. *)
LEMMA EmptyLen ==
  ASSUME NEW s \in Seq(Entry)
  PROVE  Len(s) \in Nat /\ (s = <<>> <=> Len(s) = 0) /\ (s # <<>> <=> Len(s) > 0)
         /\ \A n \in 1..Len(s) : s[n] \in Entry
  BY EmptySeq, LenProperties, ElementOfSeq

(* Dispatch adds one entry at the end. *)
LEMMA Dispatched ==
  ASSUME NEW s \in Seq(Entry), NEW t \in Seq(Entry), Len(t) = 1
  PROVE  /\ s \o t \in Seq(Entry) /\ Len(s \o t) = Len(s) + 1
         /\ \A n \in 1..Len(s) : (s \o t)[n] = s[n]
         /\ (s \o t)[Len(s) + 1] = t[1]
<1> DEFINE u == s \o t
<1>1. /\ u \in Seq(Entry) /\ Len(u) = Len(s) + Len(t)
      /\ \A k \in 1..(Len(s) + Len(t)) : u[k] = IF k <= Len(s) THEN s[k] ELSE t[k - Len(s)]
  BY ConcatProperties
<1> HIDE DEF u
<1>2. Len(s) \in Nat
  BY LenProperties
<1>3. /\ u \in Seq(Entry) /\ Len(u) = Len(s) + 1
      /\ \A n \in 1..Len(s) : u[n] = s[n]
      /\ u[Len(s) + 1] = t[1]
  BY <1>1, <1>2
<1>4. QED
  BY <1>3 DEF u

(* A commit takes the first entry away. *)
LEMMA Committed ==
  ASSUME NEW s \in Seq(Entry), Len(s) > 0
  PROVE  /\ Tail(s) \in Seq(Entry) /\ Len(Tail(s)) = Len(s) - 1
         /\ \A n \in 1..(Len(s) - 1) : Tail(s)[n] = s[n + 1]
<1>1. s # <<>> /\ Len(s) \in Nat
  BY EmptyLen
<1>2. QED
  BY <1>1, HeadTailProperties

(* Decode moves only the pipeline. *)
LEMMA DecodeStep ==
  ASSUME PipeInv, UcsrType(ucsr), NEW interrupt \in BOOLEAN, Decode(interrupt)
  PROVE  PipeInv' /\ Quiet
<1> DEFINE x == CASE overflow_event -> "Cause_OverFlow"
                  [] ~overflow_event /\ interrupt -> "interrupt"
                  [] OTHER -> "none"
           e == [pc |-> fpc, done |-> FALSE, exception |-> x]
<1>1. /\ status = "run" /\ user > 0 /\ flush.kind = "none" /\ Len(dis) = 0
      /\ dis' = <<e>> /\ fpc' = Next1(fpc) /\ rob' = rob /\ flush' = flush
      /\ fpc[2] \in DOMAIN Code[fpc[1]]
      /\ intr' \in {intr, intr + 1} /\ status' = status /\ committed' = 0
      /\ user' = (IF user \in 1..2 THEN user + 1 ELSE user)
      /\ ucsr' = counted /\ Clock(0)
      /\ UNCHANGED <<regs, program_intregs, tempStackMem, nowcallnum, samples>>
  BY EmptyLen DEF PipeInv, PipeTypes, Decode, running, Clock, Cycle, data
<1>2. head \in At /\ head[1] \in Regions /\ head[2] \in Nat /\ Len(rob) \in Nat
  BY AtShape, EmptyLen DEF PipeInv, PipeTypes
<1>3. fpc = <<head[1], head[2] + Len(rob)>>
  BY <1>1, <1>2 DEF PipeInv, FetchInv
<1>4. fpc \in At
  BY <1>1, <1>2, <1>3 DEF At
<1>5. x \in Exceptions
  BY DEF Exceptions
<1> HIDE DEF x
<1>6. e \in Entry /\ e.pc = fpc /\ e.done = FALSE
  BY <1>4, <1>5 DEF Entry
<1> HIDE DEF e
<1>7. dis' \in Seq(Entry) /\ Len(dis') = 1 /\ dis'[1] = e
  BY <1>1, <1>6
<1>8. head' = head
  <2>1. CASE Len(rob) > 0
    BY <1>1, <2>1 DEF head
  <2>2. CASE Len(rob) = 0
    BY <1>1, <1>2, <1>6, <1>7, <2>2 DEF head
  <2>3. QED
    BY <1>2, <2>1, <2>2
<1>9. fired' <=> fired
  BY <1>1 DEF fired, is_unique
<1>10. PipeTypes'
  BY <1>1, <1>7 DEF PipeInv, PipeTypes
<1>11. RobInv'
  BY <1>1, <1>8 DEF PipeInv, RobInv, is_unique
<1>12. FetchInv'
  <2>1. dis'[1].pc = <<head'[1], head'[2] + Len(rob')>> /\ ~dis'[1].done
    BY <1>1, <1>3, <1>6, <1>7, <1>8
  <2>2. fpc' = <<head[1], head[2] + Len(rob) + 1>>
    BY <1>1, <1>2, <1>3 DEF Next1
  <2>3. QED
    BY <1>1, <1>7, <1>8, <2>1, <2>2 DEF FetchInv
<1>13. ModeInv'
  BY <1>1, <1>7 DEF PipeInv, PipeTypes, ModeInv
<1>14. Quiet
  BY <1>1, <1>8, <1>9 DEF Quiet, PipeInv, PipeTypes
<1>15. QED
  BY <1>2, <1>8, <1>10, <1>11, <1>12, <1>13, <1>14 DEF PipeInv

(* Dispatch moves only the pipeline. *)
LEMMA DispatchStep ==
  ASSUME PipeInv, UcsrType(ucsr), Dispatch
  PROVE  PipeInv' /\ Quiet
<1>1. /\ status = "run" /\ user > 0 /\ flush.kind = "none" /\ Len(dis) = 1 /\ dis # <<>>
      /\ Len(rob) < RobSize /\ (is_unique(dis[1].pc) => Len(rob) = 0)
      /\ \A i \in 1..Len(rob) : rob[i].exception = "none" /\ ~is_unique(rob[i].pc)
      /\ rob' = rob \o dis /\ dis' = <<>> /\ fpc' = fpc /\ flush' = flush
      /\ intr' = intr /\ status' = status /\ committed' = 0
      /\ user' = (IF user \in 1..2 THEN user + 1 ELSE user)
      /\ ucsr' = counted /\ Clock(0)
      /\ UNCHANGED <<regs, program_intregs, tempStackMem, nowcallnum, samples>>
  <2>1. rob \in Seq(Entry) /\ dis \in Seq(Entry) /\ Len(dis) <= 1
    BY DEF PipeInv, PipeTypes
  <2>2. dis # <<>> /\ (rob = <<>> => Len(rob) = 0) /\ DOMAIN rob = 1..Len(rob)
    BY <2>1, EmptyLen, LenProperties DEF Dispatch
  <2>3. Len(dis) = 1
    <3>1. Len(dis) \in Nat
      BY <2>1, EmptyLen
    <3>2. Len(dis) # 0 /\ Len(dis) <= 1
      BY <2>1, <2>2, EmptyLen
    <3> DEFINE l == Len(dis)
    <3> HIDE DEF l
    <3>3. l \in Nat /\ l # 0 /\ l <= 1
      BY <3>1, <3>2 DEF l
    <3>4. l = 1
      BY <3>3
    <3>5. QED
      BY <3>4 DEF l
  <2>4. QED
    BY <2>2, <2>3 DEF Dispatch, running, Clock, Cycle, data
<1>2. head \in At /\ head[1] \in Regions /\ head[2] \in Nat /\ Len(rob) \in Nat
      /\ rob \in Seq(Entry) /\ dis \in Seq(Entry) /\ user \in 0..3
  BY AtShape, EmptyLen DEF PipeInv, PipeTypes
<1>3. /\ rob' \in Seq(Entry) /\ Len(rob') = Len(rob) + 1
      /\ \A n \in 1..Len(rob) : rob'[n] = rob[n]
      /\ rob'[Len(rob) + 1] = dis[1]
  BY <1>1, <1>2, Dispatched
<1>4. dis' \in Seq(Entry) /\ Len(dis') = 0
  BY <1>1
<1>5. dis[1] \in Entry /\ dis[1].pc = <<head[1], head[2] + Len(rob)>> /\ ~dis[1].done
  BY <1>1, <1>2, EmptyLen DEF PipeInv, FetchInv
<1>6. head' = head /\ (fired' <=> fired)
  <2>1. CASE Len(rob) > 0
    <3>1. rob'[1] = rob[1] /\ Len(rob') > 0
      BY <1>2, <1>3, <2>1
    <3>2. QED
      BY <2>1, <3>1 DEF head, fired, is_unique
  <2>2. CASE Len(rob) = 0
    <3>1. rob'[1] = dis[1] /\ Len(rob') > 0
      BY <1>3, <2>2
    <3>2. head' = head
      BY <1>1, <2>2, <3>1 DEF head
    <3>3. ~fired /\ ~fired'
      BY <1>5, <2>2, <3>1 DEF fired
    <3>4. QED
      BY <3>2, <3>3
  <2>3. QED
    BY <1>2, <2>1, <2>2
<1>7. PipeTypes'
  <2>1. RobSize \in Nat
    BY SamplingAssumption
  <2>2. Len(rob') <= RobSize
    BY <1>1, <1>2, <1>3, <2>1
  <2>3. QED
    BY <1>1, <1>2, <1>3, <1>4, <2>2 DEF PipeInv, PipeTypes
<1>8. RobInv'
  <2> SUFFICES ASSUME NEW n \in 1..(Len(rob) + 1)
               PROVE  /\ rob'[n].pc = <<head[1], head[2] + (n - 1)>>
                      /\ is_unique(rob'[n].pc) => Len(rob) = 0
                      /\ n < Len(rob) + 1 => rob'[n].exception = "none"
                      /\ rob'[n].exception # "none" => ~rob'[n].done
    BY <1>2, <1>3, <1>6 DEF RobInv, is_unique
  <2>1. CASE n <= Len(rob)
    <3>1. n \in 1..Len(rob) /\ rob'[n] = rob[n]
      BY <1>2, <1>3, <2>1
    <3>2. QED
      BY <1>1, <3>1 DEF PipeInv, RobInv
  <2>2. CASE n = Len(rob) + 1
    <3>1. rob'[n] = dis[1] /\ n - 1 = Len(rob)
      BY <1>2, <1>3, <2>2
    <3>2. <<head[1], head[2] + (n - 1)>> = <<head[1], head[2] + Len(rob)>>
      BY <3>1
    <3>3. ~(n < Len(rob) + 1)
      BY <1>2, <2>2
    <3>4. QED
      BY <1>1, <1>5, <3>1, <3>2, <3>3
  <2>3. QED
    BY <1>2, <2>1, <2>2
<1>9. FetchInv'
  <2>1. fpc = <<head[1], head[2] + Len(rob) + 1>>
    BY <1>1 DEF PipeInv, FetchInv
  <2> DEFINE h == head[2]
             l == Len(rob)
  <2>2. fpc' = <<head[1], head[2] + (Len(rob) + 1) + 0>>
    <3>1. h \in Nat /\ l \in Nat
      BY <1>2
    <3> HIDE DEF h, l
    <3>2. h + l + 1 = h + (l + 1) + 0
      BY <3>1
    <3>3. QED
      BY <1>1, <2>1, <3>2 DEF h, l
  <2>3. QED
    BY <1>1, <1>3, <1>4, <1>6, <2>2 DEF FetchInv
<1>10. ModeInv'
  BY <1>1, <1>2, <1>4 DEF PipeInv, ModeInv
<1>11. Quiet
  BY <1>1, <1>2, <1>6 DEF Quiet
<1>12. QED
  BY <1>2, <1>6, <1>7, <1>8, <1>9, <1>10, <1>11 DEF PipeInv

(* Execution of a ucsr instruction writes the registers of the core; any   *)
(* other moves only the pipeline.                                          *)
LEMMA ExecuteStep ==
  ASSUME PipeInv, UcsrType(ucsr), NEW i \in 1..RobSize, Execute(i)
  PROVE  PipeInv' /\ (Quiet \/ Fire)
<1>1. head \in At /\ head[1] \in Regions /\ head[2] \in Nat /\ Len(rob) \in Nat
      /\ rob \in Seq(Entry) /\ dis \in Seq(Entry) /\ user \in 0..3 /\ DOMAIN rob = 1..Len(rob)
  BY AtShape, EmptyLen, LenProperties DEF PipeInv, PipeTypes
<1>2. /\ status = "run" /\ user > 0 /\ flush.kind = "none"
      /\ i \in 1..Len(rob) /\ ~rob[i].done /\ rob[i].exception = "none"
      /\ rob' = [rob EXCEPT ![i].done = TRUE] /\ ucsr' = ucsrWrite(Inst(rob[i].pc))
      /\ dis' = dis /\ fpc' = fpc /\ flush' = flush
      /\ intr' = intr /\ status' = status /\ committed' = 0
      /\ user' = (IF user \in 1..2 THEN user + 1 ELSE user)
      /\ Clock(0) /\ UNCHANGED data
      /\ UNCHANGED <<regs, program_intregs, tempStackMem, nowcallnum, samples>>
  BY <1>1 DEF Execute, running, Clock, Cycle, data
<1>3. user = 3 /\ user' = 3
  BY <1>1, <1>2 DEF PipeInv, ModeInv
<1>4. rob[i] \in Entry
  BY <1>1, <1>2
<1> DEFINE e == [rob[i] EXCEPT !.done = TRUE]
<1>5. /\ e \in Entry /\ e.pc = rob[i].pc /\ e.done = TRUE /\ e.exception = rob[i].exception
  BY <1>4 DEF Entry
<1>6. /\ rob' = [rob EXCEPT ![i] = e]
      /\ \A n \in 1..Len(rob) : rob'[n] = IF n = i THEN e ELSE rob[n]
  BY <1>1, <1>2
<1> HIDE DEF e
<1>7. rob' \in Seq(Entry) /\ Len(rob') = Len(rob)
  <2>1. i \in 1..Len(rob) /\ rob \in Seq(Entry) /\ e \in Entry
    BY <1>1, <1>2, <1>5
  <2>2. [rob EXCEPT ![i] = e] \in Seq(Entry) /\ Len([rob EXCEPT ![i] = e]) = Len(rob)
    BY <2>1, ExceptSeq
  <2>3. QED
    BY <1>6, <2>2
<1>8. \A n \in 1..Len(rob) : rob'[n].pc = rob[n].pc /\ rob'[n].exception = rob[n].exception
                             /\ (n # i => rob'[n].done = rob[n].done)
  BY <1>5, <1>6
<1>9. head' = head
  <2>1. Len(rob) > 0 /\ rob'[1].pc = rob[1].pc
    BY <1>1, <1>2, <1>8
  <2>2. QED
    BY <1>7, <2>1 DEF head
<1>10. PipeTypes'
  BY <1>2, <1>3, <1>7 DEF PipeInv, PipeTypes
<1>11. RobInv'
  BY <1>2, <1>7, <1>8, <1>9 DEF PipeInv, RobInv, is_unique
<1>12. FetchInv'
  BY <1>2, <1>7, <1>9 DEF PipeInv, FetchInv
<1>13. ModeInv'
  BY <1>2, <1>3, <1>7 DEF PipeInv, ModeInv
<1>14. CASE is_unique(rob[i].pc)
  <2>1. Len(rob) = 1 /\ i = 1
    BY <1>2, <1>14 DEF PipeInv, RobInv
  <2>2. head = rob[1].pc /\ ~fired
    BY <1>2, <2>1 DEF head, fired
  <2>3. fired'
    <3>1. rob'[1].done /\ rob'[1].pc = rob[1].pc /\ Len(rob') > 0
      BY <1>2, <1>5, <1>6, <1>7, <2>1
    <3>2. QED
      BY <1>14, <2>1, <3>1 DEF fired, is_unique
  <2>4. Fire
    BY <1>2, <1>3, <1>9, <1>14, <2>1, <2>2, <2>3 DEF Fire
  <2>5. QED
    BY <1>1, <1>9, <1>10, <1>11, <1>12, <1>13, <2>4 DEF PipeInv
<1>15. CASE ~is_unique(rob[i].pc)
  <2>1. Inst(rob[i].pc) \notin SetInsts
    BY <1>15 DEF is_unique
  <2>2. ucsr' = counted
    BY <1>2, <2>1 DEF ucsrWrite, SetInsts
  <2>3. fired' <=> fired
    <3>1. Len(rob) > 0 /\ rob'[1].pc = rob[1].pc /\ 1 \in 1..Len(rob)
      BY <1>1, <1>2, <1>8
    <3>2. CASE i = 1
      BY <1>15, <3>1, <3>2 DEF fired, is_unique
    <3>3. CASE i # 1
      BY <1>7, <1>8, <3>1, <3>3 DEF fired, is_unique
    <3>4. QED
      BY <3>2, <3>3
  <2>4. Quiet
    BY <1>2, <1>3, <1>9, <2>2, <2>3 DEF Quiet
  <2>5. QED
    BY <1>1, <1>9, <1>10, <1>11, <1>12, <1>13, <2>4 DEF PipeInv
<1>16. QED
  BY <1>14, <1>15

(* The head commits. *)
LEMMA CommitStep ==
  ASSUME PipeInv, UcsrType(ucsr), Inst(head) \in URets => temp(Inst(head)) \in At, Commit
  PROVE  PipeInv' /\ CommitHead
<1>1. head \in At /\ head[1] \in Regions /\ head[2] \in Nat /\ Len(rob) \in Nat
      /\ rob \in Seq(Entry) /\ dis \in Seq(Entry) /\ user \in 0..3 /\ committed \in Nat
  BY AtShape, EmptyLen DEF PipeInv, PipeTypes
<1>2. Len(rob) > 0
  BY <1>1, EmptyLen DEF Commit
<1>3. head = rob[1].pc
  BY <1>2 DEF head
<1>4. /\ status = "run" /\ user > 0 /\ flush.kind = "none"
      /\ rob[1].exception = "none" /\ rob[1].done
      /\ commitEffect(head)
      /\ ucsr' = (IF Inst(head) = "RstPFC" THEN [counted EXCEPT !.instCounter = 0] ELSE counted)
      /\ fpc' = fpc /\ intr' = intr /\ committed' = 1
      /\ user' = (IF user \in 1..2 THEN user + 1 ELSE user)
      /\ Clock(1)
  BY <1>3 DEF Commit, running, Clock, Cycle
<1>5. user = 3 /\ user' = 3
  BY <1>1, <1>2, <1>4 DEF PipeInv, ModeInv
<1>6. is_unique(head) => fired
  BY <1>2, <1>3, <1>4 DEF fired
<1>7. ucsr'.temp = ucsr.temp
  <2>1. UcsrType(counted) /\ counted.temp = ucsr.temp
    BY <1>1, Counted DEF Kept
  <2>2. [counted EXCEPT !.instCounter = 0].temp = counted.temp
    BY <2>1 DEF UcsrType, UcsrFields
  <2>3. QED
    BY <1>4, <2>1, <2>2
<1>8. status' \in {"run", "exit", "killed"} /\ (Inst(head) \in URets => status' = "run")
  <2>1. CASE Inst(head) \in URets
    BY <1>4, <2>1 DEF commitEffect, data, URets
  <2>2. CASE Inst(head) = "Serve"
    BY <1>4, <2>2 DEF commitEffect, Serve, URets
  <2>3. CASE Inst(head) \notin URets /\ Inst(head) # "Serve"
    BY <1>4, <2>3 DEF commitEffect, setRegs, SaveProgram, saveContext, data
  <2>4. QED
    BY <2>1, <2>2, <2>3
<1>9. CASE Inst(head) \in URets
  <2>1. /\ flush' = [kind |-> Inst(head), pc |-> head] /\ rob' = <<>> /\ dis' = <<>>
    BY <1>3, <1>9 DEF Commit
  <2>2. flush'.kind = Inst(head) /\ Len(rob') = 0 /\ Len(dis') = 0
        /\ rob' \in Seq(Entry) /\ dis' \in Seq(Entry)
    BY <2>1
  <2>3. flush'.kind \in URets /\ flush'.kind \notin {"none", "interrupt", "Cause_OverFlow"}
    BY <1>9, <2>2 DEF URets
  <2>4. head' = temp(Inst(head))
    <3>1. head' = temp(flush.kind)'
      BY <2>2, <2>3 DEF head
    <3>2. QED
      BY <1>7, <2>2, <3>1 DEF temp
  <2>5. ~fired'
    BY <2>2 DEF fired
  <2>6. PipeTypes'
    BY <1>4, <1>5, <1>8, <2>2, <2>3, SamplingAssumption DEF PipeInv, PipeTypes
  <2>7. RobInv' /\ FetchInv' /\ ModeInv'
    BY <1>4, <1>5, <1>8, <1>9, <2>2, <2>3 DEF RobInv, FetchInv, ModeInv
  <2>8. CommitHead
    BY <1>4, <1>5, <1>6, <1>9, <2>4, <2>5 DEF CommitHead
  <2>9. QED
    BY <1>9, <2>4, <2>6, <2>7, <2>8 DEF PipeInv
<1>10. CASE Inst(head) \notin URets
  <2>1. /\ flush' = flush /\ rob' = Tail(rob) /\ dis' = dis
    BY <1>3, <1>10 DEF Commit
  <2> DEFINE l == Len(rob) - 1
  <2>2. /\ rob' \in Seq(Entry) /\ Len(rob') = l /\ l \in Nat /\ Len(rob) = l + 1
        /\ \A n \in 1..l : rob'[n] = rob[n + 1] /\ n + 1 \in 1..Len(rob)
    BY <1>1, <1>2, <2>1, Committed
  <2> HIDE DEF l
  <2>3. Next1(head) = <<head[1], head[2] + 1>> /\ Next1(head) \in At
    BY <1>1, <1>10, NextAt DEF Next1
  <2>4. head' = Next1(head)
    <3>1. CASE l > 0
      <4>1. rob'[1] = rob[2] /\ 2 \in 1..Len(rob)
        BY <2>2, <3>1
      <4>2. rob[2].pc = <<head[1], head[2] + 1>>
        BY <4>1 DEF PipeInv, RobInv
      <4>3. QED
        BY <2>2, <2>3, <3>1, <4>1, <4>2 DEF head
    <3>2. CASE l = 0 /\ Len(dis) = 1
      <4>1. dis[1].pc = <<head[1], head[2] + 1>>
        BY <2>2, <3>2 DEF PipeInv, FetchInv
      <4>2. QED
        BY <2>1, <2>2, <2>3, <3>2, <4>1 DEF head
    <3>3. CASE l = 0 /\ Len(dis) = 0
      <4>1. fpc = <<head[1], head[2] + 1 + 0>>
        BY <1>4, <2>2, <3>3 DEF PipeInv, FetchInv
      <4>2. QED
        BY <1>1, <1>4, <2>1, <2>2, <2>3, <3>3, <4>1 DEF head
    <3>4. Len(dis) = 0 \/ Len(dis) = 1
      <4> DEFINE d == Len(dis)
      <4>1. d \in Nat /\ d <= 1
        BY <1>1, EmptyLen DEF PipeInv, PipeTypes
      <4> HIDE DEF d
      <4>2. d = 0 \/ d = 1
        BY <4>1
      <4>3. QED
        BY <4>2 DEF d
    <3>5. QED
      BY <2>2, <3>1, <3>2, <3>3, <3>4
  <2>5. ~fired'
    <3>1. SUFFICES ASSUME l > 0, is_unique(rob'[1].pc) PROVE FALSE
      BY <2>2 DEF fired, is_unique
    <3>2. rob'[1] = rob[2] /\ 2 \in 1..Len(rob)
      BY <2>2, <3>1
    <3>3. Len(rob) = 1
      BY <3>1, <3>2 DEF PipeInv, RobInv
    <3>4. l \in Nat /\ l + 1 = 1
      BY <2>2, <3>3
    <3>5. QED
      BY <3>1, <3>4
  <2>6. PipeTypes'
    <3>1. l <= RobSize
      <4>1. l + 1 <= RobSize /\ RobSize \in Nat
        BY <2>2, SamplingAssumption DEF PipeInv, PipeTypes
      <4>2. QED
        BY <2>2, <4>1
    <3>2. QED
      BY <1>4, <1>5, <1>8, <2>1, <2>2, <3>1 DEF PipeInv, PipeTypes
  <2>7. RobInv'
    <3> SUFFICES ASSUME NEW n \in 1..l
                 PROVE  /\ rob'[n].pc = <<head'[1], head'[2] + (n - 1)>>
                        /\ ~is_unique(rob'[n].pc)
                        /\ n < l => rob'[n].exception = "none"
                        /\ rob'[n].exception # "none" => ~rob'[n].done
      BY <2>2 DEF RobInv, is_unique
    <3>1. n \in Nat /\ n + 1 \in 1..Len(rob) /\ rob'[n] = rob[n + 1] /\ Len(rob) # 1
          /\ (n < l => n + 1 < Len(rob))
      BY <2>2
    <3>2. /\ rob[n + 1].pc = <<head[1], head[2] + ((n + 1) - 1)>>
          /\ is_unique(rob[n + 1].pc) => Len(rob) = 1
          /\ n + 1 < Len(rob) => rob[n + 1].exception = "none"
          /\ rob[n + 1].exception # "none" => ~rob[n + 1].done
      BY <3>1 DEF PipeInv, RobInv
    <3> DEFINE h == head[2]
    <3>3. head'[1] = head[1] /\ head'[2] + (n - 1) = head[2] + ((n + 1) - 1)
      <4>1. h \in Nat /\ head'[1] = head[1] /\ head'[2] = h + 1
        BY <1>1, <2>3, <2>4
      <4> HIDE DEF h
      <4>2. (h + 1) + (n - 1) = h + ((n + 1) - 1)
        BY <3>1, <4>1
      <4>3. QED
        BY <4>1, <4>2 DEF h
    <3>4. QED
      BY <3>1, <3>2, <3>3
  <2>8. FetchInv'
    <3> DEFINE h == head[2]
               d == Len(dis)
    <3>1. h \in Nat /\ head'[1] = head[1] /\ head'[2] = h + 1 /\ d \in Nat
      BY <1>1, <2>3, <2>4, EmptyLen
    <3> HIDE DEF h, d
    <3>2. (h + 1) + l = h + (l + 1) /\ (h + 1) + l + d = h + (l + 1) + d
      BY <2>2, <3>1
    <3>3. d = 1 => dis[1].pc = <<head[1], h + (l + 1)>> /\ ~dis[1].done
      BY <2>2 DEF PipeInv, FetchInv, h, d
    <3>4. fpc = <<head[1], h + (l + 1) + d>>
      BY <1>4, <2>2 DEF PipeInv, FetchInv, h, d
    <3>5. QED
      BY <1>4, <2>1, <2>2, <3>1, <3>2, <3>3, <3>4 DEF FetchInv, h, d
  <2>9. ModeInv'
    BY <1>4, <1>5, <2>1 DEF ModeInv
  <2>10. CommitHead
    BY <1>4, <1>5, <1>6, <1>10, <2>4, <2>5 DEF CommitHead
  <2>11. QED
    BY <2>3, <2>4, <2>6, <2>7, <2>8, <2>9, <2>10 DEF PipeInv
<1>11. QED
  BY <1>9, <1>10

(* An exception empties the pipeline. *)
LEMMA ThrowStep ==
  ASSUME PipeInv, UcsrType(ucsr), Throw
  PROVE  PipeInv' /\ Quiet
<1>1. head \in At /\ Len(rob) \in Nat /\ rob \in Seq(Entry) /\ user \in 0..3 /\ intr \in Nat
  BY EmptyLen DEF PipeInv, PipeTypes
<1>2. Len(rob) > 0
  BY <1>1, EmptyLen DEF Throw
<1>3. rob[1] \in Entry /\ head = rob[1].pc
  BY <1>1, <1>2, EmptyLen DEF head
<1>4. /\ status = "run" /\ user > 0 /\ flush.kind = "none"
      /\ rob[1].exception # "none"
      /\ flush' = [kind |-> rob[1].exception, pc |-> head] /\ rob' = <<>> /\ dis' = <<>>
      /\ ucsr' = counted /\ fpc' = fpc /\ intr' = intr /\ committed' = 0 /\ status' = status
      /\ user' = (IF user \in 1..2 THEN user + 1 ELSE user)
      /\ Clock(0)
      /\ UNCHANGED <<regs, program_intregs, tempStackMem, nowcallnum, samples>>
  BY <1>3 DEF Throw, running, Clock, Cycle, data
<1>5. user = 3 /\ user' = 3
  BY <1>1, <1>2, <1>4 DEF PipeInv, ModeInv
<1>6. ~fired
  BY <1>1, <1>2, <1>4 DEF fired, PipeInv, RobInv
<1>7. /\ flush'.kind \in {"interrupt", "Cause_OverFlow"} /\ flush'.pc = head
      /\ Len(rob') = 0 /\ Len(dis') = 0 /\ rob' \in Seq(Entry) /\ dis' \in Seq(Entry)
  BY <1>3, <1>4 DEF Entry, Exceptions
<1>8. head' = head /\ ~fired'
  BY <1>7 DEF head, fired, URets
<1>9. PipeTypes' /\ RobInv' /\ FetchInv' /\ ModeInv'
  BY <1>1, <1>4, <1>5, <1>7, SamplingAssumption
  DEF PipeTypes, RobInv, FetchInv, ModeInv, Exceptions
<1>10. Quiet
  BY <1>4, <1>5, <1>6, <1>8 DEF Quiet
<1>11. QED
  BY <1>1, <1>8, <1>9, <1>10 DEF PipeInv

(* A cycle in which nothing moves. *)
LEMMA StallStep ==
  ASSUME PipeInv, UcsrType(ucsr), Stall
  PROVE  PipeInv' /\ Quiet
<1>1. /\ status = "run" /\ flush.kind = "none" /\ user \in 0..3 /\ intr \in Nat
      /\ ucsr' = counted /\ fpc' = fpc /\ dis' = dis /\ rob' = rob /\ flush' = flush
      /\ intr' = intr /\ committed' = 0 /\ status' = status
      /\ user' = (IF user \in 1..2 THEN user + 1 ELSE user)
      /\ Clock(0)
      /\ UNCHANGED <<regs, program_intregs, tempStackMem, nowcallnum, samples>>
  BY DEF Stall, Clock, Cycle, data, pipeline, PipeInv, PipeTypes
<1>2. head' = head /\ (fired' <=> fired)
  BY <1>1 DEF head, fired, is_unique
<1>3. PipeTypes' /\ FetchInv' /\ ModeInv'
  BY <1>1, <1>2 DEF PipeInv, PipeTypes, FetchInv, ModeInv
<1>4. RobInv'
  BY <1>1, <1>2 DEF PipeInv, RobInv, is_unique
<1>5. Quiet
  BY <1>1, <1>2 DEF Quiet
<1>6. QED
  BY <1>2, <1>3, <1>4, <1>5 DEF PipeInv

(* The cycle after a uret. *)
LEMMA ReturnStep ==
  ASSUME PipeInv, UcsrType(ucsr), Return
  PROVE  PipeInv' /\ Quiet
<1>1. /\ flush.kind \in URets /\ flush.kind # "none" /\ fpc' = temp(flush.kind)
      /\ flush' = [kind |-> "none", pc |-> NoPc]
      /\ ucsr' = counted /\ dis' = dis /\ rob' = rob /\ intr' = intr /\ committed' = 0
      /\ status' = status /\ user' = (IF user \in 1..2 THEN user + 1 ELSE user) /\ Clock(0)
      /\ UNCHANGED <<regs, program_intregs, tempStackMem, nowcallnum, samples>>
  BY DEF Return, Clock, Cycle, data, noFlush, URets
<1>2. /\ Len(rob) = 0 /\ Len(dis) = 0 /\ user = 3 /\ status = "run" /\ user' = 3 /\ intr \in Nat
      /\ rob \in Seq(Entry) /\ dis \in Seq(Entry) /\ Len(rob) <= RobSize /\ head \in At
  BY <1>1 DEF PipeInv, PipeTypes, ModeInv
<1>3. head = temp(flush.kind) /\ flush'.kind = "none"
  BY <1>1, <1>2 DEF head
<1>4. head' = head /\ ~fired /\ ~fired'
  BY <1>1, <1>2, <1>3 DEF head, fired
<1>5. head = <<head[1], head[2] + 0 + 0>>
  BY <1>2, AtShape
<1>6. PipeTypes' /\ RobInv' /\ FetchInv' /\ ModeInv'
  BY <1>1, <1>2, <1>3, <1>4, <1>5 DEF PipeTypes, RobInv, FetchInv, ModeInv, Exceptions
<1>7. Quiet
  BY <1>1, <1>2, <1>4 DEF Quiet
<1>8. QED
  BY <1>2, <1>4, <1>6, <1>7 DEF PipeInv

(* The cycle in which the core goes to sample_func. *)
LEMMA DivertStep ==
  ASSUME PipeInv, UcsrType(ucsr), ucsr.exitFuncAddr \in {NoPc, SampleFunc}, Divert
  PROVE  PipeInv' /\ DivertHead
<1>1. /\ flush.kind = "Cause_OverFlow" /\ overflow_event /\ ucsr.exitFuncAddr # NoPc
      /\ fpc' = ucsr.exitFuncAddr
      /\ flush' = [kind |-> "none", pc |-> NoPc]
      /\ ucsr' = [counted EXCEPT !.procTag = FALSE, !.maxEventNum = 0, !.nowEventNum = 0,
                                 !.pfc_enable = FALSE, !.userExitPC = flush.pc]
      /\ dis' = dis /\ rob' = rob /\ intr' = intr /\ committed' = 0
      /\ status' = status /\ user' = (IF user \in 1..2 THEN user + 1 ELSE user) /\ Clock(0)
      /\ UNCHANGED data
  BY DEF Divert, isOverFlowExcpt, Clock, Cycle, data, noFlush
<1>2. /\ Len(rob) = 0 /\ Len(dis) = 0 /\ user = 3 /\ status = "run" /\ user' = 3 /\ intr \in Nat
      /\ rob \in Seq(Entry) /\ dis \in Seq(Entry) /\ Len(rob) <= RobSize /\ committed = 0
  BY <1>1 DEF PipeInv, PipeTypes, ModeInv
<1>3. head = flush.pc /\ flush'.kind = "none"
  BY <1>1, <1>2 DEF head, URets
<1>4. head' = ucsr.exitFuncAddr /\ ~fired /\ ~fired'
  BY <1>1, <1>2, <1>3 DEF head, fired
<1>5. head' \in At /\ fpc' = <<head'[1], head'[2] + 0 + 0>>
  BY <1>1, <1>4, AtPair DEF SampleFunc, Regions
<1>6. PipeTypes' /\ RobInv' /\ FetchInv' /\ ModeInv'
  BY <1>1, <1>2, <1>3, <1>5 DEF PipeTypes, RobInv, FetchInv, ModeInv, Exceptions
<1>7. DivertHead
  BY <1>1, <1>2, <1>3, <1>4 DEF DivertHead
<1>8. QED
  BY <1>5, <1>6, <1>7 DEF PipeInv

(* The cycle in which the core goes to the kernel. *)
LEMMA TrapStep ==
  ASSUME PipeInv, UcsrType(ucsr), Trap
  PROVE  PipeInv' /\ Quiet
<1>1. /\ flush.kind \in {"interrupt", "Cause_OverFlow"} /\ fpc' = flush.pc
      /\ flush' = [kind |-> "none", pc |-> NoPc]
      /\ ucsr' = counted /\ dis' = dis /\ rob' = rob /\ intr' = intr /\ committed' = 0
      /\ status' \in {status, "killed"} /\ user' = 0 /\ Cycle(0, 0)
      /\ UNCHANGED <<regs, program_intregs, tempStackMem, nowcallnum, samples>>
  BY DEF Trap, Cycle, noFlush
<1>2. /\ Len(rob) = 0 /\ Len(dis) = 0 /\ user = 3 /\ status = "run" /\ intr \in Nat
      /\ rob \in Seq(Entry) /\ dis \in Seq(Entry) /\ Len(rob) <= RobSize /\ head \in At
      /\ committed = 0
  BY <1>1 DEF PipeInv, PipeTypes, ModeInv
<1>3. head = flush.pc /\ flush'.kind = "none"
  BY <1>1, <1>2 DEF head, URets
<1>4. head' = head /\ ~fired /\ ~fired'
  BY <1>1, <1>2, <1>3 DEF head, fired
<1>5. head = <<head[1], head[2] + 0 + 0>>
  BY <1>2, AtShape
<1>6. PipeTypes' /\ RobInv' /\ FetchInv' /\ ModeInv'
  BY <1>1, <1>2, <1>3, <1>4, <1>5 DEF PipeTypes, RobInv, FetchInv, ModeInv, Exceptions
<1>7. Quiet
  BY <1>1, <1>2, <1>4 DEF Quiet
<1>8. QED
  BY <1>2, <1>4, <1>6, <1>7 DEF PipeInv

(* The kernel returns. *)
LEMMA EretStep ==
  ASSUME PipeInv, UcsrType(ucsr), NEW c \in 0..1, Eret(c)
  PROVE  PipeInv' /\ Quiet
<1>1. /\ status = "run" /\ user = 0 /\ user' = 1 /\ committed' \in 0..1 /\ window' = window
      /\ ucsr' = counted /\ fpc' = fpc /\ dis' = dis /\ rob' = rob /\ flush' = flush
      /\ intr' = intr /\ status' = status
      /\ UNCHANGED <<regs, program_intregs, tempStackMem, nowcallnum, samples>>
  BY DEF Eret, data, pipeline
<1>2. flush.kind = "none"
  BY <1>1 DEF PipeInv, ModeInv
<1>3. head' = head /\ (fired' <=> fired)
  BY <1>1, <1>2 DEF head, fired, is_unique
<1>4. PipeTypes' /\ FetchInv' /\ ModeInv'
  BY <1>1, <1>2, <1>3 DEF PipeInv, PipeTypes, FetchInv, ModeInv
<1>5. RobInv'
  BY <1>1, <1>3 DEF PipeInv, RobInv, is_unique
<1>6. Quiet
  BY <1>1, <1>3 DEF Quiet
<1>7. QED
  BY <1>3, <1>4, <1>5, <1>6 DEF PipeInv

(* Every step keeps the pipeline in order and is one of the four moves. *)
LEMMA PipeStep ==
  ASSUME PipeInv, UcsrType(ucsr), ucsr.exitFuncAddr \in {NoPc, SampleFunc},
         Inst(head) \in URets => temp(Inst(head)) \in At, Next
  PROVE  PipeInv' /\ Move
  BY DecodeStep, DispatchStep, ExecuteStep, CommitStep, ThrowStep, StallStep, ReturnStep,
     DivertStep, TrapStep, EretStep DEF Next, Move

-----------------------------------------------------------------------------
(* The system calls of the slice. *)
CallsBefore(k) == Cardinality({j \in Ecalls : j < k})

(* The system calls are instructions of the slice. *)
LEMMA EcallNat == \A j \in Ecalls : j \in Nat /\ j >= 1 /\ j <= ProgLen
<1>1. ProgLen \in Nat /\ Ecalls \subseteq 1..ProgLen
  BY SamplingAssumption
<1>2. QED
  BY <1>1

(* Every subset of the system calls is finite. *)
LEMMA EcallsFinite ==
  ASSUME NEW S \in SUBSET Ecalls
  PROVE  IsFiniteSet(S) /\ Cardinality(S) \in Nat
<1>1. ProgLen \in Nat /\ Ecalls \subseteq 1..ProgLen
  BY SamplingAssumption
<1>2. IsFiniteSet(1..ProgLen)
  BY <1>1, FS_Interval
<1>3. IsFiniteSet(S)
  BY <1>1, <1>2, FS_Subset
<1>4. QED
  BY <1>3, FS_CardinalityType

(* The calls before an instruction are natural numbers, none before the    *)
(* first instruction and all of them before the exit instruction.          *)
LEMMA CallsBounds ==
  /\ \A k \in Nat : CallsBefore(k) \in Nat
  /\ CallsBefore(1) = 0
  /\ CallsBefore(ProgLen + 1) = Cardinality(Ecalls)
  /\ Cardinality(Ecalls) \in Nat
<1>1. ProgLen \in Nat /\ Ecalls \subseteq 1..ProgLen
  BY SamplingAssumption
<1>2. \A k \in Nat : CallsBefore(k) \in Nat
  BY EcallsFinite DEF CallsBefore
<1>3. {j \in Ecalls : j < 1} = {}
  BY EcallNat
<1>4. {j \in Ecalls : j < ProgLen + 1} = Ecalls
  <2>1. \A j \in Ecalls : j < ProgLen + 1
    BY <1>1, EcallNat
  <2>2. QED
    BY <2>1, Zenon
<1>5. Cardinality(Ecalls) \in Nat
  BY EcallsFinite
<1>6. QED
  BY <1>2, <1>3, <1>4, <1>5, FS_EmptySet DEF CallsBefore

(* A system call adds one. *)
LEMMA CallsNext ==
  ASSUME NEW k \in Nat
  PROVE  CallsBefore(k + 1) = IF k \in Ecalls THEN CallsBefore(k) + 1 ELSE CallsBefore(k)
<1>1. \A j \in Ecalls : j \in Nat
  BY EcallNat
<1> DEFINE S == {j \in Ecalls : j < k}
           T == {j \in Ecalls : j < k + 1}
<1>2. CASE k \in Ecalls
  <2>1. T = S \cup {k} /\ k \notin S
    <3>1. \A j \in Ecalls : (j < k + 1 <=> j < k \/ j = k) /\ (j = k => ~(j < k))
      BY <1>1
    <3>2. QED
      BY <1>2, <3>1
  <2>2. IsFiniteSet(S)
    BY EcallsFinite
  <2>3. Cardinality(S \cup {k}) = Cardinality(S) + 1
    BY <2>1, <2>2, FS_AddElement
  <2>4. QED
    BY <1>2, <2>1, <2>3 DEF CallsBefore
<1>3. CASE k \notin Ecalls
  <2>1. T = S
    BY <1>1, <1>3
  <2>2. QED
    BY <1>3, <2>1 DEF CallsBefore
<1>4. QED
  BY <1>2, <1>3

(* The recorded call after those before a system call is that call. *)
LEMMA CallPcIs ==
  ASSUME NEW k \in Ecalls
  PROVE  /\ CallPc(CallsBefore(k) + 1) = k
         /\ CallsBefore(k) < Cardinality(Ecalls)
<1>1. \A j \in Ecalls : j \in Nat
  BY EcallNat
<1> DEFINE U(m) == {j \in Ecalls : j <= m}
<1>2. CallsBefore(k + 1) = CallsBefore(k) + 1
  BY <1>1, CallsNext
<1>3. U(k) = {j \in Ecalls : j < k + 1}
  BY <1>1
<1>4. Cardinality(U(k)) = CallsBefore(k) + 1
  BY <1>2, <1>3 DEF CallsBefore
<1>5. ASSUME NEW m \in Ecalls, NEW n \in Ecalls, m < n
      PROVE  Cardinality(U(m)) # Cardinality(U(n))
  <2>1. U(m) \subseteq U(n) /\ n \in U(n) /\ n \notin U(m)
    BY <1>1, <1>5
  <2>2. IsFiniteSet(U(n))
    BY EcallsFinite
  <2>3. Cardinality(U(n)) = Cardinality(U(m)) => U(n) = U(m)
    BY <2>1, <2>2, FS_Subset
  <2>4. QED
    BY <2>1, <2>3
<1>6. \A m \in Ecalls : Cardinality(U(m)) = CallsBefore(k) + 1 => m = k
  <2> SUFFICES ASSUME NEW m \in Ecalls, Cardinality(U(m)) = CallsBefore(k) + 1, m # k
               PROVE  FALSE
    OBVIOUS
  <2>1. m < k \/ k < m
    BY <1>1
  <2>2. QED
    BY <1>4, <1>5, <2>1
<1>7. CallPc(CallsBefore(k) + 1) = k
  BY <1>4, <1>6 DEF CallPc
<1>8. Cardinality(U(k)) <= Cardinality(Ecalls)
  <2>1. IsFiniteSet(Ecalls) /\ U(k) \subseteq Ecalls
    BY EcallsFinite
  <2>2. QED
    BY <2>1, FS_Subset
<1> HIDE DEF U
<1>9. CallsBefore(k) < Cardinality(Ecalls)
  <2> DEFINE a == CallsBefore(k)
             b == Cardinality(Ecalls)
  <2>1. a \in Nat /\ b \in Nat /\ a + 1 <= b
    BY <1>1, <1>4, <1>8, CallsBounds
  <2> HIDE DEF a, b
  <2>2. a < b
    BY <2>1
  <2>3. QED
    BY <2>2 DEF a, b
<1>10. QED
  BY <1>7, <1>9

(* A nonempty set of natural numbers has a least element. *)
LEMMA LeastNat ==
  ASSUME NEW S \in SUBSET Nat, S # {}
  PROVE  \E m \in S : \A n \in S : m <= n
<1> DEFINE R == OpToRel(<, Nat)
<1>1. IsWellFoundedOn(R, Nat)
  BY NatLessThanWellFounded
<1>2. \A m, n \in Nat : n < m => <<n, m>> \in R
  BY DEF OpToRel
<1> HIDE DEF R
<1>3. PICK m \in S : \A n \in S : ~(<<n, m>> \in R)
  BY <1>1, WFMin
<1>4. \A n \in S : ~(n < m)
  BY <1>2, <1>3
<1>5. QED
  BY <1>4

(* The last instruction before k that is no system call. *)
LastOp(k, j) ==
  /\ j \in 0..(k - 1) /\ j \notin Ecalls
  /\ \A i \in (j + 1)..(k - 1) : i \in Ecalls

(* It is the one whose result is in the other registers. *)
LEMMA ContextRest ==
  ASSUME NEW k \in Nat \ {0}
  PROVE  /\ Context(k).a0 = k - 1
         /\ Context(k) = [a0 |-> Context(k).a0, rest |-> Context(k).rest]
         /\ LastOp(k, Context(k).rest)
         /\ \A j : LastOp(k, j) => j = Context(k).rest
<1>1. Ecalls \subseteq Nat \ {0}
  BY SamplingAssumption
<1> DEFINE S == {n \in 0..(k - 1) : (k - 1) - n \notin Ecalls}
           c == CHOOSE j \in 0..(k - 1) :
                  /\ j \notin Ecalls
                  /\ \A i \in (j + 1)..(k - 1) : i \in Ecalls
<1>2. S \in SUBSET Nat /\ k - 1 \in S
  BY <1>1
<1>3. PICK m \in S : \A n \in S : m <= n
  BY <1>2, LeastNat
<1>4. LastOp(k, (k - 1) - m)
  <2>1. m \in 0..(k - 1) /\ (k - 1) - m \notin Ecalls
    OBVIOUS
  <2>2. ASSUME NEW i \in (((k - 1) - m) + 1)..(k - 1), i \notin Ecalls PROVE FALSE
    <3>1. (k - 1) - i \in 0..(k - 1) /\ (k - 1) - ((k - 1) - i) = i /\ (k - 1) - i < m
      BY <2>1, <2>2
    <3>2. (k - 1) - i \in S
      BY <2>2, <3>1
    <3>3. QED
      BY <1>3, <2>1, <3>1, <3>2
  <2>3. QED
    BY <2>1, <2>2 DEF LastOp
<1>5. LastOp(k, c)
  BY <1>4 DEF LastOp
<1>6. Context(k).a0 = k - 1 /\ Context(k).rest = c
      /\ Context(k) = [a0 |-> Context(k).a0, rest |-> Context(k).rest]
  BY DEF Context
<1> HIDE DEF c
<1>7. ASSUME NEW j, LastOp(k, j) PROVE j = c
  BY <1>5, <1>7 DEF LastOp
<1>8. QED
  BY <1>5, <1>6, <1>7

(* An ordinary instruction of the slice computes the next registers. *)
LEMMA ContextOp ==
  ASSUME NEW k \in Nat, k \notin Ecalls
  PROVE  Context(k + 1) = [a0 |-> k, rest |-> k]
<1>1. k + 1 \in Nat \ {0} /\ (k + 1) - 1 = k
  OBVIOUS
<1>2. LastOp(k + 1, k)
  BY <1>1 DEF LastOp
<1>3. QED
  BY <1>1, <1>2, ContextRest

(* A system call changes only a0. *)
LEMMA ContextCall ==
  ASSUME NEW k \in Ecalls
  PROVE  Context(k + 1) = [a0 |-> k, rest |-> Context(k).rest]
<1>1. k \in Nat \ {0} /\ k + 1 \in Nat \ {0} /\ (k + 1) - 1 = k
  BY SamplingAssumption
<1> DEFINE r == Context(k).rest
<1>2. LastOp(k, r)
  BY <1>1, ContextRest
<1> HIDE DEF r
<1>3. LastOp(k + 1, r)
  BY <1>1, <1>2 DEF LastOp
<1>4. r = Context(k + 1).rest
  BY <1>1, <1>3, ContextRest
<1>5. QED
  BY <1>1, <1>4, ContextRest DEF r

-----------------------------------------------------------------------------
(* Registers and memory. *)
IsRegs(r) == r = [a0 |-> r.a0, rest |-> r.rest]

CoreTypes ==
  /\ runLength \in Nat \ {0} /\ warmup \in Nat /\ UcsrType(ucsr)
  /\ window \in Nat /\ nowcallnum \in Nat /\ samples \in Nat
  /\ IsRegs(regs) /\ IsRegs(program_intregs) /\ IsRegs(tempStackMem)

(* What an instruction does when it commits. *)
LEMMA Effect ==
  ASSUME CoreTypes, NEW p, commitEffect(p)
  PROVE  LET inst == Inst(p) IN
         /\ regs' = IF inst = "op" /\ p[1] = "prog" THEN [a0 |-> p[2], rest |-> p[2]]
                    ELSE IF inst = "op" /\ p[1] = "takeover"
                           THEN [a0 |-> Loader, rest |-> regs.rest]
                    ELSE IF inst \in {"SaveProgram", "SaveAll", "SaveA0"} THEN LoaderRegs
                    ELSE IF inst = "LoadRest"
                           THEN [a0 |-> Loader, rest |-> program_intregs.rest]
                    ELSE IF inst = "LoadA0"
                           THEN [a0 |-> program_intregs.a0, rest |-> regs.rest]
                    ELSE IF inst = "LoadAll" THEN tempStackMem ELSE regs
         /\ program_intregs' =
              IF inst = "SaveProgram" THEN [a0 |-> program_intregs.a0, rest |-> regs.rest]
              ELSE IF inst = "Serve" /\ ~(nowcallnum >= Cardinality(Ecalls))
                     THEN [a0 |-> CallPc(nowcallnum + 1), rest |-> program_intregs.rest]
              ELSE program_intregs
         /\ tempStackMem' =
              IF inst = "SaveAll" THEN [a0 |-> tempStackMem.a0, rest |-> regs.rest]
              ELSE IF inst = "SaveA0" THEN [a0 |-> ucsr.temp[0][2], rest |-> tempStackMem.rest]
              ELSE tempStackMem
         /\ nowcallnum' = IF inst = "Serve" /\ ~(nowcallnum >= Cardinality(Ecalls))
                          THEN nowcallnum + 1 ELSE nowcallnum
         /\ status' = IF inst = "Serve" /\ nowcallnum >= Cardinality(Ecalls)
                      THEN "exit" ELSE status
         /\ samples' = IF inst = "ReadCounters" THEN samples + 1 ELSE samples
<1> DEFINE inst == Inst(p)
<1>1. /\ [regs EXCEPT !.a0 = Loader] = [a0 |-> Loader, rest |-> regs.rest]
      /\ [program_intregs EXCEPT !.a0 = Loader] = [a0 |-> Loader, rest |-> program_intregs.rest]
      /\ \A x : [program_intregs EXCEPT !.a0 = x] = [a0 |-> x, rest |-> program_intregs.rest]
      /\ \A x : [regs EXCEPT !.a0 = x] = [a0 |-> x, rest |-> regs.rest]
      /\ \A x : [program_intregs EXCEPT !.rest = x] = [a0 |-> program_intregs.a0, rest |-> x]
      /\ \A x : [tempStackMem EXCEPT !.rest = x] = [a0 |-> tempStackMem.a0, rest |-> x]
      /\ \A x : [tempStackMem EXCEPT !.a0 = x] = [a0 |-> x, rest |-> tempStackMem.rest]
  BY DEF CoreTypes, IsRegs
<1>2. CASE inst = "op" /\ p[1] = "prog"
  BY <1>2 DEF commitEffect, setRegs
<1>3. CASE inst = "op" /\ p[1] = "takeover"
  BY <1>1, <1>3 DEF commitEffect, setRegs
<1>4. CASE inst = "SaveProgram"
  BY <1>1, <1>4 DEF commitEffect, SaveProgram
<1>5. CASE inst = "Serve"
  BY <1>1, <1>5 DEF commitEffect, Serve
<1>6. CASE inst = "LoadRest"
  BY <1>1, <1>6 DEF commitEffect, setRegs
<1>7. CASE inst = "LoadA0"
  BY <1>1, <1>7 DEF commitEffect, setRegs
<1>8. CASE inst = "SaveAll"
  BY <1>1, <1>8 DEF commitEffect, saveContext
<1>9. CASE inst = "SaveA0"
  BY <1>1, <1>9 DEF commitEffect, saveContext
<1>10. CASE inst = "LoadAll"
  BY <1>10 DEF commitEffect, setRegs
<1>11. CASE inst = "ReadCounters"
  BY <1>11 DEF commitEffect
<1>12. CASE ~(inst = "op" /\ p[1] \in {"prog", "takeover"})
            /\ inst \notin {"SaveProgram", "Serve", "LoadRest", "LoadA0", "SaveAll", "SaveA0",
                            "LoadAll", "ReadCounters"}
  BY <1>12 DEF commitEffect, data
<1>13. QED
  BY <1>2, <1>3, <1>4, <1>5, <1>6, <1>7, <1>8, <1>9, <1>10, <1>11, <1>12

(* What a commit does to the registers of the core. *)
LEMMA CommitUcsr ==
  ASSUME UcsrType(ucsr), committed \in Nat, CommitHead
  PROVE  /\ UcsrType(ucsr') /\ Kept(ucsr')
         /\ ucsr'.nowWarmupInsts = counted.nowWarmupInsts
         /\ ucsr'.warmupInstNum = counted.warmupInstNum
         /\ ucsr'.nowEventNum = counted.nowEventNum
         /\ ucsr'.instCounter = IF Inst(head) = "RstPFC" THEN 0 ELSE counted.instCounter
<1> DEFINE c == counted
<1>1. UcsrType(c) /\ Kept(c)
  BY Counted
<1>2. ucsr' = IF Inst(head) = "RstPFC" THEN [c EXCEPT !.instCounter = 0] ELSE c
  BY DEF CommitHead
<1> HIDE DEF c
<1>3. CASE Inst(head) = "RstPFC"
  <2>1. ucsr' = [c EXCEPT !.instCounter = 0]
    BY <1>2, <1>3
  <2>2. QED
    BY <1>1, <1>3, <2>1 DEF UcsrType, UcsrFields, Kept, c
<1>4. CASE Inst(head) # "RstPFC"
  BY <1>1, <1>2, <1>4 DEF c
<1>5. QED
  BY <1>3, <1>4

(* What going to sample_func does to the registers of the core. *)
LEMMA DivertUcsr ==
  ASSUME UcsrType(ucsr), committed \in Nat, DivertHead
  PROVE  /\ UcsrType(ucsr')
         /\ ucsr'.procTag = FALSE /\ ucsr'.pfc_enable = FALSE
         /\ ucsr'.exitFuncAddr = ucsr.exitFuncAddr /\ ucsr'.temp = ucsr.temp
         /\ ucsr'.maxEventNum = 0 /\ ucsr'.nowEventNum = 0 /\ ucsr'.userExitPC = head
         /\ ucsr'.nowWarmupInsts = counted.nowWarmupInsts
         /\ ucsr'.warmupInstNum = counted.warmupInstNum
         /\ ucsr'.instCounter = counted.instCounter
<1> DEFINE c == counted
<1>1. UcsrType(c) /\ Kept(c)
  BY Counted
<1>2. ucsr' = [c EXCEPT !.procTag = FALSE, !.maxEventNum = 0, !.nowEventNum = 0,
                        !.pfc_enable = FALSE, !.userExitPC = head]
  BY DEF DivertHead
<1> HIDE DEF c
<1>3. QED
  BY <1>1, <1>2 DEF UcsrType, UcsrFields, Kept, c

(* The types are kept by every move. *)
LEMMA CoreTypesStep ==
  ASSUME CoreTypes, PipeInv, Move, UNCHANGED <<runLength, warmup>>
  PROVE  CoreTypes'
<1>1. committed \in Nat /\ UcsrType(ucsr) /\ runLength \in Nat /\ warmup \in Nat /\ window \in Nat
      /\ user \in 0..3
  BY DEF CoreTypes, PipeInv, PipeTypes
<1>2. ASSUME NEW c \in 0..1, NEW u, Cycle(c, u) PROVE window' \in Nat
  BY <1>1, <1>2 DEF Cycle
<1>3. CASE Quiet
  <2>1. window' \in Nat
    BY <1>1, <1>2, <1>3 DEF Quiet, Clock
  <2>2. UcsrType(ucsr')
    BY <1>1, <1>3, Counted DEF Quiet
  <2>3. QED
    BY <1>3, <2>1, <2>2 DEF Quiet, CoreTypes, IsRegs, UcsrType
<1>4. CASE Fire
  <2>1. window' \in Nat
    BY <1>1, <1>2, <1>4 DEF Fire, Clock
  <2>2. UcsrType(ucsr')
    BY <1>1, <1>4, Written DEF Fire
  <2>3. QED
    BY <1>4, <2>1, <2>2 DEF Fire, data, CoreTypes, IsRegs, UcsrType
<1>5. CASE CommitHead
  <2>1. window' \in Nat
    BY <1>1, <1>2, <1>5 DEF CommitHead, Clock
  <2>2. UcsrType(ucsr')
    BY <1>1, <1>5, CommitUcsr
  <2>3. commitEffect(head)
    BY <1>5 DEF CommitHead
  <2>4. IsRegs(regs') /\ IsRegs(program_intregs') /\ IsRegs(tempStackMem')
    BY <2>3, Effect DEF CoreTypes, IsRegs, LoaderRegs
  <2>5. nowcallnum' \in Nat /\ samples' \in Nat
    BY <2>3, Effect DEF CoreTypes
  <2>6. QED
    BY <2>1, <2>2, <2>4, <2>5 DEF CoreTypes, IsRegs, UcsrType
<1>6. CASE DivertHead
  <2>1. window' \in Nat
    BY <1>1, <1>2, <1>6 DEF DivertHead, Clock
  <2>2. UcsrType(ucsr')
    BY <1>1, <1>6, DivertUcsr
  <2>3. QED
    BY <1>6, <2>1, <2>2 DEF DivertHead, data, CoreTypes, IsRegs, UcsrType
<1>7. QED
  BY <1>3, <1>4, <1>5, <1>6 DEF Move

-----------------------------------------------------------------------------
(* What the slice sees: its own position and registers while sample_func   *)
(* has them in the core and in its stack.                                  *)
inSample == head[1] = "sample"

vpc == IF inSample THEN ucsr.userExitPC ELSE head

vregs ==
  IF ~inSample \/ head[2] <= 2 THEN regs
  ELSE IF head[2] = 3 THEN [a0 |-> ucsr.temp[0][2], rest |-> tempStackMem.rest]
  ELSE tempStackMem

(* The system call that takeoverSyscall is about to serve, or the exit. *)
slot == IF nowcallnum = Cardinality(Ecalls) THEN ProgLen + 1 ELSE CallPc(nowcallnum + 1)

(* sample_func has the registers and the position of the slice. *)
SampleData ==
  /\ ucsr.temp[3] = TakeOver
  /\ ucsr.exitFuncAddr \in {NoPc, SampleFunc}
  /\ inSample =>
       /\ ucsr.maxEventNum = 0
       /\ ucsr.userExitPC \in At /\ ucsr.userExitPC[1] # "sample"
       /\ (head[2] = 1 /\ fired) \/ head[2] = 2 => ucsr.temp[0][2] = regs.a0
       /\ (head[2] = 4 /\ fired) \/ head[2] > 4 => ucsr.temp[0] = ucsr.userExitPC
       /\ head[2] = 13 => regs = tempStackMem

(* The end of read_ckptinfo has the registers of the checkpoint. *)
InitData ==
  vpc[1] = "init" =>
    /\ nowcallnum = 0 /\ program_intregs = Context(1) /\ ucsr.temp[2] = <<"prog", 1>>
    /\ vpc[2] = LoaderOps + 8 => vregs.rest = program_intregs.rest
    /\ vpc[2] = LoaderOps + 9 => vregs = program_intregs

(* The slice has the registers it computed. *)
ProgData ==
  vpc[1] = "prog" => vregs = Context(vpc[2]) /\ nowcallnum = CallsBefore(vpc[2])

(* takeoverSyscall serves the call that the slice made. *)
CallData ==
  vpc[1] = "takeover" /\ vpc[2] <= LoaderOps + 3 =>
    /\ slot \in Ecalls \cup {ProgLen + 1} /\ nowcallnum = CallsBefore(slot)
    /\ vpc[2] <= LoaderOps + 1 => vregs.rest = Context(slot).rest
    /\ vpc[2] > LoaderOps + 1 => program_intregs.rest = Context(slot).rest

(* It goes back behind that call. *)
BackData ==
  vpc[1] = "takeover" /\ vpc[2] > LoaderOps + 3 /\ status # "exit" =>
    LET k == CallPc(nowcallnum) IN
    /\ k \in Ecalls /\ nowcallnum = CallsBefore(k) + 1
    /\ program_intregs = Context(k + 1)
    /\ vpc[2] > LoaderOps + 4 \/ (~inSample /\ fired) => ucsr.temp[2] = <<"prog", k + 1>>
    /\ vpc[2] = LoaderOps + 7 => vregs.rest = program_intregs.rest
    /\ vpc[2] = LoaderOps + 8 => vregs = program_intregs

ExitData == status = "exit" => head = <<"takeover", LoaderOps + 4>> /\ ~fired

SliceData == InitData /\ ProgData /\ CallData /\ BackData /\ ExitData

DataInv == CoreTypes /\ PipeInv /\ SampleData /\ SliceData

(* The types in it. *)
LEMMA Basics ==
  ASSUME DataInv
  PROVE  /\ CoreTypes /\ UcsrType(ucsr) /\ committed \in 0..1 /\ committed \in Nat
         /\ user \in 0..3 /\ intr \in Nat /\ window \in Nat /\ samples \in Nat
         /\ nowcallnum \in Nat /\ runLength \in Nat /\ runLength # 0 /\ warmup \in Nat
         /\ head \in At /\ head = <<head[1], head[2]>> /\ head[1] \in Regions
         /\ head[2] \in Nat /\ head[2] >= 1 /\ LoaderOps \in Nat /\ ProgLen \in Nat
         /\ ucsr.procTag \in BOOLEAN /\ ucsr.instCounter \in Nat
<1>1. CoreTypes /\ committed \in 0..1 /\ user \in 0..3 /\ intr \in Nat /\ head \in At
  BY DEF DataInv, PipeInv, PipeTypes
<1>2. committed \in Nat
  BY <1>1
<1>3. /\ UcsrType(ucsr) /\ window \in Nat /\ samples \in Nat /\ nowcallnum \in Nat
      /\ runLength \in Nat /\ runLength # 0 /\ warmup \in Nat
  BY <1>1 DEF CoreTypes
<1>4. ucsr.procTag \in BOOLEAN /\ ucsr.instCounter \in Nat
  BY <1>3 DEF UcsrType
<1>5. LoaderOps \in Nat /\ ProgLen \in Nat
  BY SamplingAssumption
<1>6. /\ head = <<head[1], head[2]>> /\ head[1] \in Regions
      /\ head[2] \in Nat /\ head[2] >= 1
  BY <1>1, AtShape
<1>7. QED
  BY <1>1, <1>2, <1>3, <1>4, <1>5, <1>6

(* Where the slice stands, and where every uret goes. *)
LEMMA Target ==
  ASSUME DataInv
  PROVE  /\ vpc \in At /\ vpc[1] # "sample"
         /\ Inst(head) \in URets /\ status # "exit" => temp(Inst(head)) \in At
<1>1. head \in At
  BY DEF DataInv, PipeInv
<1>2. vpc \in At /\ vpc[1] # "sample"
  BY <1>1 DEF DataInv, SampleData, vpc, inSample
<1>3. ASSUME Inst(head) \in URets, status # "exit" PROVE temp(Inst(head)) \in At
  <2>1. CASE head[1] = "init"
    <3>1. Inst(head) = "URet2"
      BY <1>1, <1>3, <2>1, InstInit DEF URets
    <3>2. temp(Inst(head)) = <<"prog", 1>>
      BY <2>1, <3>1 DEF DataInv, SliceData, InitData, vpc, inSample, temp
    <3>3. QED
      BY <3>2, AtPair, CodeDomain DEF Regions
  <2>2. CASE head[1] = "prog"
    <3>1. Inst(head) = "URet3"
      BY <1>1, <1>3, <2>2, InstProg DEF URets
    <3>2. temp(Inst(head)) = <<"takeover", 1>>
      BY <3>1 DEF DataInv, SampleData, temp, TakeOver
    <3>3. QED
      BY <3>2, AtPair, CodeDomain DEF Regions
  <2>3. CASE head[1] = "takeover"
    <3>1. Inst(head) = "URet2" /\ head[2] = LoaderOps + 8
      BY <1>1, <1>3, <2>3, InstTakeover DEF URets
    <3> DEFINE k == CallPc(nowcallnum)
    <3>2. k \in Ecalls /\ temp(Inst(head)) = <<"prog", k + 1>>
      BY <1>3, <2>3, <3>1, CodeDomain DEF DataInv, SliceData, BackData, vpc, inSample, temp
    <3> HIDE DEF k
    <3>3. k + 1 \in Nat /\ k + 1 >= 1 /\ k + 1 <= ProgLen + 1
      BY <3>2, EcallNat, CodeDomain
    <3>4. QED
      BY <3>2, <3>3, AtPair DEF Regions
  <2>4. CASE head[1] = "sample"
    <3>1. Inst(head) = "URet0" /\ head[2] = 13
      BY <1>1, <1>3, <2>4, InstSample DEF URets
    <3>2. QED
      BY <2>4, <3>1 DEF DataInv, SampleData, inSample, temp
  <2>5. QED
    BY <1>1, <2>1, <2>2, <2>3, <2>4, AtShape DEF Regions
<1>4. QED
  BY <1>2, <1>3

(* A step that the slice does not see. *)
LEMMA SliceKept ==
  ASSUME SliceData, vpc' = vpc, vregs' = vregs, ucsr'.temp[2] = ucsr.temp[2],
         UNCHANGED <<program_intregs, nowcallnum>>,
         ~inSample' /\ fired' /\ vpc'[1] = "takeover" /\ vpc'[2] = LoaderOps + 4
           => ~inSample /\ fired,
         vpc[1] = "takeover" => vpc[2] \in Nat, LoaderOps \in Nat,
         status = "run", status' # "exit"
  PROVE  SliceData'
<1>1. InitData'
  BY DEF SliceData, InitData
<1>2. ProgData'
  BY DEF SliceData, ProgData
<1>3. CallData'
  BY DEF SliceData, CallData, slot
<1>4. BackData'
  <2> DEFINE k == CallPc(nowcallnum)
  <2>1. k' = k
    OBVIOUS
  <2> HIDE DEF k
  <2> SUFFICES ASSUME vpc[1] = "takeover", vpc[2] > LoaderOps + 3
               PROVE  /\ k \in Ecalls /\ nowcallnum = CallsBefore(k) + 1
                      /\ program_intregs = Context(k + 1)
                      /\ vpc[2] > LoaderOps + 4 \/ (~inSample' /\ fired')
                           => ucsr.temp[2] = <<"prog", k + 1>>
                      /\ vpc[2] = LoaderOps + 7 => vregs.rest = program_intregs.rest
                      /\ vpc[2] = LoaderOps + 8 => vregs = program_intregs
    BY <2>1 DEF BackData, k
  <2>2. /\ k \in Ecalls /\ nowcallnum = CallsBefore(k) + 1
        /\ program_intregs = Context(k + 1)
        /\ vpc[2] > LoaderOps + 4 \/ (~inSample /\ fired)
             => ucsr.temp[2] = <<"prog", k + 1>>
        /\ vpc[2] = LoaderOps + 7 => vregs.rest = program_intregs.rest
        /\ vpc[2] = LoaderOps + 8 => vregs = program_intregs
    BY DEF SliceData, BackData, k
  <2>3. vpc[2] > LoaderOps + 4 \/ vpc[2] = LoaderOps + 4
    OBVIOUS
  <2>4. QED
    BY <2>2, <2>3
<1>5. ExitData'
  BY DEF ExitData
<1>6. QED
  BY <1>1, <1>2, <1>3, <1>4, <1>5 DEF SliceData

(* A step of the pipeline alone. *)
LEMMA QuietData ==
  ASSUME DataInv, Quiet
  PROVE  SampleData' /\ SliceData'
<1>1. committed \in Nat /\ UcsrType(ucsr)
  BY DEF DataInv, CoreTypes, PipeInv, PipeTypes
<1>2. Kept(ucsr')
  BY <1>1, Counted DEF Quiet
<1>3. /\ head' = head /\ (fired' <=> fired) /\ regs' = regs /\ tempStackMem' = tempStackMem
      /\ ucsr'.temp = ucsr.temp /\ ucsr'.userExitPC = ucsr.userExitPC
      /\ ucsr'.exitFuncAddr = ucsr.exitFuncAddr /\ ucsr'.maxEventNum = ucsr.maxEventNum
  BY <1>2 DEF Quiet, Kept
<1>4. (inSample' <=> inSample) /\ vpc' = vpc /\ vregs' = vregs
  BY <1>3 DEF inSample, vpc, vregs
<1>5. SampleData'
  BY <1>3, <1>4 DEF DataInv, SampleData
<1>6. vpc[2] \in Nat /\ LoaderOps \in Nat
  BY Target, AtShape, CodeDomain
<1>7. SliceData'
  BY <1>3, <1>4, <1>6, SliceKept DEF DataInv, Quiet
<1>8. QED
  BY <1>5, <1>7

(* A ucsr instruction that executes. *)
LEMMA FireData ==
  ASSUME DataInv, Fire
  PROVE  SampleData' /\ SliceData'
<1>1. committed \in Nat /\ UcsrType(ucsr) /\ runLength \in Nat /\ warmup \in Nat
      /\ head \in At /\ head[2] \in Nat
  BY Basics
<1> DEFINE inst == Inst(head)
<1>2. /\ ucsr'.exitFuncAddr = (IF inst = "SetFuncAddr" THEN SampleFunc ELSE ucsr.exitFuncAddr)
      /\ ucsr'.maxEventNum = (IF inst = "SetMaxEventNum" THEN runLength
                              ELSE IF inst = "ClearMaxEventNum" THEN 0 ELSE ucsr.maxEventNum)
      /\ ucsr'.userExitPC = ucsr.userExitPC
      /\ ucsr'.temp[0] = (IF inst = "SetTemp0A0" THEN <<"a0", regs.a0>>
                          ELSE IF inst = "SetTemp0ExitPc" THEN ucsr.userExitPC
                          ELSE ucsr.temp[0])
      /\ ucsr'.temp[2] = (IF inst = "SetTemp2Npc" THEN <<"prog", CallPc(nowcallnum) + 1>>
                          ELSE ucsr.temp[2])
      /\ ucsr'.temp[3] = ucsr.temp[3]
  BY <1>1, Written DEF Fire
<1>3. /\ head' = head /\ fired' /\ ~fired /\ status = "run" /\ status' = "run"
      /\ UNCHANGED <<regs, program_intregs, tempStackMem, nowcallnum, samples>>
  BY DEF Fire, data
<1>4. (inSample' <=> inSample) /\ vpc' = vpc
  BY <1>2, <1>3 DEF inSample, vpc
<1>5. inSample => \/ head[2] = 1 /\ inst = "SetTemp0A0"
                  \/ head[2] = 4 /\ inst = "SetTemp0ExitPc"
                  \/ head[2] \notin {1, 4}
                       /\ inst \notin {"SetTemp0A0", "SetTemp0ExitPc", "SetTemp2Npc",
                                       "SetMaxEventNum"}
  BY <1>1, InstSample DEF inSample
<1>6. vregs' = vregs
  BY <1>1, <1>2, <1>3, <1>4, <1>5 DEF vregs
<1>7. SampleData'
  <2>1. ucsr'.temp[3] = TakeOver /\ ucsr'.exitFuncAddr \in {NoPc, SampleFunc}
    BY <1>2 DEF DataInv, SampleData
  <2>2. ASSUME inSample
        PROVE  /\ ucsr'.maxEventNum = 0
               /\ ucsr'.userExitPC \in At /\ ucsr'.userExitPC[1] # "sample"
               /\ head[2] = 1 \/ head[2] = 2 => ucsr'.temp[0][2] = regs.a0
               /\ head[2] = 4 \/ head[2] > 4 => ucsr'.temp[0] = ucsr.userExitPC
               /\ head[2] = 13 => regs = tempStackMem
    BY <1>1, <1>2, <1>5, <2>2 DEF DataInv, SampleData
  <2>3. QED
    BY <1>2, <1>3, <1>4, <2>1, <2>2 DEF SampleData
<1>8. vpc \in At /\ vpc[2] \in Nat /\ LoaderOps \in Nat
  BY Target, AtShape, CodeDomain
<1>9. CASE inst = "SetTemp2Npc"
  <2>1. ~inSample /\ head[1] = "takeover" /\ head[2] = LoaderOps + 4
    <3>1. head[1] # "init"
      BY <1>1, <1>9, InstInit
    <3>2. head[1] # "prog"
      BY <1>1, <1>9, InstProg
    <3>3. head[1] # "sample"
      BY <1>1, <1>9, InstSample
    <3>4. head[1] = "takeover"
      BY <1>1, <3>1, <3>2, <3>3, AtShape DEF Regions
    <3>5. QED
      BY <1>1, <1>9, <3>4, InstTakeover DEF inSample
  <2>2. vpc = head
    BY <2>1 DEF vpc
  <2> DEFINE k == CallPc(nowcallnum)
  <2>3. k \in Ecalls /\ nowcallnum = CallsBefore(k) + 1 /\ program_intregs = Context(k + 1)
    BY <1>3, <1>8, <2>1, <2>2 DEF DataInv, SliceData, BackData
  <2>4. k' = k /\ ucsr'.temp[2] = <<"prog", k + 1>>
    BY <1>2, <1>3, <1>9
  <2> HIDE DEF k
  <2>5. BackData'
    <3>1. vpc'[2] # LoaderOps + 7 /\ vpc'[2] # LoaderOps + 8
      BY <1>4, <1>8, <2>1, <2>2
    <3>2. QED
      BY <1>3, <2>3, <2>4, <3>1 DEF BackData, k
  <2>6. InitData' /\ ProgData' /\ CallData' /\ ExitData'
    BY <1>3, <1>4, <1>8, <2>1, <2>2 DEF InitData, ProgData, CallData, ExitData
  <2>7. QED
    BY <1>7, <2>5, <2>6 DEF SliceData
<1>10. CASE inst # "SetTemp2Npc"
  <2>1. ~inSample /\ vpc[1] = "takeover" => vpc[2] # LoaderOps + 4
    BY <1>1, <1>8, <1>10, InstTakeover DEF vpc
  <2>2. SliceData'
    BY <1>2, <1>3, <1>4, <1>6, <1>8, <1>10, <2>1, SliceKept DEF DataInv
  <2>3. QED
    BY <1>7, <2>2
<1>11. QED
  BY <1>9, <1>10

(* The core goes to sample_func. *)
LEMMA DivertData ==
  ASSUME DataInv, DivertHead
  PROVE  SampleData' /\ SliceData'
<1>1. committed \in Nat /\ UcsrType(ucsr) /\ head \in At
  BY DEF DataInv, CoreTypes, PipeInv, PipeTypes
<1>2. /\ ucsr'.userExitPC = head /\ ucsr'.exitFuncAddr = ucsr.exitFuncAddr
      /\ ucsr'.temp = ucsr.temp
  BY <1>1, DivertUcsr
<1>3. /\ head' = <<"sample", 1>> /\ ~fired /\ ~fired' /\ status = "run" /\ status' = "run"
      /\ UNCHANGED <<regs, program_intregs, tempStackMem, nowcallnum, samples>>
  BY DEF DivertHead, data, DataInv, SampleData, SampleFunc
<1>4. inSample' /\ ~inSample /\ ucsr'.maxEventNum = 0
  BY <1>1, <1>3, DivertUcsr
  DEF inSample, DivertHead, overflow_event, sampleValid, DataInv, SampleData
<1>5. vpc' = vpc /\ vregs' = vregs
  BY <1>2, <1>3, <1>4 DEF vpc, vregs
<1>6. SampleData'
  BY <1>1, <1>2, <1>3, <1>4 DEF DataInv, SampleData, inSample
<1>7. vpc[2] \in Nat /\ LoaderOps \in Nat
  BY Target, AtShape, CodeDomain
<1>8. SliceData'
  BY <1>2, <1>3, <1>4, <1>5, <1>7, SliceKept DEF DataInv
<1>9. QED
  BY <1>6, <1>8

(* An instruction of read_ckptinfo commits. *)
LEMMA InitCommit ==
  ASSUME DataInv, CommitHead, head[1] = "init"
  PROVE  SampleData' /\ SliceData'
<1>1. /\ committed \in Nat /\ UcsrType(ucsr) /\ head \in At /\ head[2] \in Nat
      /\ CoreTypes /\ LoaderOps \in Nat /\ ProgLen \in Nat
  BY Basics
<1>2. Kept(ucsr')
  BY <1>1, CommitUcsr
<1>3. /\ ucsr'.temp = ucsr.temp /\ ucsr'.exitFuncAddr = ucsr.exitFuncAddr
      /\ commitEffect(head) /\ status = "run"
      /\ head' = (IF Inst(head) \in URets THEN temp(Inst(head)) ELSE Next1(head))
  BY <1>2 DEF Kept, CommitHead
<1>4. ~inSample /\ vpc = head /\ vregs = regs
  BY DEF inSample, vpc, vregs
<1>5. /\ nowcallnum = 0 /\ program_intregs = Context(1) /\ ucsr.temp[2] = <<"prog", 1>>
      /\ head[2] = LoaderOps + 8 => regs.rest = program_intregs.rest
      /\ head[2] = LoaderOps + 9 => regs = program_intregs
  BY <1>4 DEF DataInv, SliceData, InitData
<1>6. Inst(head) \notin {"SaveProgram", "Serve", "SaveAll", "SaveA0"}
  BY <1>1, InstInit
<1>7. /\ UNCHANGED <<program_intregs, nowcallnum, status>>
      /\ regs' = (IF Inst(head) = "LoadRest"
                    THEN [a0 |-> Loader, rest |-> program_intregs.rest]
                  ELSE IF Inst(head) = "LoadA0"
                         THEN [a0 |-> program_intregs.a0, rest |-> regs.rest] ELSE regs')
  BY <1>1, <1>3, <1>6, Effect
<1>8. CASE head[2] = LoaderOps + 9
  <2>1. Inst(head) = "URet2"
    BY <1>1, <1>8, InstInit
  <2>2. head' = <<"prog", 1>> /\ regs' = regs
    BY <1>1, <1>3, <1>5, <2>1, Effect DEF temp, URets
  <2>3. ~inSample' /\ vpc' = <<"prog", 1>> /\ vregs' = regs'
    BY <2>2 DEF inSample, vpc, vregs
  <2>4. SampleData'
    BY <1>3, <2>3 DEF DataInv, SampleData
  <2>5. ProgData'
    BY <1>5, <1>7, <1>8, <2>2, <2>3, CallsBounds DEF ProgData
  <2>6. InitData' /\ CallData' /\ BackData' /\ ExitData'
    BY <1>3, <1>7, <2>3 DEF InitData, CallData, BackData, ExitData
  <2>7. QED
    BY <2>4, <2>5, <2>6 DEF SliceData
<1>9. CASE head[2] # LoaderOps + 9
  <2>1. Inst(head) \notin URets
    BY <1>1, <1>9, InstInit DEF URets
  <2>2. head' = <<"init", head[2] + 1>>
    BY <1>3, <2>1 DEF Next1
  <2>3. ~inSample' /\ vpc' = <<"init", head[2] + 1>> /\ vregs' = regs'
    BY <2>2 DEF inSample, vpc, vregs
  <2>4. SampleData'
    BY <1>3, <2>3 DEF DataInv, SampleData
  <2>5. InitData'
    <3>1. ASSUME head[2] + 1 = LoaderOps + 8 PROVE regs'.rest = program_intregs.rest
      <4>1. Inst(head) = "LoadRest"
        BY <1>1, <3>1, InstInit
      <4>2. QED
        BY <1>7, <4>1
    <3>2. ASSUME head[2] + 1 = LoaderOps + 9 PROVE regs' = program_intregs
      <4>1. Inst(head) = "LoadA0" /\ head[2] = LoaderOps + 8
        BY <1>1, <3>2, InstInit
      <4>2. regs' = [a0 |-> program_intregs.a0, rest |-> program_intregs.rest]
        BY <1>5, <1>7, <4>1
      <4>3. QED
        BY <1>1, <4>2 DEF CoreTypes, IsRegs
    <3>3. QED
      BY <1>3, <1>5, <1>7, <2>3, <3>1, <3>2 DEF InitData
  <2>6. ProgData' /\ CallData' /\ BackData' /\ ExitData'
    BY <1>3, <1>7, <2>3 DEF ProgData, CallData, BackData, ExitData
  <2>7. QED
    BY <2>4, <2>5, <2>6 DEF SliceData
<1>10. QED
  BY <1>8, <1>9

(* The call that the slice makes is the next one to serve. *)
LEMMA SlotIs ==
  ASSUME NEW k \in Ecalls \cup {ProgLen + 1}, nowcallnum = CallsBefore(k)
  PROVE  slot = k
<1>1. CASE k \in Ecalls
  <2>1. CallsBefore(k) \in Nat /\ Cardinality(Ecalls) \in Nat
    BY <1>1, CallsBounds, EcallNat
  <2>2. nowcallnum # Cardinality(Ecalls) /\ CallPc(nowcallnum + 1) = k
    BY <1>1, <2>1, CallPcIs
  <2>3. QED
    BY <2>2 DEF slot
<1>2. CASE k = ProgLen + 1
  BY <1>2, CallsBounds DEF slot
<1>3. QED
  BY <1>1, <1>2

(* An instruction of the slice commits. *)
LEMMA ProgCommit ==
  ASSUME DataInv, CommitHead, head[1] = "prog"
  PROVE  SampleData' /\ SliceData'
<1>1. /\ committed \in Nat /\ UcsrType(ucsr) /\ head \in At /\ head[2] \in Nat
      /\ CoreTypes /\ LoaderOps \in Nat /\ ProgLen \in Nat
  BY Basics
<1>2. Kept(ucsr')
  BY <1>1, CommitUcsr
<1>3. /\ ucsr'.temp = ucsr.temp /\ ucsr'.exitFuncAddr = ucsr.exitFuncAddr
      /\ commitEffect(head) /\ status = "run"
      /\ head' = (IF Inst(head) \in URets THEN temp(Inst(head)) ELSE Next1(head))
  BY <1>2 DEF Kept, CommitHead
<1>4. ~inSample /\ vpc = head /\ vregs = regs
  BY DEF inSample, vpc, vregs
<1>5. regs = Context(head[2]) /\ nowcallnum = CallsBefore(head[2])
  BY <1>4 DEF DataInv, SliceData, ProgData
<1>6. Inst(head) \in {"op", "URet3"}
  BY <1>1, InstProg
<1>7. UNCHANGED <<program_intregs, nowcallnum, status>>
  BY <1>1, <1>3, <1>6, Effect
<1>8. CASE Inst(head) = "URet3"
  <2>1. head[2] \in Ecalls \cup {ProgLen + 1}
    BY <1>1, <1>8, InstProg
  <2>2. head' = <<"takeover", 1>>
    BY <1>3, <1>8 DEF temp, URets, DataInv, SampleData, TakeOver
  <2>3. regs' = regs
    BY <1>1, <1>3, <1>8, Effect
  <2>4. ~inSample' /\ vpc' = <<"takeover", 1>> /\ vregs' = regs'
    BY <2>2 DEF inSample, vpc, vregs
  <2>5. slot' = head[2]
    <3>1. slot = head[2]
      BY <1>5, <2>1, SlotIs
    <3>2. QED
      BY <1>7, <3>1 DEF slot
  <2>6. SampleData'
    BY <1>3, <2>4 DEF DataInv, SampleData
  <2>7. CallData'
    BY <1>1, <1>5, <1>7, <2>1, <2>3, <2>4, <2>5 DEF CallData
  <2>8. InitData' /\ ProgData' /\ BackData' /\ ExitData'
    BY <1>1, <1>3, <1>7, <2>4 DEF InitData, ProgData, BackData, ExitData
  <2>9. QED
    BY <2>6, <2>7, <2>8 DEF SliceData
<1>9. CASE Inst(head) = "op"
  <2>1. head[2] \notin Ecalls
    BY <1>1, <1>9, InstProg
  <2>2. head' = <<"prog", head[2] + 1>>
    BY <1>3, <1>9 DEF Next1, URets
  <2>3. regs' = [a0 |-> head[2], rest |-> head[2]]
    BY <1>1, <1>3, <1>9, Effect
  <2>4. ~inSample' /\ vpc' = <<"prog", head[2] + 1>> /\ vregs' = regs'
    BY <2>2 DEF inSample, vpc, vregs
  <2>5. SampleData'
    BY <1>3, <2>4 DEF DataInv, SampleData
  <2>6. ProgData'
    <3>1. regs' = Context(head[2] + 1)
      BY <1>1, <2>1, <2>3, ContextOp
    <3>2. nowcallnum = CallsBefore(head[2] + 1)
      BY <1>1, <1>5, <2>1, CallsNext
    <3>3. QED
      BY <1>7, <2>4, <3>1, <3>2 DEF ProgData
  <2>7. InitData' /\ CallData' /\ BackData' /\ ExitData'
    BY <1>3, <1>7, <2>4 DEF InitData, CallData, BackData, ExitData
  <2>8. QED
    BY <2>5, <2>6, <2>7 DEF SliceData
<1>10. QED
  BY <1>6, <1>8, <1>9

(* The first half of takeoverSyscall saves the registers of the slice and  *)
(* serves its call.                                                        *)
LEMMA CallCommit ==
  ASSUME DataInv, CommitHead, head[1] = "takeover", head[2] <= LoaderOps + 3
  PROVE  SampleData' /\ SliceData'
<1>1. /\ committed \in Nat /\ UcsrType(ucsr) /\ head \in At /\ head[2] \in Nat
      /\ CoreTypes /\ LoaderOps \in Nat /\ ProgLen \in Nat
  BY Basics
<1>2. Kept(ucsr')
  BY <1>1, CommitUcsr
<1>3. /\ ucsr'.temp = ucsr.temp /\ ucsr'.exitFuncAddr = ucsr.exitFuncAddr
      /\ commitEffect(head) /\ status = "run" /\ ~fired'
      /\ head' = (IF Inst(head) \in URets THEN temp(Inst(head)) ELSE Next1(head))
  BY <1>2 DEF Kept, CommitHead
<1>4. ~inSample /\ vpc = head /\ vregs = regs
  BY DEF inSample, vpc, vregs
<1>5. /\ slot \in Ecalls \cup {ProgLen + 1} /\ nowcallnum = CallsBefore(slot)
      /\ head[2] <= LoaderOps + 1 => regs.rest = Context(slot).rest
      /\ head[2] > LoaderOps + 1 => program_intregs.rest = Context(slot).rest
  BY <1>4 DEF DataInv, SliceData, CallData
<1>6. \/ head[2] <= LoaderOps /\ Inst(head) = "op"
      \/ head[2] = LoaderOps + 1 /\ Inst(head) = "SaveProgram"
      \/ head[2] = LoaderOps + 2 /\ Inst(head) = "ClearProcTag"
      \/ head[2] = LoaderOps + 3 /\ Inst(head) = "Serve"
  BY <1>1, InstTakeover
<1>7. head' = <<"takeover", head[2] + 1>>
  BY <1>3, <1>6 DEF Next1, URets
<1>8. ~inSample' /\ vpc' = <<"takeover", head[2] + 1>> /\ vregs' = regs'
  BY <1>7 DEF inSample, vpc, vregs
<1>9. SampleData'
  BY <1>3, <1>8 DEF DataInv, SampleData
<1>10. InitData' /\ ProgData'
  BY <1>8 DEF InitData, ProgData
<1>11. CASE Inst(head) # "Serve"
  <2>1. UNCHANGED <<nowcallnum, status>> /\ head[2] + 1 <= LoaderOps + 3
    BY <1>1, <1>3, <1>6, <1>11, Effect
  <2>2. slot' = slot
    BY <2>1 DEF slot
  <2>3. head[2] + 1 <= LoaderOps + 1 => regs'.rest = Context(slot).rest
    <3>1. ASSUME head[2] + 1 <= LoaderOps + 1 PROVE regs'.rest = Context(slot).rest
      <4>1. Inst(head) = "op" /\ head[2] <= LoaderOps + 1
        BY <1>1, <1>6, <3>1
      <4>2. regs' = [a0 |-> Loader, rest |-> regs.rest]
        BY <1>1, <1>3, <4>1, Effect
      <4>3. QED
        BY <1>5, <4>1, <4>2
    <3>2. QED
      BY <3>1
  <2>4. head[2] + 1 > LoaderOps + 1 => program_intregs'.rest = Context(slot).rest
    <3>1. CASE Inst(head) = "SaveProgram"
      <4>1. head[2] <= LoaderOps + 1
        BY <1>1, <1>6, <3>1
      <4>2. program_intregs' = [a0 |-> program_intregs.a0, rest |-> regs.rest]
        BY <1>1, <1>3, <3>1, Effect
      <4>3. QED
        BY <1>5, <4>1, <4>2
    <3>2. CASE Inst(head) = "ClearProcTag"
      <4>1. head[2] > LoaderOps + 1
        BY <1>1, <1>6, <3>2
      <4>2. program_intregs' = program_intregs
        BY <1>1, <1>3, <3>2, Effect
      <4>3. QED
        BY <1>5, <4>1, <4>2
    <3>3. CASE Inst(head) = "op"
      BY <1>1, <1>6, <3>3
    <3>4. QED
      BY <1>6, <1>11, <3>1, <3>2, <3>3
  <2>5. CallData'
    BY <1>5, <1>8, <2>1, <2>2, <2>3, <2>4 DEF CallData
  <2>6. BackData' /\ ExitData'
    BY <1>1, <1>3, <1>8, <2>1 DEF BackData, ExitData
  <2>7. QED
    BY <1>9, <1>10, <2>5, <2>6 DEF SliceData
<1>12. CASE Inst(head) = "Serve"
  <2>1. head[2] = LoaderOps + 3 /\ head[2] + 1 = LoaderOps + 4
    BY <1>1, <1>6, <1>12
  <2>2. CallData'
    BY <1>1, <1>8, <2>1 DEF CallData
  <2>3. CASE nowcallnum >= Cardinality(Ecalls)
    <3>1. status' = "exit"
      BY <1>1, <1>3, <1>12, <2>3, Effect
    <3>2. BackData' /\ ExitData'
      BY <1>3, <1>7, <2>1, <3>1 DEF BackData, ExitData
    <3>3. QED
      BY <1>9, <1>10, <2>2, <3>2 DEF SliceData
  <2>4. CASE ~(nowcallnum >= Cardinality(Ecalls))
    <3> DEFINE k == slot
    <3>1. slot = CallPc(nowcallnum + 1) /\ slot \in Ecalls
      <4>1. nowcallnum # Cardinality(Ecalls)
        BY <1>1, <2>4, CallsBounds DEF CoreTypes
      <4>2. slot # ProgLen + 1
        BY <1>5, <4>1, CallsBounds
      <4>3. QED
        BY <1>5, <4>1, <4>2 DEF slot
    <3>2. /\ status' = status /\ nowcallnum' = nowcallnum + 1
          /\ program_intregs' = [a0 |-> k, rest |-> program_intregs.rest]
      BY <1>1, <1>3, <1>12, <2>4, <3>1, Effect
    <3>3. program_intregs.rest = Context(k).rest /\ nowcallnum = CallsBefore(k) /\ k \in Ecalls
      BY <1>1, <1>5, <2>1, <3>1
    <3>4. CallPc(nowcallnum') = k
      BY <3>1, <3>2
    <3> HIDE DEF k
    <3>5. program_intregs' = Context(k + 1)
      BY <3>2, <3>3, ContextCall
    <3>6. BackData'
      <4>1. vpc'[2] # LoaderOps + 7 /\ vpc'[2] # LoaderOps + 8 /\ ~(vpc'[2] > LoaderOps + 4)
        BY <1>1, <1>8, <2>1
      <4>2. QED
        BY <1>3, <3>2, <3>3, <3>4, <3>5, <4>1 DEF BackData
    <3>7. ExitData'
      BY <1>3, <3>2 DEF ExitData
    <3>8. QED
      BY <1>9, <1>10, <2>2, <3>6, <3>7 DEF SliceData
  <2>5. QED
    BY <2>3, <2>4
<1>13. QED
  BY <1>11, <1>12

(* The second half goes back to the slice with the recorded result. *)
LEMMA BackCommit ==
  ASSUME DataInv, CommitHead, head[1] = "takeover", ~(head[2] <= LoaderOps + 3)
  PROVE  SampleData' /\ SliceData'
<1>1. /\ committed \in Nat /\ UcsrType(ucsr) /\ head \in At /\ head[2] \in Nat
      /\ CoreTypes /\ LoaderOps \in Nat /\ ProgLen \in Nat
  BY Basics
<1>2. Kept(ucsr')
  BY <1>1, CommitUcsr
<1>3. /\ ucsr'.temp = ucsr.temp /\ ucsr'.exitFuncAddr = ucsr.exitFuncAddr
      /\ commitEffect(head) /\ status = "run" /\ ~fired' /\ (is_unique(head) => fired)
      /\ head' = (IF Inst(head) \in URets THEN temp(Inst(head)) ELSE Next1(head))
  BY <1>2 DEF Kept, CommitHead
<1>4. ~inSample /\ vpc = head /\ vregs = regs
  BY DEF inSample, vpc, vregs
<1> DEFINE k == CallPc(nowcallnum)
<1>5. /\ k \in Ecalls /\ nowcallnum = CallsBefore(k) + 1
      /\ program_intregs = Context(k + 1)
      /\ head[2] > LoaderOps + 4 \/ fired => ucsr.temp[2] = <<"prog", k + 1>>
      /\ head[2] = LoaderOps + 7 => regs.rest = program_intregs.rest
      /\ head[2] = LoaderOps + 8 => regs = program_intregs
  BY <1>1, <1>3, <1>4 DEF DataInv, SliceData, BackData
<1>6. \/ head[2] = LoaderOps + 4 /\ Inst(head) = "SetTemp2Npc"
      \/ head[2] = LoaderOps + 5 /\ Inst(head) = "SetProcTag"
      \/ head[2] = LoaderOps + 6 /\ Inst(head) = "LoadRest"
      \/ head[2] = LoaderOps + 7 /\ Inst(head) = "LoadA0"
      \/ head[2] = LoaderOps + 8 /\ Inst(head) = "URet2"
  BY <1>1, InstTakeover
<1>7. UNCHANGED <<program_intregs, nowcallnum, status>>
  BY <1>1, <1>3, <1>6, Effect
<1>8. k' = k
  BY <1>7
<1> HIDE DEF k
<1>9. ucsr.temp[2] = <<"prog", k + 1>>
  <2>1. CASE head[2] = LoaderOps + 4
    BY <1>1, <1>3, <1>5, <1>6, <2>1 DEF is_unique, SetInsts
  <2>2. CASE head[2] # LoaderOps + 4
    BY <1>1, <1>5, <2>2
  <2>3. QED
    BY <2>1, <2>2
<1>10. CASE Inst(head) = "URet2"
  <2>1. head[2] = LoaderOps + 8
    BY <1>1, <1>6, <1>10
  <2>2. head' = <<"prog", k + 1>>
    BY <1>3, <1>9, <1>10 DEF temp, URets
  <2>3. regs' = regs
    BY <1>1, <1>3, <1>10, Effect
  <2>4. ~inSample' /\ vpc' = <<"prog", k + 1>> /\ vregs' = regs'
    BY <2>2 DEF inSample, vpc, vregs
  <2>5. SampleData'
    BY <1>3, <2>4 DEF DataInv, SampleData
  <2>6. ProgData'
    <3>1. k \in Nat /\ CallsBefore(k + 1) = CallsBefore(k) + 1
      BY <1>5, EcallNat, CallsNext
    <3>2. QED
      BY <1>5, <1>7, <2>1, <2>3, <2>4, <3>1 DEF ProgData
  <2>7. InitData' /\ CallData' /\ BackData' /\ ExitData'
    BY <1>3, <1>7, <2>4 DEF InitData, CallData, BackData, ExitData
  <2>8. QED
    BY <2>5, <2>6, <2>7 DEF SliceData
<1>11. CASE Inst(head) # "URet2"
  <2>1. head' = <<"takeover", head[2] + 1>>
    BY <1>3, <1>6, <1>11 DEF Next1, URets
  <2>2. ~inSample' /\ vpc' = <<"takeover", head[2] + 1>> /\ vregs' = regs'
    BY <2>1 DEF inSample, vpc, vregs
  <2>3. SampleData'
    BY <1>3, <2>2 DEF DataInv, SampleData
  <2>4. InitData' /\ ProgData' /\ CallData' /\ ExitData'
    BY <1>1, <1>3, <1>7, <2>2 DEF InitData, ProgData, CallData, ExitData
  <2>5. ASSUME head[2] + 1 = LoaderOps + 7 PROVE regs'.rest = program_intregs.rest
    <3>1. Inst(head) = "LoadRest"
      BY <1>1, <1>6, <2>5
    <3>2. regs' = [a0 |-> Loader, rest |-> program_intregs.rest]
      BY <1>1, <1>3, <3>1, Effect
    <3>3. QED
      BY <3>2
  <2>6. ASSUME head[2] + 1 = LoaderOps + 8 PROVE regs' = program_intregs
    <3>1. Inst(head) = "LoadA0" /\ head[2] = LoaderOps + 7
      BY <1>1, <1>6, <2>6
    <3>2. regs' = [a0 |-> program_intregs.a0, rest |-> program_intregs.rest]
      BY <1>1, <1>3, <1>5, <3>1, Effect
    <3>3. QED
      BY <1>1, <3>2 DEF CoreTypes, IsRegs
  <2>7. BackData'
    BY <1>3, <1>5, <1>7, <1>8, <1>9, <2>2, <2>5, <2>6 DEF BackData, k
  <2>8. QED
    BY <2>3, <2>4, <2>7 DEF SliceData
<1>12. QED
  BY <1>10, <1>11

(* sample_func saves what the slice has, and gives it back. *)
LEMMA SampleCommit ==
  ASSUME DataInv, CommitHead, head[1] = "sample"
  PROVE  SampleData' /\ SliceData'
<1>1. /\ committed \in Nat /\ UcsrType(ucsr) /\ head \in At /\ head[2] \in Nat
      /\ head[2] >= 1 /\ head[2] <= 13
      /\ CoreTypes /\ LoaderOps \in Nat /\ ProgLen \in Nat
  BY Basics, AtShape
<1>2. Kept(ucsr')
  BY <1>1, CommitUcsr
<1>3. /\ ucsr'.temp = ucsr.temp /\ ucsr'.exitFuncAddr = ucsr.exitFuncAddr
      /\ ucsr'.userExitPC = ucsr.userExitPC /\ ucsr'.maxEventNum = ucsr.maxEventNum
      /\ commitEffect(head) /\ status = "run" /\ ~fired' /\ (is_unique(head) => fired)
      /\ head' = (IF Inst(head) \in URets THEN temp(Inst(head)) ELSE Next1(head))
  BY <1>2 DEF Kept, CommitHead
<1>4. inSample /\ vpc = ucsr.userExitPC
  BY DEF inSample, vpc
<1>5. /\ ucsr.userExitPC \in At /\ ucsr.userExitPC[1] # "sample" /\ ucsr.maxEventNum = 0
      /\ (head[2] = 1 /\ fired) \/ head[2] = 2 => ucsr.temp[0][2] = regs.a0
      /\ (head[2] = 4 /\ fired) \/ head[2] > 4 => ucsr.temp[0] = ucsr.userExitPC
      /\ head[2] = 13 => regs = tempStackMem
  BY <1>4 DEF DataInv, SampleData
<1>6. Inst(head) \notin {"Serve", "SaveProgram"}
  BY <1>1, InstSample
<1>7. UNCHANGED <<program_intregs, nowcallnum, status>>
  BY <1>1, <1>3, <1>6, Effect
<1>8. vpc[2] \in Nat
  BY <1>4, <1>5, AtShape
<1>9. CASE head[2] = 13
  <2>1. Inst(head) = "URet0"
    BY <1>1, <1>9, InstSample
  <2>2. head' = ucsr.userExitPC
    BY <1>3, <1>5, <1>9, <2>1 DEF temp, URets
  <2>3. regs' = regs
    BY <1>1, <1>3, <2>1, Effect
  <2>4. ~inSample' /\ vpc' = vpc
    BY <1>4, <1>5, <2>2 DEF inSample, vpc
  <2>5. vregs' = vregs
    BY <1>4, <1>5, <1>9, <2>3, <2>4 DEF vregs
  <2>6. SampleData'
    BY <1>3, <2>4 DEF DataInv, SampleData
  <2>7. SliceData'
    BY <1>1, <1>3, <1>7, <1>8, <2>4, <2>5, SliceKept DEF DataInv
  <2>8. QED
    BY <2>6, <2>7
<1>10. CASE head[2] # 13
  <2>1. Inst(head) \notin URets
    BY <1>1, <1>10, InstSample DEF URets
  <2>2. head' = <<"sample", head[2] + 1>>
    BY <1>3, <2>1 DEF Next1
  <2>3. inSample' /\ vpc' = vpc
    BY <1>3, <1>4, <2>2 DEF inSample, vpc
  <2>4. CASE head[2] = 1
    <3>1. Inst(head) = "SetTemp0A0"
      BY <1>1, <2>4, InstSample
    <3>2. fired
      BY <1>3, <3>1 DEF is_unique, SetInsts
    <3>3. regs' = regs
      BY <1>1, <1>3, <3>1, Effect
    <3>4. vregs' = vregs
      BY <2>2, <2>4, <3>3 DEF vregs
    <3>5. SampleData'
      BY <1>3, <1>5, <2>2, <2>3, <2>4, <3>2, <3>3 DEF DataInv, SampleData
    <3>6. QED
      BY <1>1, <1>3, <1>7, <1>8, <2>3, <3>4, <3>5, SliceKept DEF DataInv
  <2>5. CASE head[2] = 2
    <3>1. Inst(head) = "SaveAll"
      BY <1>1, <2>5, InstSample
    <3>2. tempStackMem' = [a0 |-> tempStackMem.a0, rest |-> regs.rest]
      BY <1>1, <1>3, <3>1, Effect
    <3>3. vregs = regs /\ vregs' = [a0 |-> ucsr'.temp[0][2], rest |-> tempStackMem'.rest]
      BY <1>4, <2>2, <2>3, <2>5 DEF vregs
    <3>4. vregs' = [a0 |-> regs.a0, rest |-> regs.rest]
      BY <1>3, <1>5, <2>5, <3>2, <3>3
    <3>5. vregs' = vregs
      BY <1>1, <3>3, <3>4 DEF CoreTypes, IsRegs
    <3>6. SampleData'
      BY <1>3, <1>5, <2>2, <2>3, <2>5 DEF DataInv, SampleData
    <3>7. QED
      BY <1>1, <1>3, <1>7, <1>8, <2>3, <3>5, <3>6, SliceKept DEF DataInv
  <2>6. CASE head[2] = 3
    <3>1. Inst(head) = "SaveA0"
      BY <1>1, <2>6, InstSample
    <3>2. tempStackMem' = [a0 |-> ucsr.temp[0][2], rest |-> tempStackMem.rest]
      BY <1>1, <1>3, <3>1, Effect
    <3>3. vregs' = vregs
      BY <1>4, <2>2, <2>3, <2>6, <3>2 DEF vregs
    <3>4. SampleData'
      BY <1>3, <1>5, <2>2, <2>3, <2>6 DEF DataInv, SampleData
    <3>5. QED
      BY <1>1, <1>3, <1>7, <1>8, <2>3, <3>3, <3>4, SliceKept DEF DataInv
  <2>7. CASE head[2] > 3
    <3>1. Inst(head) \notin {"SaveAll", "SaveA0"} /\ (head[2] = 12 => Inst(head) = "LoadAll")
          /\ (head[2] = 4 => Inst(head) = "SetTemp0ExitPc")
      BY <1>1, <2>7, InstSample
    <3>2. tempStackMem' = tempStackMem /\ (head[2] = 12 => regs' = tempStackMem)
      BY <1>1, <1>3, <3>1, Effect
    <3>3. vregs' = vregs
      BY <1>1, <1>4, <2>2, <2>3, <2>7, <3>2 DEF vregs
    <3>4. ucsr.temp[0] = ucsr.userExitPC
      <4>1. CASE head[2] = 4
        BY <1>3, <1>5, <3>1, <4>1 DEF is_unique, SetInsts
      <4>2. CASE head[2] # 4
        BY <1>1, <1>5, <2>7, <4>2
      <4>3. QED
        BY <4>1, <4>2
    <3>5. SampleData'
      <4>1. head'[2] = head[2] + 1 /\ head'[2] > 4 /\ (head'[2] = 13 => head[2] = 12)
        BY <1>1, <2>2, <2>7
      <4>2. QED
        BY <1>3, <1>5, <2>3, <3>2, <3>4, <4>1 DEF DataInv, SampleData
    <3>6. QED
      BY <1>1, <1>3, <1>7, <1>8, <2>3, <3>3, <3>5, SliceKept DEF DataInv
  <2>8. QED
    BY <1>1, <2>4, <2>5, <2>6, <2>7
<1>11. QED
  BY <1>9, <1>10

(* The invariant of registers and memory is inductive. *)
LEMMA DataStep ==
  ASSUME DataInv, [Next]_vars
  PROVE  DataInv' /\ (Move \/ UNCHANGED vars)
<1>1. CASE Next
  <2>1. status # "exit"
    <3>1. status = "exit" => flush.kind = "none"
      BY DEF DataInv, PipeInv, ModeInv
    <3>2. QED
      BY <1>1, <3>1 DEF Next, Decode, Dispatch, Execute, Commit, Throw, Stall, Return, Divert,
                        Trap, Eret, running, isOverFlowExcpt, URets
  <2>2. PipeInv' /\ Move
    BY <1>1, <2>1, Target, PipeStep DEF DataInv, CoreTypes, SampleData
  <2>3. UNCHANGED <<runLength, warmup>>
    BY <1>1 DEF Next, Decode, Dispatch, Execute, Commit, Throw, Stall, Return, Divert, Trap, Eret
  <2>4. CoreTypes'
    BY <2>2, <2>3, CoreTypesStep DEF DataInv
  <2>5. SampleData' /\ SliceData'
    <3>1. ASSUME CommitHead PROVE SampleData' /\ SliceData'
      <4>1. head[1] \in Regions
        BY AtShape DEF DataInv, PipeInv
      <4>2. QED
        BY <3>1, <4>1, InitCommit, ProgCommit, CallCommit, BackCommit, SampleCommit DEF Regions
    <3>2. QED
      BY <2>2, <3>1, QuietData, FireData, DivertData DEF Move
  <2>6. QED
    BY <2>2, <2>4, <2>5 DEF DataInv
<1>2. CASE UNCHANGED vars
  <2>1. /\ UNCHANGED <<runLength, warmup, ucsr, committed, user, fpc, dis, rob, flush, regs,
                       program_intregs, tempStackMem, nowcallnum, status, samples, intr, window>>
    BY <1>2 DEF vars, pipeline, data
  <2>2. head' = head /\ (fired' <=> fired)
    BY <2>1 DEF head, fired, is_unique, temp
  <2>3. vpc' = vpc /\ vregs' = vregs /\ slot' = slot /\ (inSample' <=> inSample)
    BY <2>1, <2>2 DEF vpc, vregs, slot, inSample
  <2>4. CoreTypes'
    BY <2>1 DEF DataInv, CoreTypes, UcsrType, IsRegs
  <2>5. PipeInv'
    BY <2>1, <2>2 DEF DataInv, PipeInv, PipeTypes, RobInv, FetchInv, ModeInv, is_unique
  <2>6. SampleData'
    BY <2>1, <2>2, <2>3 DEF DataInv, SampleData
  <2>7. SliceData'
    BY <2>1, <2>2, <2>3 DEF DataInv, SliceData, InitData, ProgData, CallData, BackData, ExitData
  <2>8. QED
    BY <1>2, <2>4, <2>5, <2>6, <2>7 DEF DataInv
<1>3. QED
  BY <1>1, <1>2

(* It holds at the start. *)
LEMMA DataInit ==
  ASSUME Init
  PROVE  DataInv /\ head = <<"init", 1>> /\ ~fired
<1>1. LoaderOps \in Nat /\ ProgLen \in Nat /\ RobSize \in Nat
  BY SamplingAssumption
<1>2. Len(rob) = 0 /\ Len(dis) = 0 /\ rob \in Seq(Entry) /\ dis \in Seq(Entry)
      /\ flush.kind = "none" /\ fpc = <<"init", 1>>
  BY DEF Init
<1>3. head = <<"init", 1>> /\ ~fired /\ ~inSample /\ vpc = <<"init", 1>>
  BY <1>2 DEF head, fired, inSample, vpc
<1>4. head \in At
  BY <1>1, <1>3, AtPair DEF Regions
<1>5. /\ UcsrType(ucsr) /\ ucsr.temp[2] = <<"prog", 1>> /\ ucsr.temp[3] = TakeOver
      /\ ucsr.exitFuncAddr = NoPc
  BY DEF Init, UcsrType, UcsrFields
<1>6. CoreTypes
  <2>1. runLength \in Nat \ {0} /\ warmup \in Nat
    BY SamplingAssumption DEF Init
  <2>2. IsRegs(regs) /\ IsRegs(tempStackMem)
    BY DEF Init, IsRegs, LoaderRegs
  <2>3. IsRegs(program_intregs)
    BY ContextRest DEF Init, IsRegs
  <2>4. QED
    BY <1>5, <2>1, <2>2, <2>3 DEF Init, CoreTypes
<1>7. PipeTypes /\ RobInv /\ FetchInv /\ ModeInv
  BY <1>1, <1>2, <1>3 DEF Init, PipeTypes, RobInv, FetchInv, ModeInv, Exceptions
<1>8. SampleData
  BY <1>3, <1>5 DEF SampleData
<1>9. SliceData
  BY <1>1, <1>3, <1>5 DEF Init, SliceData, InitData, ProgData, CallData, BackData, ExitData
<1>10. QED
  BY <1>3, <1>4, <1>6, <1>7, <1>8, <1>9 DEF DataInv, PipeInv

(* The registers, the memory and the pipeline are always in order. *)
THEOREM DataAlways == Spec => []DataInv
<1>1. Init => DataInv
  BY DataInit
<1>2. DataInv /\ [Next]_vars => DataInv'
  BY DataStep
<1>3. QED
  BY <1>1, <1>2, PTL DEF Spec

(* Types: the reorder buffer never overflows and holds only positions of   *)
(* the code, and every register and counter has its type.                  *)
THEOREM TypeCorrect == Spec => []TypeOK
<1>1. DataInv => TypeOK
  <2> SUFFICES ASSUME DataInv PROVE TypeOK
    OBVIOUS
  <2>1. rob \in Seq(Entry) /\ DOMAIN rob = 1..Len(rob)
    BY LenProperties DEF DataInv, PipeInv, PipeTypes
  <2>2. \A i \in DOMAIN rob : rob[i].pc[2] \in DOMAIN Code[rob[i].pc[1]]
    BY <2>1, EmptyLen DEF Entry, At
  <2>3. QED
    BY <2>2 DEF TypeOK, DataInv, CoreTypes, UcsrType, PipeInv, PipeTypes, Exceptions
<1>2. QED
  BY <1>1, DataAlways, PTL

(* Every instruction of the slice commits with the registers that the      *)
(* slice computed, wherever and whenever the core diverted it.             *)
THEOREM SampleIsTransparent == Spec => []SampleTransparent
<1>1. DataInv => SampleTransparent
  <2> SUFFICES ASSUME DataInv, NEW k \in 1..(ProgLen + 1), atHead(<<"prog", k>>)
               PROVE  regs = Context(k)
    BY DEF SampleTransparent
  <2>1. Len(rob) > 0 /\ rob[1].pc = <<"prog", k>>
    BY EmptyLen DEF atHead, DataInv, PipeInv, PipeTypes
  <2>2. head = <<"prog", k>>
    BY <2>1 DEF head
  <2>3. QED
    BY <2>2 DEF DataInv, SliceData, ProgData, vpc, vregs, inSample
<1>2. QED
  BY <1>1, DataAlways, PTL

-----------------------------------------------------------------------------
(* The instructions that may still commit although overflow_event holds:   *)
(* those in the pipeline that decode let pass, and the one after the       *)
(* kernel, where the core does not see overflow_event.                     *)
passing(e) == IF e.exception = "Cause_OverFlow" THEN 0 ELSE 1

robPot == IF Len(rob) = 0 THEN 0 ELSE (Len(rob) - 1) + passing(rob[Len(rob)])

disPot == IF Len(dis) = 0 THEN 0 ELSE passing(dis[1])

flushPot == IF flush.kind = "interrupt" THEN 1 ELSE 0

modePot == IF user < 3 /\ Len(rob) = 0 /\ Len(dis) = 0 /\ flush.kind = "none" THEN 1 ELSE 0

pot == robPot + disPot + flushPot + modePot

(* An interrupt is in the pipeline, or the kernel is serving it. *)
kernelDue ==
  \/ \E n \in 1..Len(rob) : rob[n].exception = "interrupt"
  \/ \E n \in 1..Len(dis) : dis[n].exception = "interrupt"
  \/ flush.kind = "interrupt"
  \/ user = 0 /\ status = "run"

(* What each move does to these. *)
KernelStep == intr' \in Nat /\ intr' >= intr /\ (kernelDue' => kernelDue \/ intr' > intr)

QuietCount ==
  /\ KernelStep
  /\ overflow_event \/ user < 3 => pot' <= pot
  /\ user = 0 /\ user' = 1 => kernelDue /\ ~kernelDue'

FireCount == KernelStep /\ pot' = pot /\ pot >= 1 /\ pot <= 2

CommitCount ==
  /\ KernelStep
  /\ pot' + 1 <= pot /\ pot' <= RobSize
  /\ Inst(head) \in URets => pot' = 0

(* The pipeline bounds them. *)
LEMMA PotBounds ==
  ASSUME PipeInv
  PROVE  /\ robPot \in Nat /\ robPot <= Len(rob) /\ disPot \in 0..1
         /\ flushPot \in 0..1 /\ modePot \in 0..1
         /\ pot \in Nat /\ pot <= RobSize + 1
<1>1. Len(rob) \in Nat /\ Len(dis) \in Nat /\ Len(rob) <= RobSize
  BY EmptyLen DEF PipeInv, PipeTypes
<1>2. RobSize \in Nat /\ RobSize >= 1
  BY SamplingAssumption
<1>3. robPot \in Nat /\ robPot <= Len(rob)
  BY <1>1 DEF robPot, passing
<1>4. disPot \in 0..1 /\ flushPot \in 0..1 /\ modePot \in 0..1
  BY DEF disPot, passing, flushPot, modePot
<1>5. flushPot = 1 => Len(rob) = 0 /\ Len(dis) = 0
  BY DEF flushPot, PipeInv, ModeInv
<1>6. /\ modePot = 1 => Len(rob) = 0 /\ Len(dis) = 0 /\ flushPot = 0
      /\ Len(rob) = 0 => robPot = 0
      /\ Len(dis) = 0 => disPot = 0
  BY DEF modePot, robPot, disPot, flushPot
<1> DEFINE l == Len(rob)
<1>7. l \in Nat /\ l <= RobSize /\ robPot <= l /\ (l = 0 => robPot = 0)
      /\ (flushPot = 1 => l = 0 /\ disPot = 0)
      /\ (modePot = 1 => l = 0 /\ disPot = 0 /\ flushPot = 0)
  BY <1>1, <1>3, <1>5, <1>6
<1> HIDE DEF l
<1>8. pot \in Nat /\ pot <= RobSize + 1
  BY <1>2, <1>3, <1>4, <1>7 DEF pot
<1>9. QED
  BY <1>3, <1>4, <1>8

(* Decode under overflow_event lets nothing pass. *)
LEMMA DecodeCount ==
  ASSUME PipeInv, PipeInv', NEW interrupt \in BOOLEAN, Decode(interrupt)
  PROVE  QuietCount
<1>1. /\ user > 0 /\ flush.kind = "none" /\ Len(dis) = 0 /\ rob' = rob /\ flush' = flush
      /\ intr' = (IF interrupt /\ ~overflow_event THEN intr + 1 ELSE intr)
      /\ dis' = <<[pc |-> fpc, done |-> FALSE,
                   exception |-> CASE overflow_event -> "Cause_OverFlow"
                                   [] ~overflow_event /\ interrupt -> "interrupt"
                                   [] OTHER -> "none"]>>
      /\ user' = (IF user \in 1..2 THEN user + 1 ELSE user)
  BY EmptyLen DEF PipeInv, PipeTypes, Decode, running, Clock, Cycle
<1>2. intr \in Nat /\ user \in 0..3 /\ (user <= 2 => Len(rob) = 0)
  BY DEF PipeInv, PipeTypes, ModeInv
<1>3. /\ Len(dis') = 1
      /\ dis'[1].exception = "Cause_OverFlow" <=> overflow_event
      /\ dis'[1].exception = "interrupt" <=> ~overflow_event /\ interrupt
  BY <1>1
<1>4. /\ robPot' = robPot /\ disPot = 0 /\ flushPot = 0 /\ flushPot' = 0 /\ modePot' = 0
      /\ disPot' = (IF overflow_event THEN 0 ELSE 1)
  BY <1>1, <1>3 DEF robPot, disPot, flushPot, modePot, passing
<1>5. robPot \in Nat /\ modePot \in 0..1
  BY PotBounds
<1>6. user < 3 => modePot = 1
  BY <1>1, <1>2 DEF modePot
<1>7. overflow_event \/ user < 3 => pot' <= pot
  BY <1>4, <1>5, <1>6 DEF pot
<1>8. kernelDue' => kernelDue \/ intr' > intr
  <2>1. \A n \in 1..Len(dis') : n = 1
    BY <1>3
  <2>2. user' # 0
    BY <1>1, <1>2
  <2>3. QED
    BY <1>1, <1>2, <1>3, <2>1, <2>2 DEF kernelDue
<1>9. QED
  BY <1>1, <1>2, <1>7, <1>8 DEF QuietCount, KernelStep

(* Dispatch moves an instruction on. *)
LEMMA DispatchCount ==
  ASSUME PipeInv, PipeInv', Dispatch
  PROVE  QuietCount
<1>1. rob \in Seq(Entry) /\ dis \in Seq(Entry) /\ Len(rob) \in Nat /\ intr \in Nat
      /\ user \in 0..3 /\ DOMAIN rob = 1..Len(rob)
  BY EmptyLen, LenProperties DEF PipeInv, PipeTypes
<1>2. Len(dis) = 1
  <2> DEFINE l == Len(dis)
  <2>1. l \in Nat /\ l <= 1 /\ l # 0
    BY <1>1, EmptyLen DEF Dispatch, PipeInv, PipeTypes
  <2> HIDE DEF l
  <2>2. l = 1
    BY <2>1
  <2>3. QED
    BY <2>2 DEF l
<1>3. /\ user > 0 /\ flush.kind = "none" /\ flush' = flush /\ intr' = intr
      /\ \A i \in 1..Len(rob) : rob[i].exception = "none"
      /\ rob' = rob \o dis /\ Len(dis') = 0 /\ status' = status
      /\ user' = (IF user \in 1..2 THEN user + 1 ELSE user)
  BY <1>1 DEF Dispatch, running, Clock, Cycle, data
<1>4. /\ Len(rob') = Len(rob) + 1 /\ rob'[Len(rob) + 1] = dis[1]
      /\ \A n \in 1..Len(rob) : rob'[n] = rob[n]
  BY <1>1, <1>2, <1>3, Dispatched
<1>5. robPot = Len(rob)
  <2> DEFINE l == Len(rob)
  <2>1. l \in Nat /\ robPot = IF l = 0 THEN 0 ELSE (l - 1) + passing(rob[l])
    BY <1>1 DEF robPot
  <2>2. \A i \in 1..l : passing(rob[i]) = 1
    BY <1>3 DEF passing
  <2> HIDE DEF l
  <2>3. robPot = l
    BY <2>1, <2>2
  <2>4. QED
    BY <2>3 DEF l
<1>6. robPot' = Len(rob) + passing(dis[1])
  <2> DEFINE l == Len(rob)
  <2>1. robPot' = IF Len(rob') = 0 THEN 0 ELSE (Len(rob') - 1) + passing(rob'[Len(rob')])
    BY DEF robPot, passing
  <2>2. l \in Nat /\ Len(rob') = l + 1 /\ rob'[l + 1] = dis[1]
    BY <1>1, <1>4
  <2> HIDE DEF l
  <2>3. robPot' = l + passing(dis[1])
    BY <2>1, <2>2 DEF passing
  <2>4. QED
    BY <2>3 DEF l
<1>7. /\ disPot = passing(dis[1]) /\ disPot' = 0 /\ flushPot = 0 /\ flushPot' = 0
      /\ modePot = 0 /\ modePot' = 0 /\ passing(dis[1]) \in 0..1
  BY <1>1, <1>2, <1>3, <1>4 DEF disPot, flushPot, modePot, passing
<1>8. pot' <= pot
  <2> DEFINE l == Len(rob)
             p == passing(dis[1])
  <2>1. l \in Nat /\ p \in 0..1 /\ robPot = l /\ robPot' = l + p /\ disPot = p
    BY <1>1, <1>5, <1>6, <1>7
  <2> HIDE DEF l, p
  <2>2. QED
    BY <1>7, <2>1 DEF pot
<1>9. kernelDue' => kernelDue
  <2>1. ASSUME NEW n \in 1..Len(rob'), rob'[n].exception = "interrupt"
        PROVE  dis[1].exception = "interrupt"
    <3>1. n \in 1..Len(rob) \/ n = Len(rob) + 1
      BY <1>1, <1>4
    <3>2. QED
      BY <1>3, <1>4, <2>1, <3>1
  <2>2. user' # 0
    BY <1>1, <1>3
  <2>3. QED
    BY <1>2, <1>3, <2>1, <2>2 DEF kernelDue
<1>10. QED
  BY <1>1, <1>3, <1>8, <1>9 DEF QuietCount, KernelStep

(* Execution changes none of them. *)
LEMMA ExecuteCount ==
  ASSUME PipeInv, PipeInv', NEW i \in 1..RobSize, Execute(i)
  PROVE  (Quiet => QuietCount) /\ (Fire => FireCount)
<1>1. rob \in Seq(Entry) /\ Len(rob) \in Nat /\ intr \in Nat
      /\ user \in 0..3 /\ DOMAIN rob = 1..Len(rob) /\ dis \in Seq(Entry)
  BY EmptyLen, LenProperties DEF PipeInv, PipeTypes
<1>2. /\ user > 0 /\ flush.kind = "none" /\ i \in 1..Len(rob) /\ rob[i].exception = "none"
      /\ rob' = [rob EXCEPT ![i].done = TRUE]
      /\ dis' = dis /\ flush' = flush /\ intr' = intr /\ status' = status
      /\ user' = (IF user \in 1..2 THEN user + 1 ELSE user)
  BY <1>1 DEF Execute, running, Clock, Cycle, data
<1>3. user = 3 /\ user' = 3 /\ Len(rob) > 0
  BY <1>1, <1>2 DEF PipeInv, ModeInv
<1>4. Len(rob') = Len(rob) /\ \A n \in 1..Len(rob) : rob'[n].exception = rob[n].exception
  <2>1. rob[i] \in Entry
    BY <1>1, <1>2
  <2> DEFINE e == [rob[i] EXCEPT !.done = TRUE]
  <2>2. e \in Entry /\ e.exception = rob[i].exception
    BY <2>1 DEF Entry
  <2>3. rob' = [rob EXCEPT ![i] = e]
    BY <1>1, <1>2
  <2> HIDE DEF e
  <2>4. /\ Len([rob EXCEPT ![i] = e]) = Len(rob)
        /\ \A n \in 1..Len(rob) : [rob EXCEPT ![i] = e][n] = IF n = i THEN e ELSE rob[n]
    BY <1>1, <1>2, <2>2, ExceptSeq
  <2>5. QED
    BY <2>2, <2>3, <2>4
<1>5. robPot' = robPot
  <2>1. Len(rob) \in 1..Len(rob)
    BY <1>1, <1>3
  <2>2. QED
    BY <1>4, <2>1 DEF robPot, passing
<1>6. disPot' = disPot /\ flushPot' = flushPot /\ modePot' = 0 /\ modePot = 0 /\ flushPot = 0
  BY <1>2, <1>3 DEF disPot, flushPot, modePot, passing
<1>7. pot' = pot /\ pot \in Nat
  BY <1>5, <1>6, PotBounds DEF pot
<1>8. kernelDue' => kernelDue
  BY <1>2, <1>3, <1>4 DEF kernelDue
<1>9. KernelStep
  BY <1>1, <1>2, <1>8 DEF KernelStep
<1>10. Quiet => QuietCount
  BY <1>3, <1>7, <1>9 DEF QuietCount
<1>11. ASSUME Fire PROVE pot >= 1 /\ pot <= 2
  <2>1. is_unique(rob[1].pc)
    BY <1>3, <1>11 DEF Fire, head
  <2>2. Len(rob) = 1 /\ i = 1
    BY <1>1, <1>2, <1>3, <2>1 DEF PipeInv, RobInv
  <2>3. robPot = 1
    BY <1>2, <2>2 DEF robPot, passing
  <2>4. QED
    BY <1>6, <2>3, PotBounds DEF pot
<1>12. QED
  BY <1>7, <1>9, <1>10, <1>11 DEF FireCount

(* A commit is one of them. *)
LEMMA CommitCounts ==
  ASSUME PipeInv, PipeInv', Commit
  PROVE  CommitCount
<1>1. rob \in Seq(Entry) /\ Len(rob) \in Nat /\ intr \in Nat /\ user \in 0..3
      /\ Len(rob) <= RobSize /\ RobSize \in Nat
  BY EmptyLen, SamplingAssumption DEF PipeInv, PipeTypes
<1>2. Len(rob) > 0
  BY <1>1, EmptyLen DEF Commit
<1>3. /\ user > 0 /\ flush.kind = "none" /\ rob[1].exception = "none" /\ intr' = intr
      /\ user' = (IF user \in 1..2 THEN user + 1 ELSE user)
  BY DEF Commit, running, Clock, Cycle
<1>4. user = 3 /\ user' = 3
  BY <1>1, <1>2, <1>3 DEF PipeInv, ModeInv
<1>5. flushPot = 0 /\ modePot = 0 /\ modePot' = 0
  BY <1>3, <1>4 DEF flushPot, modePot
<1>0. head = rob[1].pc
  BY <1>2 DEF head
<1>6. CASE Inst(rob[1].pc) \in URets
  <2>1. Len(rob') = 0 /\ Len(dis') = 0 /\ flush'.kind # "interrupt"
    BY <1>6 DEF Commit, URets
  <2>2. pot' = 0
    BY <1>5, <2>1 DEF pot, robPot, disPot, flushPot
  <2>3. robPot >= 1
    <3> DEFINE l == Len(rob)
    <3>1. l \in Nat /\ l > 0 /\ robPot = (l - 1) + passing(rob[l]) /\ passing(rob[l]) \in 0..1
      BY <1>1, <1>2 DEF robPot, passing
    <3>2. passing(rob[1]) = 1
      BY <1>3 DEF passing
    <3> HIDE DEF l
    <3>3. QED
      BY <3>1, <3>2
  <2>4. pot' + 1 <= pot /\ pot' <= RobSize
    BY <1>1, <1>5, <2>2, <2>3, PotBounds DEF pot
  <2>5. ~kernelDue'
    BY <1>4, <2>1 DEF kernelDue
  <2>6. QED
    BY <1>1, <1>3, <2>2, <2>4, <2>5 DEF CommitCount, KernelStep
<1>7. CASE Inst(rob[1].pc) \notin URets
  <2>1. rob' = Tail(rob) /\ flush' = flush /\ dis' = dis
    BY <1>7 DEF Commit
  <2> DEFINE l == Len(rob)
  <2>2. /\ Len(rob') = l - 1 /\ l \in Nat /\ l > 0 /\ l <= RobSize
        /\ \A n \in 1..(l - 1) : rob'[n] = rob[n + 1]
    BY <1>1, <1>2, <2>1, Committed
  <2>3. robPot' + 1 <= robPot /\ robPot' <= l - 1 /\ robPot' \in Nat
    <3>1. /\ robPot = (l - 1) + passing(rob[l]) /\ passing(rob[l]) \in 0..1
          /\ robPot' = (IF l - 1 = 0 THEN 0 ELSE ((l - 1) - 1) + passing(rob'[l - 1]))
          /\ passing(rob[1]) = 1
      BY <1>2, <1>3, <2>2 DEF robPot, passing
    <3> HIDE DEF l
    <3>2. CASE l = 1
      BY <3>1, <3>2
    <3>3. CASE l # 1
      <4>1. l - 1 \in 1..(l - 1) /\ (l - 1) + 1 = l /\ ~(l - 1 = 0)
        BY <2>2, <3>3
      <4>2. rob'[l - 1] = rob[l]
        BY <2>2, <4>1
      <4>3. QED
        BY <2>2, <3>1, <4>1, <4>2
    <3>4. QED
      BY <3>2, <3>3
  <2>4. disPot' = disPot /\ disPot \in 0..1 /\ flushPot' = 0
    BY <1>3, <2>1, PotBounds DEF disPot, flushPot, passing
  <2>5. pot' + 1 <= pot /\ pot' <= RobSize
    <3> HIDE DEF l
    <3> DEFINE a == robPot
               b == robPot'
               d == disPot
    <3>1. pot' = b + d + 0 + 0 /\ pot = a + d + 0 + 0
      BY <1>5, <2>4 DEF pot
    <3>2. /\ a \in Nat /\ b \in Nat /\ d \in 0..1 /\ b + 1 <= a /\ b <= l - 1
          /\ l \in Nat /\ l <= RobSize /\ RobSize \in Nat
      BY <1>1, <2>2, <2>3, <2>4, PotBounds
    <3> HIDE DEF a, b, d
    <3>3. QED
      BY <3>1, <3>2
  <2>6. kernelDue' => kernelDue
    <3>1. ASSUME NEW n \in 1..Len(rob'), rob'[n].exception = "interrupt"
          PROVE  \E m \in 1..Len(rob) : rob[m].exception = "interrupt"
      <4>1. n + 1 \in 1..Len(rob) /\ rob'[n] = rob[n + 1]
        BY <2>2
      <4>2. QED
        BY <3>1, <4>1
    <3>2. QED
      BY <1>4, <2>1, <3>1 DEF kernelDue
  <2>7. QED
    BY <1>0, <1>1, <1>3, <1>7, <2>5, <2>6 DEF CommitCount, KernelStep
<1>8. QED
  BY <1>6, <1>7

(* An exception, a cycle without a move, a return and a trap add none. *)
LEMMA OtherCount ==
  ASSUME PipeInv, PipeInv', Throw \/ Stall \/ Return \/ Trap
  PROVE  QuietCount
<1>1. rob \in Seq(Entry) /\ Len(rob) \in Nat /\ intr \in Nat /\ user \in 0..3
  BY EmptyLen DEF PipeInv, PipeTypes
<1>2. CASE Throw
  <2>1. Len(rob) > 0
    BY <1>1, <1>2, EmptyLen DEF Throw
  <2>2. /\ user > 0 /\ flush.kind = "none" /\ intr' = intr
        /\ flush'.kind = rob[1].exception /\ Len(rob') = 0 /\ Len(dis') = 0
        /\ rob[1].exception # "none"
        /\ user' = (IF user \in 1..2 THEN user + 1 ELSE user)
    BY <1>2 DEF Throw, running, Clock, Cycle
  <2>3. user = 3 /\ user' = 3
    BY <1>1, <2>1, <2>2 DEF PipeInv, ModeInv
  <2>4. Len(rob) = 1 /\ rob[1] \in Entry
    <3>1. 1 \in 1..Len(rob) /\ rob[1] \in Entry
      BY <1>1, <2>1, EmptyLen
    <3> DEFINE l == Len(rob)
    <3>2. ~(1 < l) /\ l \in Nat /\ l > 0
      BY <1>1, <2>1, <2>2, <3>1 DEF PipeInv, RobInv
    <3> HIDE DEF l
    <3>3. l = 1
      BY <3>2
    <3>4. QED
      BY <3>1, <3>3 DEF l
  <2>5. robPot = passing(rob[1])
    BY <2>4 DEF robPot, passing
  <2>6. robPot' = 0 /\ disPot' = 0 /\ modePot' = 0 /\ flushPot' = passing(rob[1])
        /\ passing(rob[1]) \in 0..1
    BY <2>2, <2>3, <2>4 DEF robPot, disPot, modePot, flushPot, passing, Entry, Exceptions
  <2>7. pot' <= pot
    BY <2>5, <2>6, PotBounds DEF pot
  <2>8. kernelDue' => kernelDue
    BY <2>2, <2>3, <2>4 DEF kernelDue
  <2>9. QED
    BY <1>1, <2>2, <2>3, <2>7, <2>8 DEF QuietCount, KernelStep
<1>3. CASE Stall
  <2>1. /\ flush.kind = "none" /\ intr' = intr /\ rob' = rob /\ dis' = dis /\ flush' = flush
        /\ status' = status /\ user' = (IF user \in 1..2 THEN user + 1 ELSE user)
    BY <1>3 DEF Stall, Clock, Cycle, pipeline, data
  <2>2. robPot' = robPot /\ disPot' = disPot /\ flushPot' = flushPot
    BY <2>1 DEF robPot, disPot, flushPot, passing
  <2>3. modePot' <= modePot
    BY <1>1, <2>1 DEF modePot
  <2>4. modePot \in 0..1 /\ modePot' \in 0..1 /\ robPot \in Nat /\ disPot \in 0..1
        /\ flushPot \in 0..1
    BY PotBounds DEF modePot
  <2>5. pot' <= pot
    <3> DEFINE a == robPot
               b == disPot
               c == flushPot
               m == modePot
               n == modePot'
    <3>1. pot' = a + b + c + n /\ pot = a + b + c + m
      BY <2>2 DEF pot
    <3>2. a \in Nat /\ b \in Nat /\ c \in Nat /\ m \in Nat /\ n \in Nat /\ n <= m
      BY <2>3, <2>4
    <3> HIDE DEF a, b, c, m, n
    <3>3. QED
      BY <3>1, <3>2
  <2>6. (kernelDue' => kernelDue) /\ ~(user = 0 /\ user' = 1)
    BY <1>1, <2>1 DEF kernelDue
  <2>7. QED
    BY <1>1, <2>1, <2>5, <2>6 DEF QuietCount, KernelStep
<1>4. CASE Return
  <2>1. /\ flush.kind \in URets /\ flush'.kind = "none" /\ intr' = intr /\ rob' = rob
        /\ dis' = dis /\ user' = (IF user \in 1..2 THEN user + 1 ELSE user)
        /\ flush.kind # "none" /\ flush.kind # "interrupt"
    BY <1>4 DEF Return, noFlush, Clock, Cycle, URets
  <2>2. Len(rob) = 0 /\ Len(dis) = 0 /\ user = 3 /\ user' = 3
    BY <2>1 DEF PipeInv, ModeInv
  <2>3. pot' = 0 /\ pot = 0
    BY <2>1, <2>2 DEF pot, robPot, disPot, flushPot, modePot
  <2>4. ~kernelDue'
    BY <2>1, <2>2 DEF kernelDue
  <2>5. QED
    BY <1>1, <2>1, <2>2, <2>3, <2>4 DEF QuietCount, KernelStep
<1>5. CASE Trap
  <2>1. /\ flush.kind \in {"interrupt", "Cause_OverFlow"} /\ flush'.kind = "none"
        /\ ~(flush.kind = "Cause_OverFlow" /\ overflow_event)
        /\ intr' = intr /\ rob' = rob /\ dis' = dis /\ user' = 0
        /\ status' = (IF flush.kind = "interrupt" THEN status ELSE "killed")
    BY <1>5 DEF Trap, noFlush, Cycle, isOverFlowExcpt
  <2>2. Len(rob) = 0 /\ Len(dis) = 0 /\ user = 3
    BY <2>1 DEF PipeInv, ModeInv
  <2>3. overflow_event => pot' <= pot
    BY <2>1, <2>2 DEF pot, robPot, disPot, flushPot, modePot
  <2>4. kernelDue' => kernelDue
    BY <2>1, <2>2 DEF kernelDue
  <2>5. QED
    BY <1>1, <2>1, <2>2, <2>3, <2>4 DEF QuietCount, KernelStep
<1>6. QED
  BY <1>2, <1>3, <1>4, <1>5

(* The kernel has served the interrupt when it returns. *)
LEMMA EretCount ==
  ASSUME PipeInv, PipeInv', NEW c \in 0..1, Eret(c)
  PROVE  QuietCount
<1>1. /\ status = "run" /\ user = 0 /\ user' = 1 /\ intr \in Nat /\ intr' = intr
      /\ rob' = rob /\ dis' = dis /\ flush' = flush
  BY DEF Eret, pipeline, PipeInv, PipeTypes
<1>2. flush.kind = "none" /\ Len(rob) = 0 /\ Len(dis) = 0
  BY <1>1 DEF PipeInv, ModeInv
<1>3. pot' = pot /\ pot \in Nat
  BY <1>1, <1>2, PotBounds DEF pot, robPot, disPot, flushPot, modePot
<1>4. kernelDue /\ ~kernelDue'
  BY <1>1, <1>2 DEF kernelDue
<1>5. QED
  BY <1>1, <1>3, <1>4 DEF QuietCount, KernelStep

(* Going to sample_func ends no interrupt. *)
LEMMA DivertCount ==
  ASSUME PipeInv, PipeInv', Divert
  PROVE  KernelStep
<1>1. /\ flush.kind = "Cause_OverFlow" /\ flush'.kind = "none" /\ intr' = intr /\ intr \in Nat
      /\ rob' = rob /\ dis' = dis /\ user' = (IF user \in 1..2 THEN user + 1 ELSE user)
  BY DEF Divert, isOverFlowExcpt, noFlush, Clock, Cycle, PipeInv, PipeTypes
<1>2. Len(rob) = 0 /\ Len(dis) = 0 /\ user = 3
  BY <1>1 DEF PipeInv, ModeInv
<1>3. ~kernelDue'
  BY <1>1, <1>2 DEF kernelDue
<1>4. QED
  BY <1>1, <1>3 DEF KernelStep

(* The four moves with what they do to the pipeline. *)
CountMove ==
  \/ Quiet /\ QuietCount
  \/ Fire /\ FireCount
  \/ CommitHead /\ CommitCount
  \/ DivertHead /\ KernelStep

(* Every step is one of them. *)
LEMMA CountStep ==
  ASSUME DataInv, Next
  PROVE  DataInv' /\ CountMove /\ UNCHANGED <<runLength, warmup>>
<1>1. DataInv'
  BY DataStep
<1>2. PipeInv /\ PipeInv' /\ UcsrType(ucsr) /\ ucsr.exitFuncAddr \in {NoPc, SampleFunc}
  BY <1>1 DEF DataInv, CoreTypes, SampleData
<1>3. status = "exit" => flush.kind = "none"
  BY <1>2 DEF PipeInv, ModeInv
<1>4. status # "exit"
  BY <1>3 DEF Next, Decode, Dispatch, Execute, Commit, Throw, Stall, Return, Divert,
              Trap, Eret, running, isOverFlowExcpt, URets
<1>5. UNCHANGED <<runLength, warmup>>
  BY DEF Next, Decode, Dispatch, Execute, Commit, Throw, Stall, Return, Divert, Trap, Eret
<1>6. CASE \E interrupt \in BOOLEAN : Decode(interrupt)
  BY <1>1, <1>2, <1>5, <1>6, DecodeStep, DecodeCount DEF CountMove
<1>7. CASE Dispatch
  BY <1>1, <1>2, <1>5, <1>7, DispatchStep, DispatchCount DEF CountMove
<1>8. CASE \E i \in 1..RobSize : Execute(i)
  BY <1>1, <1>2, <1>5, <1>8, ExecuteStep, ExecuteCount DEF CountMove
<1>9. CASE Commit
  BY <1>1, <1>2, <1>4, <1>5, <1>9, Target, CommitStep, CommitCounts DEF CountMove
<1>10. CASE Throw \/ Stall \/ Return \/ Trap
  BY <1>1, <1>2, <1>5, <1>10, ThrowStep, StallStep, ReturnStep, TrapStep, OtherCount
  DEF CountMove
<1>11. CASE Divert
  BY <1>1, <1>2, <1>5, <1>11, DivertStep, DivertCount DEF CountMove
<1>12. CASE \E c \in 0..1 : Eret(c)
  BY <1>1, <1>2, <1>5, <1>12, EretStep, EretCount DEF CountMove
<1>13. QED
  BY <1>6, <1>7, <1>8, <1>9, <1>10, <1>11, <1>12 DEF Next

-----------------------------------------------------------------------------
(* The counters.  procTag follows from the position: f says whether the    *)
(* instruction there has executed.                                         *)
Tagged(p, f) ==
  \/ p[1] = "prog"
  \/ p[1] = "init" /\ (p[2] > 3 \/ (p[2] = 3 /\ f))
  \/ p[1] = "takeover" /\ (p[2] <= LoaderOps + 1 \/ (p[2] = LoaderOps + 2 /\ ~f)
                           \/ (p[2] = LoaderOps + 5 /\ f) \/ p[2] > LoaderOps + 5)
  \/ p[1] = "sample" /\ (p[2] > 8 \/ (p[2] = 8 /\ f))

TagInv ==
  /\ ucsr.procTag <=> Tagged(head, fired)
  /\ inSample => /\ Tagged(ucsr.userExitPC, FALSE)
                 /\ ucsr.userExitPC[1] = "init" => ucsr.userExitPC[2] > 6

(* init_start has not yet set the warm-up. *)
Early == head[1] = "init" /\ (head[2] <= 5 \/ (head[2] = 6 /\ ~fired))

EarlyInv ==
  /\ Early =>
       /\ samples = 0 /\ window <= 1 /\ (head[2] <= 5 => window = 0)
       /\ ucsr.warmupInstNum = 0 /\ ucsr.nowWarmupInsts = 0
       /\ head[2] > 2 \/ (head[2] = 2 /\ fired) => ucsr.pfc_enable
       /\ ucsr.maxEventNum = 0 <=> head[2] < 5 \/ (head[2] = 5 /\ ~fired)
  /\ ucsr.maxEventNum # 0 => ucsr.pfc_enable

(* The sample is set up once and taken once. *)
OnceInv ==
  /\ ucsr.maxEventNum \in {0, runLength}
  /\ ucsr.maxEventNum # 0 => samples = 0
  /\ ~Early /\ ucsr.maxEventNum = 0 =>
       ucsr.warmupInstNum = 0 /\ (~inSample => samples = 1)
  /\ inSample => samples = IF head[2] <= 5 THEN 0 ELSE 1

(* The commits of the last cycle, as far as they will be counted. *)
pend == IF user = 3 /\ ucsr.procTag THEN committed ELSE 0

(* The core counts the events of the window, one cycle late. *)
EventInv ==
  ucsr.maxEventNum # 0 /\ ucsr.warmupInstNum = 0 => window = ucsr.nowEventNum + pend

WarmInv ==
  ucsr.warmupInstNum # 0 => ucsr.warmupInstNum = warmup /\ ucsr.nowWarmupInsts <= warmup + 1

CountInv == TagInv /\ EarlyInv /\ OnceInv /\ EventInv /\ WarmInv

(* A commit leaves the tag as the position says. *)
LEMMA TagCommit ==
  ASSUME NEW p \in At, NEW f \in BOOLEAN, is_unique(p) => f, Inst(p) \notin URets
  PROVE  Tagged(<<p[1], p[2] + 1>>, FALSE) <=> Tagged(p, f)
<1>1. p[1] \in Regions /\ p[2] \in Nat /\ p[2] >= 1 /\ LoaderOps \in Nat
  BY AtShape, CodeDomain
<1>2. CASE p[1] = "init"
  <2>1. p[2] = 3 => f
    BY <1>1, <1>2, InstInit DEF is_unique, SetInsts
  <2>2. QED
    BY <1>1, <1>2, <2>1 DEF Tagged
<1>3. CASE p[1] = "prog"
  BY <1>3 DEF Tagged
<1>4. CASE p[1] = "takeover"
  <2>1. p[2] = LoaderOps + 2 => f
    BY <1>1, <1>4, InstTakeover DEF is_unique, SetInsts
  <2>2. p[2] = LoaderOps + 5 => f
    BY <1>1, <1>4, InstTakeover DEF is_unique, SetInsts
  <2>3. QED
    BY <1>1, <1>4, <2>1, <2>2 DEF Tagged
<1>5. CASE p[1] = "sample"
  <2>1. p[2] = 8 => f
    BY <1>1, <1>5, InstSample DEF is_unique, SetInsts
  <2>2. QED
    BY <1>1, <1>5, <2>1 DEF Tagged
<1>6. QED
  BY <1>1, <1>2, <1>3, <1>4, <1>5 DEF Regions

(* Execution changes the tag as the position says. *)
LEMMA TagFire ==
  ASSUME NEW p \in At
  PROVE  Tagged(p, TRUE) <=> Inst(p) = "SetProcTag"
                             \/ (Inst(p) # "ClearProcTag" /\ Tagged(p, FALSE))
<1>1. p[1] \in Regions /\ p[2] \in Nat /\ p[2] >= 1 /\ LoaderOps \in Nat
  BY AtShape, CodeDomain
<1>2. CASE p[1] = "init"
  BY <1>1, <1>2, InstInit DEF Tagged
<1>3. CASE p[1] = "prog"
  BY <1>3, InstProg DEF Tagged
<1>4. CASE p[1] = "takeover"
  BY <1>1, <1>4, InstTakeover DEF Tagged
<1>5. CASE p[1] = "sample"
  BY <1>1, <1>5, InstSample DEF Tagged
<1>6. QED
  BY <1>1, <1>2, <1>3, <1>4, <1>5 DEF Regions

(* Where a commit leads. *)
LEMMA CommitTo ==
  ASSUME DataInv, CommitHead
  PROVE  \/ Inst(head) \notin URets /\ head' = <<head[1], head[2] + 1>>
         \/ head[1] = "init" /\ head[2] = LoaderOps + 9 /\ Inst(head) = "URet2"
              /\ head' = <<"prog", 1>>
         \/ head[1] = "prog" /\ head[2] \in Ecalls \cup {ProgLen + 1} /\ Inst(head) = "URet3"
              /\ head' = <<"takeover", 1>>
         \/ head[1] = "takeover" /\ head[2] = LoaderOps + 8 /\ Inst(head) = "URet2"
              /\ CallPc(nowcallnum) \in Ecalls /\ head' = <<"prog", CallPc(nowcallnum) + 1>>
         \/ head[1] = "sample" /\ head[2] = 13 /\ Inst(head) = "URet0"
              /\ head' = ucsr.userExitPC /\ ucsr.userExitPC[1] # "sample"
<1>1. head \in At /\ head[1] \in Regions /\ head[2] \in Nat /\ LoaderOps \in Nat
  BY AtShape, CodeDomain DEF DataInv, PipeInv
<1>2. status = "run"
      /\ head' = (IF Inst(head) \in URets THEN temp(Inst(head)) ELSE Next1(head))
  BY DEF CommitHead
<1>3. CASE Inst(head) \notin URets
  BY <1>2, <1>3 DEF Next1
<1>4. CASE Inst(head) \in URets
  <2>1. CASE head[1] = "init"
    <3>1. head[2] = LoaderOps + 9 /\ Inst(head) = "URet2"
      BY <1>1, <1>4, <2>1, InstInit DEF URets
    <3>2. ucsr.temp[2] = <<"prog", 1>>
      BY <2>1 DEF DataInv, SliceData, InitData, vpc, inSample
    <3>3. QED
      BY <1>2, <1>4, <2>1, <3>1, <3>2 DEF temp
  <2>2. CASE head[1] = "prog"
    <3>1. head[2] \in Ecalls \cup {ProgLen + 1} /\ Inst(head) = "URet3"
      BY <1>1, <1>4, <2>2, InstProg DEF URets
    <3>2. ucsr.temp[3] = <<"takeover", 1>>
      BY DEF DataInv, SampleData, TakeOver
    <3>3. QED
      BY <1>2, <1>4, <2>2, <3>1, <3>2 DEF temp
  <2>3. CASE head[1] = "takeover"
    <3>1. head[2] = LoaderOps + 8 /\ Inst(head) = "URet2"
      BY <1>1, <1>4, <2>3, InstTakeover DEF URets
    <3>2. CallPc(nowcallnum) \in Ecalls /\ ucsr.temp[2] = <<"prog", CallPc(nowcallnum) + 1>>
      BY <1>1, <1>2, <2>3, <3>1 DEF DataInv, SliceData, BackData, vpc, inSample
    <3>3. QED
      BY <1>2, <1>4, <2>3, <3>1, <3>2 DEF temp
  <2>4. CASE head[1] = "sample"
    <3>1. head[2] = 13 /\ Inst(head) = "URet0"
      BY <1>1, <1>4, <2>4, InstSample DEF URets
    <3>2. ucsr.temp[0] = ucsr.userExitPC /\ ucsr.userExitPC[1] # "sample"
      BY <2>4, <3>1 DEF DataInv, SampleData, inSample
    <3>3. QED
      BY <1>2, <1>4, <2>4, <3>1, <3>2 DEF temp
  <2>5. QED
    BY <1>1, <2>1, <2>2, <2>3, <2>4 DEF Regions
<1>5. QED
  BY <1>3, <1>4

(* A commit neither enters the early part nor sample_func. *)
LEMMA CommitParts ==
  ASSUME DataInv, TagInv, CommitHead
  PROVE  /\ Early' <=> Early
         /\ Early => head[2] <= 5 /\ head' = <<"init", head[2] + 1>>
         /\ inSample' <=> inSample /\ head[2] # 13
         /\ inSample' => head' = <<"sample", head[2] + 1>>
         /\ inSample /\ head[2] = 13 => head' = ucsr.userExitPC
<1>1. head \in At /\ head[2] \in Nat /\ head[2] >= 1 /\ LoaderOps \in Nat
      /\ (head[1] = "sample" => head[2] <= 13)
  BY AtShape, CodeDomain DEF DataInv, PipeInv
<1>2. (is_unique(head) => fired) /\ ~fired'
  BY DEF CommitHead
<1>3. head[1] = "init" /\ head[2] <= 6 => fired /\ Inst(head) \notin URets
  BY <1>1, <1>2, InstInit DEF is_unique, SetInsts, URets
<1>4. inSample /\ head[2] # 13 => Inst(head) \notin URets
  BY <1>1, InstSample DEF inSample, URets
<1>5. inSample /\ head[2] = 13 => Inst(head) \in URets
  BY <1>1, InstSample DEF inSample, URets
<1>6. Early => head[2] <= 5 /\ head' = <<"init", head[2] + 1>>
  <2>1. ASSUME Early PROVE head[2] <= 5 /\ head[1] = "init"
    BY <1>1, <1>3, <2>1 DEF Early
  <2>2. ASSUME Early PROVE head' = <<"init", head[2] + 1>>
    BY <1>1, <1>3, <2>1, <2>2, CommitTo DEF URets
  <2>3. QED
    BY <2>1, <2>2
<1>7. inSample' <=> inSample /\ head[2] # 13
  <2>1. CASE inSample
    BY <1>4, <1>5, <2>1, CommitTo DEF inSample, URets
  <2>2. CASE ~inSample
    BY <2>2, CommitTo DEF inSample
  <2>3. QED
    BY <2>1, <2>2
<1>8. inSample' => head' = <<"sample", head[2] + 1>>
  BY <1>4, <1>7, CommitTo DEF inSample, URets
<1>9. inSample /\ head[2] = 13 => head' = ucsr.userExitPC
  BY <1>5, CommitTo DEF inSample, URets
<1>10. Early' => Early
  <2>1. ASSUME Early' PROVE head[1] = "init"
    <3>1. head'[1] = "init" /\ (head'[2] <= 5 \/ head'[2] = 6)
      BY <2>1 DEF Early
    <3>2. inSample => /\ ucsr.userExitPC[1] = "init" => ucsr.userExitPC[2] > 6
                      /\ ucsr.userExitPC[2] \in Nat
      BY AtShape DEF TagInv, DataInv, SampleData
    <3>3. QED
      BY <3>1, <3>2, CommitTo DEF inSample
  <2>2. ASSUME Early' PROVE head[2] <= 5
    <3>1. head'[1] = "init" /\ (head'[2] <= 5 \/ head'[2] = 6)
      BY <2>2 DEF Early
    <3>2. head' = <<head[1], head[2] + 1>>
      BY <2>1, <2>2, <3>1, CommitTo
    <3>3. QED
      BY <1>1, <3>1, <3>2
  <2>3. QED
    BY <2>1, <2>2 DEF Early
<1>11. Early => Early'
  BY <1>1, <1>2, <1>6 DEF Early
<1>12. QED
  BY <1>6, <1>7, <1>8, <1>9, <1>10, <1>11

(* No move changes the warm-up of the early part, and the tag follows the  *)
(* position.                                                               *)
LEMMA QuietTag ==
  ASSUME DataInv, CountInv, Quiet, UNCHANGED <<runLength, warmup>>
  PROVE  TagInv' /\ EarlyInv' /\ OnceInv'
<1>1. committed \in Nat /\ UcsrType(ucsr) /\ window \in Nat /\ user \in 0..3 /\ head[2] \in Nat
  BY Basics
<1>2. Kept(ucsr') /\ head' = head /\ (fired' <=> fired) /\ samples' = samples
  BY <1>1, Counted DEF Quiet
<1>3. /\ ucsr'.nowWarmupInsts = (IF warmupEnds THEN 0
           ELSE IF warmupValid THEN ucsr.nowWarmupInsts + committed
           ELSE ucsr.nowWarmupInsts)
      /\ ucsr'.warmupInstNum = (IF warmupEnds THEN 0 ELSE ucsr.warmupInstNum)
  BY <1>1, Counted DEF Quiet
<1>4. (Early' <=> Early) /\ (inSample' <=> inSample)
  BY <1>2 DEF Early, inSample
<1>5. TagInv'
  BY <1>2, <1>4 DEF CountInv, TagInv, Tagged, Kept
<1>6. ASSUME Early PROVE window' = window /\ ucsr'.warmupInstNum = 0 /\ ucsr'.nowWarmupInsts = 0
  <2>1. ~warmupEnds /\ ~warmupValid
    BY <1>6 DEF CountInv, EarlyInv, warmupEnds, warmupValid
  <2>2. QED
    BY <1>1, <1>3, <1>6, <2>1 DEF CountInv, EarlyInv, Quiet, Clock, Cycle
<1>7. EarlyInv'
  BY <1>2, <1>4, <1>6 DEF CountInv, EarlyInv, Kept
<1>8. OnceInv'
  BY <1>2, <1>3, <1>4 DEF CountInv, OnceInv, Kept
<1>9. QED
  BY <1>5, <1>7, <1>8

(* The same when a ucsr instruction executes. *)
LEMMA FireTag ==
  ASSUME DataInv, CountInv, Fire, UNCHANGED <<runLength, warmup>>
  PROVE  TagInv' /\ EarlyInv' /\ OnceInv'
<1>1. /\ committed \in Nat /\ UcsrType(ucsr) /\ window \in Nat /\ user \in 0..3
      /\ runLength \in Nat /\ runLength # 0 /\ warmup \in Nat
      /\ head \in At /\ head[1] \in Regions /\ head[2] \in Nat /\ head[2] >= 1
  BY Basics
<1>2. head' = head /\ fired' /\ ~fired /\ samples' = samples
  BY DEF Fire, data
<1>3. (inSample' <=> inSample) /\ ucsr'.userExitPC = ucsr.userExitPC
  BY <1>1, <1>2, Written DEF Fire, inSample
<1>4. ucsr'.procTag = (IF Inst(head) = "SetProcTag" THEN TRUE
                       ELSE IF Inst(head) = "ClearProcTag" THEN FALSE ELSE ucsr.procTag)
  BY <1>1, Written DEF Fire
<1>5. TagInv'
  <2>1. ucsr.procTag <=> Tagged(head, FALSE)
    BY <1>2 DEF CountInv, TagInv, Tagged
  <2>2. ucsr'.procTag <=> Tagged(head, TRUE)
    BY <1>1, <1>4, <2>1, TagFire
  <2>3. Tagged(head', fired') <=> Tagged(head, TRUE)
    BY <1>2 DEF Tagged
  <2>4. QED
    BY <1>2, <1>3, <2>2, <2>3 DEF CountInv, TagInv, Tagged
<1>6. /\ ucsr'.pfc_enable = (IF Inst(head) = "SetPfcEnable" THEN TRUE ELSE ucsr.pfc_enable)
      /\ ucsr'.maxEventNum = (IF Inst(head) = "SetMaxEventNum" THEN runLength
                              ELSE IF Inst(head) = "ClearMaxEventNum" THEN 0
                              ELSE ucsr.maxEventNum)
  BY <1>1, Written DEF Fire
<1>7. /\ ucsr'.warmupInstNum = (IF Inst(head) = "SetWarmupInst" THEN warmup
                                ELSE IF Inst(head) = "ClearWarmupInst" THEN 0
                                ELSE counted.warmupInstNum)
      /\ ucsr'.nowWarmupInsts = (IF Inst(head) \in {"SetWarmupInst", "ClearWarmupInst"} THEN 0
                                 ELSE counted.nowWarmupInsts)
  BY <1>1, Written DEF Fire
<1>8. ucsr.warmupInstNum = 0 => ~warmupEnds /\ ~warmupValid /\ counted.warmupInstNum = 0
                                /\ counted.nowWarmupInsts = ucsr.nowWarmupInsts
  BY <1>1, Counted DEF warmupEnds, warmupValid
<1>9. CASE Early
  <2>1. head[1] = "init" /\ head[2] <= 6 /\ ~inSample /\ LoaderOps \in Nat
    BY <1>1, <1>9, CodeDomain DEF Early, inSample
  <2>2. \/ head[2] = 1 /\ Inst(head) = "RstPFC"
        \/ head[2] = 2 /\ Inst(head) = "SetPfcEnable"
        \/ head[2] = 3 /\ Inst(head) = "SetProcTag"
        \/ head[2] = 4 /\ Inst(head) = "SetFuncAddr"
        \/ head[2] = 5 /\ Inst(head) = "SetMaxEventNum"
        \/ head[2] = 6 /\ Inst(head) = "SetWarmupInst"
    BY <1>1, <2>1, InstInit
  <2>3. /\ samples = 0 /\ window <= 1 /\ (head[2] <= 5 => window = 0)
        /\ ucsr.warmupInstNum = 0 /\ ucsr.nowWarmupInsts = 0
        /\ head[2] > 2 => ucsr.pfc_enable
        /\ ucsr.maxEventNum = 0 <=> head[2] < 5 \/ head[2] = 5
    BY <1>2, <1>9 DEF CountInv, EarlyInv
  <2>4. window' = window
    BY <1>1, <1>8, <2>3 DEF Fire, Clock, Cycle
  <2>5. Early' <=> head[2] <= 5
    BY <1>2, <2>1 DEF Early
  <2>6. EarlyInv'
    <3>1. ASSUME head[2] <= 5
          PROVE  /\ ucsr'.warmupInstNum = 0 /\ ucsr'.nowWarmupInsts = 0
                 /\ head[2] > 2 \/ head[2] = 2 => ucsr'.pfc_enable
                 /\ ucsr'.maxEventNum = 0 <=> head[2] < 5
      BY <1>1, <1>6, <1>7, <1>8, <2>2, <2>3, <3>1
    <3>2. ucsr'.maxEventNum # 0 => ucsr'.pfc_enable
      BY <1>1, <1>6, <2>2, <2>3
    <3>3. QED
      BY <1>1, <1>2, <2>3, <2>4, <2>5, <3>1, <3>2 DEF EarlyInv
  <2>7. OnceInv'
    <3>1. head[2] = 6 => ucsr'.maxEventNum # 0
      BY <1>1, <1>6, <2>2, <2>3
    <3>2. ucsr'.maxEventNum \in {0, runLength}
      BY <1>6 DEF CountInv, OnceInv
    <3>3. QED
      BY <1>1, <1>2, <1>3, <2>1, <2>2, <2>3, <2>5, <3>1, <3>2 DEF OnceInv
  <2>8. QED
    BY <1>5, <2>6, <2>7
<1>10. CASE ~Early
  <2>1. Inst(head) \notin {"SetMaxEventNum", "SetWarmupInst"}
    <3>1. CASE head[1] = "init"
      BY <1>1, <1>2, <1>10, <3>1, InstInit DEF Early
    <3>2. CASE head[1] = "prog"
      BY <1>1, <3>2, InstProg
    <3>3. CASE head[1] = "takeover"
      BY <1>1, <3>3, InstTakeover
    <3>4. CASE head[1] = "sample"
      BY <1>1, <3>4, InstSample
    <3>5. QED
      BY <1>1, <3>1, <3>2, <3>3, <3>4 DEF Regions
  <2>2. ~Early'
    BY <1>1, <1>2, <1>10 DEF Early
  <2>3. ucsr'.maxEventNum # 0 => ucsr'.maxEventNum = ucsr.maxEventNum
    BY <1>6, <2>1
  <2>4. EarlyInv'
    BY <1>6, <2>1, <2>2 DEF CountInv, EarlyInv
  <2>5. ucsr'.maxEventNum = 0 => ucsr.maxEventNum = 0
    <3>1. Inst(head) = "ClearMaxEventNum" => inSample
      <4>1. CASE head[1] = "init"
        BY <1>1, <4>1, InstInit
      <4>2. CASE head[1] = "prog"
        BY <1>1, <4>2, InstProg
      <4>3. CASE head[1] = "takeover"
        BY <1>1, <4>3, InstTakeover
      <4>4. QED
        BY <1>1, <4>1, <4>2, <4>3 DEF Regions, inSample
    <3>2. QED
      BY <1>6, <2>1, <3>1 DEF DataInv, SampleData
  <2>6. OnceInv'
    <3>1. ucsr'.maxEventNum = 0 => ucsr'.warmupInstNum = 0 /\ (~inSample => samples = 1)
      BY <1>7, <1>8, <1>10, <2>1, <2>5 DEF CountInv, OnceInv
    <3>2. ucsr'.maxEventNum \in {0, runLength} /\ (ucsr'.maxEventNum # 0 => samples = 0)
      BY <2>3 DEF CountInv, OnceInv
    <3>3. inSample => samples = IF head[2] <= 5 THEN 0 ELSE 1
      BY DEF CountInv, OnceInv
    <3>4. QED
      BY <1>2, <1>3, <3>1, <3>2, <3>3 DEF OnceInv
  <2>7. QED
    BY <1>5, <2>4, <2>6
<1>11. QED
  BY <1>9, <1>10

(* The same when an instruction commits. *)
LEMMA CommitTag ==
  ASSUME DataInv, CountInv, CommitHead, UNCHANGED <<runLength, warmup>>
  PROVE  TagInv' /\ EarlyInv' /\ OnceInv'
<1>1. /\ committed \in Nat /\ UcsrType(ucsr) /\ window \in Nat /\ LoaderOps \in Nat
      /\ head \in At /\ head[1] \in Regions /\ head[2] \in Nat /\ head[2] >= 1 /\ CoreTypes
      /\ samples \in Nat /\ TagInv
  BY Basics DEF CountInv
<1>2. (is_unique(head) => fired) /\ ~fired' /\ commitEffect(head)
  BY DEF CommitHead
<1>3. Kept(ucsr') /\ ucsr'.nowWarmupInsts = counted.nowWarmupInsts
      /\ ucsr'.warmupInstNum = counted.warmupInstNum
  BY <1>1, CommitUcsr
<1>4. /\ Early' <=> Early
      /\ Early => head[2] <= 5 /\ head' = <<"init", head[2] + 1>>
      /\ inSample' <=> inSample /\ head[2] # 13
      /\ inSample' => head' = <<"sample", head[2] + 1>>
      /\ inSample /\ head[2] = 13 => head' = ucsr.userExitPC
  BY <1>1, CommitParts
<1>5. Tagged(head', FALSE) <=> Tagged(head, fired)
  <2>1. CASE Inst(head) \notin URets
    <3>1. fired \in BOOLEAN
      BY DEF fired
    <3>2. QED
      BY <1>1, <1>2, <2>1, <3>1, TagCommit, CommitTo DEF URets
  <2>2. CASE Inst(head) \in URets
    <3>1. CASE head[1] = "init"
      BY <1>1, <2>2, <3>1, CommitTo DEF Tagged
    <3>2. CASE head[1] = "prog"
      BY <1>1, <2>2, <3>2, CommitTo DEF Tagged
    <3>3. CASE head[1] = "takeover"
      BY <1>1, <2>2, <3>3, CommitTo DEF Tagged
    <3>4. CASE head[1] = "sample"
      <4>1. head[2] = 13 /\ head' = ucsr.userExitPC
        BY <2>2, <3>4, CommitTo
      <4>2. Tagged(ucsr.userExitPC, FALSE)
        BY <1>1, <3>4 DEF TagInv, inSample
      <4>3. Tagged(head, fired)
        BY <3>4, <4>1 DEF Tagged
      <4>4. QED
        BY <4>1, <4>2, <4>3
    <3>5. QED
      BY <1>1, <3>1, <3>2, <3>3, <3>4 DEF Regions
  <2>3. QED
    BY <2>1, <2>2
<1>6. TagInv'
  <2>1. Tagged(head', fired') <=> Tagged(head', FALSE)
    BY <1>2 DEF Tagged
  <2>2. QED
    BY <1>1, <1>3, <1>4, <1>5, <2>1 DEF TagInv, Kept, Tagged
<1>7. samples' = IF Inst(head) = "ReadCounters" THEN samples + 1 ELSE samples
  BY <1>1, <1>2, Effect
<1>8. Inst(head) = "ReadCounters" <=> inSample /\ head[2] = 5
  <2>1. CASE head[1] = "init"
    BY <1>1, <2>1, InstInit DEF inSample
  <2>2. CASE head[1] = "prog"
    BY <1>1, <2>2, InstProg DEF inSample
  <2>3. CASE head[1] = "takeover"
    BY <1>1, <2>3, InstTakeover DEF inSample
  <2>4. CASE head[1] = "sample"
    BY <1>1, <2>4, InstSample DEF inSample
  <2>5. QED
    BY <1>1, <2>1, <2>2, <2>3, <2>4 DEF Regions
<1>9. ucsr.warmupInstNum = 0 => ~warmupEnds /\ ucsr'.warmupInstNum = 0
                                /\ ucsr'.nowWarmupInsts = ucsr.nowWarmupInsts
  BY <1>1, <1>3, Counted DEF warmupEnds, warmupValid
<1>10. EarlyInv'
  <2>1. ASSUME Early
        PROVE  /\ samples' = 0 /\ window' <= 1 /\ (head'[2] <= 5 => window' = 0)
               /\ ucsr'.warmupInstNum = 0 /\ ucsr'.nowWarmupInsts = 0
               /\ head'[2] > 2 \/ (head'[2] = 2 /\ fired') => ucsr'.pfc_enable
               /\ ucsr'.maxEventNum = 0 <=> head'[2] < 5 \/ (head'[2] = 5 /\ ~fired')
    <3>1. head[2] <= 5 /\ head'[2] = head[2] + 1 /\ fired /\ ~inSample
      <4>1. head[1] = "init" /\ head[2] <= 5 /\ head' = <<"init", head[2] + 1>>
        BY <1>4, <2>1 DEF Early
      <4>2. fired
        BY <1>1, <1>2, <4>1, InstInit DEF is_unique, SetInsts
      <4>3. QED
        BY <4>1, <4>2 DEF inSample
    <3>2. /\ samples = 0 /\ window = 0
          /\ ucsr.warmupInstNum = 0 /\ ucsr.nowWarmupInsts = 0
          /\ head[2] > 2 \/ head[2] = 2 => ucsr.pfc_enable
          /\ ucsr.maxEventNum = 0 <=> head[2] < 5
      BY <1>1, <2>1, <3>1 DEF CountInv, EarlyInv
    <3>3. samples' = 0
      BY <1>7, <1>8, <3>1, <3>2
    <3>4. window' <= 1 /\ (ucsr.maxEventNum = 0 => window' = 0)
      BY <1>9, <3>2 DEF CommitHead, Clock, Cycle
    <3>5. QED
      BY <1>1, <1>2, <1>3, <1>9, <3>1, <3>2, <3>3, <3>4 DEF Kept
  <2>2. ucsr'.maxEventNum # 0 => ucsr'.pfc_enable
    BY <1>3 DEF CountInv, EarlyInv, Kept
  <2>3. QED
    BY <1>4, <2>1, <2>2 DEF EarlyInv
<1>11. OnceInv'
  <2>1. ucsr'.maxEventNum \in {0, runLength}
    BY <1>3 DEF CountInv, OnceInv, Kept
  <2>2. ucsr'.maxEventNum # 0 => samples' = 0
    <3>1. ucsr'.maxEventNum # 0 => ~inSample
      BY <1>3 DEF Kept, DataInv, SampleData
    <3>2. QED
      BY <1>3, <1>7, <1>8, <3>1 DEF CountInv, OnceInv, Kept
  <2>3. ASSUME ~Early', ucsr'.maxEventNum = 0 PROVE ucsr'.warmupInstNum = 0
    BY <1>3, <1>4, <1>9, <2>3 DEF CountInv, OnceInv, Kept
  <2>4. ASSUME ~Early', ucsr'.maxEventNum = 0, ~inSample' PROVE samples' = 1
    <3>1. CASE inSample
      <4>1. head[2] = 13
        BY <1>4, <2>4, <3>1
      <4>2. QED
        BY <1>7, <1>8, <3>1, <4>1 DEF CountInv, OnceInv
    <3>2. CASE ~inSample
      BY <1>3, <1>4, <1>7, <1>8, <2>4, <3>2 DEF CountInv, OnceInv, Kept
    <3>3. QED
      BY <3>1, <3>2
  <2>5. ASSUME inSample' PROVE samples' = IF head'[2] <= 5 THEN 0 ELSE 1
    <3>1. inSample /\ head'[2] = head[2] + 1
      BY <1>4, <2>5
    <3>2. samples = IF head[2] <= 5 THEN 0 ELSE 1
      BY <3>1 DEF CountInv, OnceInv
    <3>3. QED
      BY <1>1, <1>7, <1>8, <3>1, <3>2
  <2>6. QED
    BY <2>1, <2>2, <2>3, <2>4, <2>5 DEF OnceInv
<1>12. QED
  BY <1>6, <1>10, <1>11

(* The core is only diverted once init_start is over. *)
LEMMA NotEarly ==
  ASSUME DataInv, CountInv, overflow_event, ~fired
  PROVE  /\ ~Early /\ ~inSample /\ ucsr.maxEventNum = runLength /\ ucsr.warmupInstNum = 0
         /\ ucsr.procTag /\ user = 3 /\ ucsr.nowEventNum > runLength
         /\ head[1] = "init" => head[2] > 6
<1>1. /\ committed \in Nat /\ UcsrType(ucsr) /\ window \in Nat /\ head[2] \in Nat
      /\ runLength \in Nat /\ runLength # 0
  BY Basics
<1>2. /\ ucsr.maxEventNum # 0 /\ ucsr.warmupInstNum = 0 /\ ucsr.procTag /\ user = 3
      /\ ucsr.nowEventNum > ucsr.maxEventNum
  BY DEF overflow_event, sampleValid, isUserMode
<1>3. ucsr.maxEventNum = runLength /\ ~inSample
  BY <1>2 DEF CountInv, OnceInv, DataInv, SampleData
<1>4. ucsr.nowEventNum \in Nat /\ pend \in Nat /\ window = ucsr.nowEventNum + pend
  BY <1>1, <1>2 DEF CountInv, EventInv, pend, UcsrType
<1>5. window > 1
  BY <1>1, <1>2, <1>3, <1>4
<1>6. ~Early
  BY <1>1, <1>5 DEF CountInv, EarlyInv
<1>7. head[1] = "init" => head[2] > 6
  BY <1>1, <1>6 DEF Early
<1>8. QED
  BY <1>2, <1>3, <1>6, <1>7

(* The same when the core is diverted. *)
LEMMA DivertTag ==
  ASSUME DataInv, CountInv, DivertHead, UNCHANGED <<runLength, warmup>>
  PROVE  TagInv' /\ EarlyInv' /\ OnceInv'
<1>1. committed \in Nat /\ UcsrType(ucsr)
  BY DEF DataInv, CoreTypes, PipeInv, PipeTypes
<1>2. /\ ucsr'.procTag = FALSE /\ ucsr'.maxEventNum = 0 /\ ucsr'.userExitPC = head
      /\ ucsr'.warmupInstNum = counted.warmupInstNum
  BY <1>1, DivertUcsr
<1>3. /\ head' = <<"sample", 1>> /\ ~fired /\ ~fired' /\ samples' = samples /\ overflow_event
  BY DEF DivertHead, data, DataInv, SampleData, SampleFunc
<1>4. /\ ~Early /\ ~inSample /\ ucsr.maxEventNum = runLength /\ ucsr.warmupInstNum = 0
      /\ ucsr.procTag /\ (head[1] = "init" => head[2] > 6)
  BY <1>3, NotEarly
<1>5. inSample' /\ ~Early'
  BY <1>3 DEF inSample, Early
<1>6. TagInv'
  <2>1. Tagged(head, FALSE)
    BY <1>3, <1>4 DEF CountInv, TagInv, Tagged
  <2>2. ~Tagged(head', fired')
    BY <1>3 DEF Tagged
  <2>3. QED
    BY <1>2, <1>4, <2>1, <2>2 DEF TagInv, Tagged
<1>7. EarlyInv'
  BY <1>2, <1>5 DEF EarlyInv
<1>8. OnceInv'
  <2>1. samples = 0
    BY <1>4 DEF CountInv, OnceInv, DataInv, CoreTypes
  <2>2. counted.warmupInstNum = 0
    BY <1>1, <1>4, Counted
  <2>3. QED
    BY <1>2, <1>3, <1>5, <2>1, <2>2 DEF OnceInv
<1>9. QED
  BY <1>6, <1>7, <1>8

(* One cycle of counting: pend is what it adds. *)
LEMMA Tick ==
  ASSUME DataInv, Quiet \/ Fire \/ CommitHead
  PROVE  /\ pend \in 0..1 /\ pend' \in 0..1
         /\ Quiet \/ Fire => pend' = 0
         /\ CommitHead => pend' = IF ucsr.procTag THEN 1 ELSE 0
         /\ window' = (IF warmupEnds THEN pend'
                       ELSE IF ucsr.warmupInstNum = 0 /\ ucsr.maxEventNum # 0
                              THEN window + pend' ELSE window)
         /\ counted.nowEventNum = (IF warmupEnds THEN 0
              ELSE IF ucsr.warmupInstNum = 0 /\ ucsr.maxEventNum # 0
                     THEN ucsr.nowEventNum + pend ELSE ucsr.nowEventNum)
         /\ counted.nowWarmupInsts = (IF warmupEnds THEN 0
              ELSE IF ucsr.warmupInstNum # 0 THEN ucsr.nowWarmupInsts + pend
              ELSE ucsr.nowWarmupInsts)
         /\ counted.warmupInstNum = (IF warmupEnds THEN 0 ELSE ucsr.warmupInstNum)
         /\ warmupEnds <=> /\ user = 3 /\ ucsr.procTag /\ ucsr.warmupInstNum # 0
                           /\ ucsr.nowWarmupInsts > ucsr.warmupInstNum
<1>1. /\ committed \in 0..1 /\ UcsrType(ucsr) /\ window \in Nat /\ user \in 0..3
  BY DEF DataInv, CoreTypes, PipeInv, PipeTypes
<1>2. /\ ucsr.procTag \in BOOLEAN /\ ucsr.nowEventNum \in Nat /\ ucsr.nowWarmupInsts \in Nat
      /\ ucsr.warmupInstNum \in Nat /\ ucsr.maxEventNum \in Nat
  BY <1>1 DEF UcsrType
<1>3. warmupEnds <=> /\ user = 3 /\ ucsr.procTag /\ ucsr.warmupInstNum # 0
                     /\ ucsr.nowWarmupInsts > ucsr.warmupInstNum
  BY DEF warmupEnds, warmupValid, isUserMode
<1>4. pend \in 0..1
  BY <1>1 DEF pend
<1>5. /\ counted.nowEventNum = (IF warmupEnds THEN 0
           ELSE IF ucsr.warmupInstNum = 0 /\ ucsr.maxEventNum # 0
                  THEN ucsr.nowEventNum + pend ELSE ucsr.nowEventNum)
      /\ counted.nowWarmupInsts = (IF warmupEnds THEN 0
           ELSE IF ucsr.warmupInstNum # 0 THEN ucsr.nowWarmupInsts + pend
           ELSE ucsr.nowWarmupInsts)
      /\ counted.warmupInstNum = (IF warmupEnds THEN 0 ELSE ucsr.warmupInstNum)
  <2>1. /\ sampleValid <=> user = 3 /\ ucsr.procTag /\ ucsr.maxEventNum # 0
                           /\ ucsr.warmupInstNum = 0
        /\ warmupValid <=> user = 3 /\ ucsr.procTag /\ ucsr.warmupInstNum # 0
    BY DEF sampleValid, warmupValid, isUserMode
  <2>2. QED
    BY <1>1, <1>2, <2>1, Counted DEF pend
<1>6. CASE Quiet
  <2>1. pend' = 0
    BY <1>1, <1>6 DEF Quiet, Clock, Cycle, pend
  <2>2. window' = (IF warmupEnds THEN 0 ELSE window)
    BY <1>1, <1>3, <1>6 DEF Quiet, Clock, Cycle
  <2>3. ~CommitHead \/ ~ucsr.procTag \/ pend' = 1
    BY <1>1, <1>6, Counted DEF Quiet, CommitHead, Clock, Cycle, pend, Kept
  <2>4. CommitHead => ucsr'.procTag = ucsr.procTag
    BY <1>1, CommitUcsr DEF Kept
  <2>5. QED
    BY <1>1, <1>3, <1>4, <1>5, <2>1, <2>2, <2>3
<1>7. CASE Fire
  <2>1. pend' = 0 /\ committed' = 0
    BY <1>7 DEF Fire, Clock, Cycle, pend
  <2>2. window' = (IF warmupEnds THEN 0 ELSE window)
    BY <1>1, <1>7 DEF Fire, Clock, Cycle
  <2>3. ~CommitHead
    BY <2>1 DEF CommitHead, Clock, Cycle
  <2>4. QED
    BY <1>1, <1>3, <1>4, <1>5, <2>1, <2>2, <2>3
<1>8. CASE CommitHead
  <2>1. user' = 3 /\ committed' = 1 /\ ucsr'.procTag = ucsr.procTag /\ user = 3
    BY <1>1, <1>8, CommitUcsr DEF CommitHead, Clock, Cycle, Kept
  <2>2. pend' = IF ucsr.procTag THEN 1 ELSE 0
    BY <2>1 DEF pend
  <2>3. window' = (IF warmupEnds THEN 1 ELSE
                   IF ucsr.procTag /\ ucsr.warmupInstNum = 0 /\ ucsr.maxEventNum # 0
                     THEN window + 1 ELSE window)
    BY <1>8 DEF CommitHead, Clock, Cycle
  <2>4. ~Quiet /\ ~Fire
    BY <1>1, <2>1 DEF Quiet, Fire, Clock, Cycle
  <2>5. QED
    BY <1>1, <1>2, <1>3, <1>4, <1>5, <2>2, <2>3, <2>4
<1>9. QED
  BY <1>6, <1>7, <1>8

(* A cycle that only counts, and the two that start to count. *)
Regular ==
  /\ ucsr'.maxEventNum = ucsr.maxEventNum
  /\ ucsr'.warmupInstNum = counted.warmupInstNum
  /\ ucsr.maxEventNum # 0 => /\ ucsr'.nowEventNum = counted.nowEventNum
                             /\ ucsr'.nowWarmupInsts = counted.nowWarmupInsts

StartEvents ==
  /\ head = <<"init", 5>> /\ head' = head /\ window = 0
  /\ ucsr.maxEventNum = 0 /\ ucsr.warmupInstNum = 0
  /\ ucsr'.maxEventNum = runLength /\ ucsr'.nowEventNum = 0 /\ ucsr'.warmupInstNum = 0

StartWarmup ==
  /\ head = <<"init", 6>> /\ head' = head /\ ucsr.warmupInstNum = 0
  /\ ucsr.maxEventNum # 0 /\ ucsr'.maxEventNum = ucsr.maxEventNum
  /\ ucsr'.nowEventNum = counted.nowEventNum
  /\ ucsr'.warmupInstNum = warmup /\ ucsr'.nowWarmupInsts = 0

(* Every cycle that does not divert the core is one of them. *)
LEMMA Cycles ==
  ASSUME DataInv, CountInv, Quiet \/ Fire \/ CommitHead
  PROVE  \/ Regular
         \/ Fire /\ (StartEvents \/ StartWarmup)
<1>1. /\ committed \in Nat /\ UcsrType(ucsr) /\ window \in Nat /\ LoaderOps \in Nat
      /\ runLength \in Nat /\ runLength # 0 /\ warmup \in Nat
      /\ head \in At /\ head[1] \in Regions /\ head[2] \in Nat /\ head[2] >= 1
      /\ head = <<head[1], head[2]>>
  BY Basics
<1>2. CASE Quiet
  BY <1>1, <1>2, Counted DEF Quiet, Regular, Kept
<1>3. CASE CommitHead
  BY <1>1, <1>3, CommitUcsr DEF Regular, Kept
<1>4. CASE Fire
  <2>1. head' = head /\ ~fired
    BY <1>4 DEF Fire
  <2>2. /\ ucsr'.maxEventNum = (IF Inst(head) = "SetMaxEventNum" THEN runLength
                                ELSE IF Inst(head) = "ClearMaxEventNum" THEN 0
                                ELSE ucsr.maxEventNum)
        /\ ucsr'.nowEventNum = (IF Inst(head) \in {"SetMaxEventNum", "ClearMaxEventNum"} THEN 0
                                ELSE counted.nowEventNum)
    BY <1>1, <1>4, Written DEF Fire
  <2>3. /\ ucsr'.warmupInstNum = (IF Inst(head) = "SetWarmupInst" THEN warmup
                                  ELSE IF Inst(head) = "ClearWarmupInst" THEN 0
                                  ELSE counted.warmupInstNum)
        /\ ucsr'.nowWarmupInsts = (IF Inst(head) \in {"SetWarmupInst", "ClearWarmupInst"} THEN 0
                                   ELSE counted.nowWarmupInsts)
    BY <1>1, <1>4, Written DEF Fire
  <2>4. counted.warmupInstNum = IF warmupEnds THEN 0 ELSE ucsr.warmupInstNum
    BY <1>1, Counted
  <2>5. CASE Inst(head) = "SetMaxEventNum"
    <3>1. head = <<"init", 5>>
      <4>1. CASE head[1] = "init"
        BY <1>1, <2>5, <4>1, InstInit
      <4>2. CASE head[1] = "prog"
        BY <1>1, <2>5, <4>2, InstProg
      <4>3. CASE head[1] = "takeover"
        BY <1>1, <2>5, <4>3, InstTakeover
      <4>4. CASE head[1] = "sample"
        BY <1>1, <2>5, <4>4, InstSample
      <4>5. QED
        BY <1>1, <4>1, <4>2, <4>3, <4>4 DEF Regions
    <3>2. ucsr.maxEventNum = 0 /\ window = 0 /\ ucsr.warmupInstNum = 0
      BY <1>1, <2>1, <3>1 DEF CountInv, EarlyInv, Early
    <3>3. StartEvents
      BY <2>1, <2>2, <2>3, <2>4, <2>5, <3>1, <3>2 DEF StartEvents
    <3>4. QED
      BY <1>4, <3>3
  <2>6. CASE Inst(head) = "SetWarmupInst"
    <3>1. head = <<"init", 6>>
      <4>1. CASE head[1] = "init"
        BY <1>1, <2>6, <4>1, InstInit
      <4>2. CASE head[1] = "prog"
        BY <1>1, <2>6, <4>2, InstProg
      <4>3. CASE head[1] = "takeover"
        BY <1>1, <2>6, <4>3, InstTakeover
      <4>4. CASE head[1] = "sample"
        BY <1>1, <2>6, <4>4, InstSample
      <4>5. QED
        BY <1>1, <4>1, <4>2, <4>3, <4>4 DEF Regions
    <3>2. ucsr.maxEventNum # 0 /\ ucsr.warmupInstNum = 0
      BY <1>1, <2>1, <3>1 DEF CountInv, EarlyInv, Early
    <3>3. StartWarmup
      BY <2>1, <2>2, <2>3, <2>6, <3>1, <3>2 DEF StartWarmup
    <3>4. QED
      BY <1>4, <3>3
  <2>7. CASE Inst(head) \in {"ClearMaxEventNum", "ClearWarmupInst"}
    <3>1. inSample
      <4>1. CASE head[1] = "init"
        BY <1>1, <2>7, <4>1, InstInit
      <4>2. CASE head[1] = "prog"
        BY <1>1, <2>7, <4>2, InstProg
      <4>3. CASE head[1] = "takeover"
        BY <1>1, <2>7, <4>3, InstTakeover
      <4>4. QED
        BY <1>1, <4>1, <4>2, <4>3 DEF Regions, inSample
    <3>2. ucsr.maxEventNum = 0 /\ ~Early
      BY <3>1 DEF DataInv, SampleData, inSample, Early
    <3>3. ucsr.warmupInstNum = 0
      BY <3>2 DEF CountInv, OnceInv
    <3>4. QED
      BY <2>2, <2>3, <2>4, <2>7, <3>2, <3>3 DEF Regular
  <2>8. QED
    BY <2>2, <2>3, <2>5, <2>6, <2>7 DEF Regular
<1>5. QED
  BY <1>2, <1>3, <1>4

(* The core stays one cycle behind. *)
LEMMA EventStep ==
  ASSUME DataInv, CountInv, Quiet \/ Fire \/ CommitHead, UNCHANGED <<runLength, warmup>>
  PROVE  EventInv' /\ WarmInv'
<1>1. /\ window \in Nat /\ runLength \in Nat /\ warmup \in Nat /\ warmup' = warmup
      /\ ucsr.nowEventNum \in Nat /\ ucsr.nowWarmupInsts \in Nat /\ ucsr.warmupInstNum \in Nat
      /\ pend \in 0..1 /\ pend' \in 0..1
  BY Tick DEF DataInv, CoreTypes, UcsrType
<1>2. /\ ucsr.maxEventNum # 0 /\ ucsr.warmupInstNum = 0 => window = ucsr.nowEventNum + pend
      /\ ucsr.warmupInstNum # 0 => /\ ucsr.warmupInstNum = warmup
                                   /\ ucsr.nowWarmupInsts <= warmup + 1
      /\ ucsr.maxEventNum = 0 => ucsr.warmupInstNum = 0
  BY DEF CountInv, EventInv, WarmInv, OnceInv, EarlyInv
<1>3. CASE Regular
  <2>1. EventInv'
    BY <1>1, <1>2, <1>3, Tick DEF Regular, EventInv
  <2>2. ASSUME ucsr'.warmupInstNum # 0
        PROVE  ucsr'.warmupInstNum = warmup /\ ucsr'.nowWarmupInsts <= warmup + 1
    <3>1. ~warmupEnds /\ ucsr.warmupInstNum # 0 /\ ucsr'.warmupInstNum = warmup
          /\ ucsr'.nowWarmupInsts = ucsr.nowWarmupInsts + pend
      BY <1>1, <1>2, <1>3, <2>2, Tick DEF Regular
    <3>2. pend = 0 \/ (user = 3 /\ ucsr.procTag)
      BY DEF pend
    <3>3. pend = 0 \/ ucsr.nowWarmupInsts <= warmup
      BY <1>1, <1>2, <3>1, <3>2, Tick
    <3>4. QED
      BY <1>1, <1>2, <3>1, <3>3
  <2>3. QED
    BY <1>1, <2>1, <2>2 DEF WarmInv
<1>4. CASE Fire /\ StartEvents
  <2>1. ~warmupEnds
    BY <1>4, Tick DEF StartEvents
  <2>2. window' = 0 /\ pend' = 0
    BY <1>4, <2>1, Tick DEF StartEvents
  <2>3. QED
    BY <1>4, <2>2 DEF StartEvents, EventInv, WarmInv
<1>5. CASE Fire /\ StartWarmup
  <2>1. ~warmupEnds
    BY <1>5, Tick DEF StartWarmup
  <2>2. pend' = 0 /\ window' = window /\ ucsr'.nowEventNum = window
    BY <1>1, <1>2, <1>5, <2>1, Tick DEF StartWarmup
  <2>3. QED
    BY <1>1, <1>5, <2>2 DEF StartWarmup, EventInv, WarmInv
<1>6. QED
  BY <1>3, <1>4, <1>5, Cycles

(* Every move keeps the counters in step. *)
LEMMA CountMoveInv ==
  ASSUME DataInv, CountInv, Move, UNCHANGED <<runLength, warmup>>
  PROVE  CountInv'
<1>1. CASE Quiet
  BY <1>1, QuietTag, EventStep DEF CountInv
<1>2. CASE Fire
  BY <1>2, FireTag, EventStep DEF CountInv
<1>3. CASE CommitHead
  BY <1>3, CommitTag, EventStep DEF CountInv
<1>4. CASE DivertHead
  <2>1. UcsrType(ucsr) /\ committed \in Nat
    BY DEF DataInv, CoreTypes, PipeInv, PipeTypes
  <2>2. ucsr'.maxEventNum = 0 /\ ucsr'.warmupInstNum = counted.warmupInstNum
    BY <1>4, <2>1, DivertUcsr
  <2>3. ucsr.warmupInstNum = 0
    BY <1>4 DEF DivertHead, overflow_event, sampleValid
  <2>4. ucsr'.warmupInstNum = 0
    BY <2>1, <2>2, <2>3, Counted
  <2>5. EventInv' /\ WarmInv'
    BY <2>2, <2>4 DEF EventInv, WarmInv
  <2>6. QED
    BY <1>4, <2>5, DivertTag DEF CountInv
<1>5. QED
  BY <1>1, <1>2, <1>3, <1>4 DEF Move

-----------------------------------------------------------------------------
(* The tagged instructions from init_start to head. *)
lastCall == IF head[2] <= LoaderOps + 3 THEN slot ELSE CallPc(nowcallnum)

Progress ==
  IF head[1] = "init" THEN head[2] - 6
  ELSE IF head[1] = "prog" THEN LoaderOps + 3 + head[2]
  ELSE LoaderOps + 4 + lastCall
       + (IF head[2] <= LoaderOps + 2 THEN head[2] - 1 ELSE LoaderOps + 1)

(* The commits that the core counted for the warm-up and the window. *)
warmupCredit == IF warmup = 0 THEN 0 ELSE warmup + 2

credit ==
  IF ucsr.warmupInstNum # 0 THEN ucsr.nowWarmupInsts + pend ELSE window + warmupCredit

(* The core misses at most the loader's own tagged instructions. *)
ProgressInv == ~Early /\ ucsr.maxEventNum # 0 /\ status # "exit" => Progress <= credit

(* Progress is a number. *)
LEMMA ProgressInt ==
  ASSUME DataInv, ~inSample, status # "exit"
  PROVE  /\ Progress \in Int
         /\ head[1] = "takeover" => lastCall \in Nat
<1>1. /\ LoaderOps \in Nat /\ ProgLen \in Nat /\ head[1] \in Regions /\ head[2] \in Nat
      /\ head[1] # "sample" /\ vpc = head
  BY AtShape, CodeDomain DEF DataInv, PipeInv, inSample, vpc
<1>2. ASSUME head[1] = "takeover" PROVE lastCall \in Nat
  <2>1. CASE head[2] <= LoaderOps + 3
    BY <1>1, <1>2, <2>1, EcallNat DEF DataInv, SliceData, CallData, lastCall
  <2>2. CASE ~(head[2] <= LoaderOps + 3)
    BY <1>1, <1>2, <2>2, EcallNat DEF DataInv, SliceData, BackData, lastCall
  <2>3. QED
    BY <2>1, <2>2
<1>3. QED
  BY <1>1, <1>2 DEF Progress, Regions

(* A commit is one step of progress, and none while the loader hides.      *)
LEMMA ProgressCommit ==
  ASSUME DataInv, DataInv', TagInv, CommitHead, ~Early, ~inSample, status' # "exit"
  PROVE  Progress' <= Progress + (IF ucsr.procTag THEN 1 ELSE 0)
<1>1. /\ LoaderOps \in Nat /\ ProgLen \in Nat /\ head \in At /\ head[1] \in Regions
      /\ head[2] \in Nat /\ head[2] >= 1 /\ head[1] # "sample" /\ vpc = head /\ CoreTypes
  BY AtShape, CodeDomain DEF DataInv, PipeInv, inSample, vpc
<1>2. /\ (is_unique(head) => fired) /\ ~fired' /\ commitEffect(head) /\ status = "run"
      /\ (ucsr.procTag <=> Tagged(head, fired))
  BY DEF CommitHead, TagInv
<1>3. nowcallnum' = IF Inst(head) = "Serve" THEN nowcallnum + 1 ELSE nowcallnum
  BY <1>1, <1>2, Effect
<1>4. Progress \in Int /\ (head[1] = "takeover" => lastCall \in Nat)
  BY <1>2, ProgressInt
<1>5. CASE head[1] = "init"
  <2>1. head[2] >= 6 /\ ucsr.procTag
    BY <1>1, <1>2, <1>5 DEF Early, Tagged
  <2>2. \/ head' = <<"init", head[2] + 1>>
        \/ head[2] = LoaderOps + 9 /\ head' = <<"prog", 1>>
    BY <1>5, CommitTo
  <2>3. QED
    BY <1>1, <1>5, <2>1, <2>2 DEF Progress
<1>6. CASE head[1] = "prog"
  <2>1. ucsr.procTag
    BY <1>2, <1>6 DEF Tagged
  <2>2. CASE head' = <<"prog", head[2] + 1>>
    BY <1>1, <1>6, <2>1, <2>2 DEF Progress
  <2>3. CASE head' # <<"prog", head[2] + 1>>
    <3>1. head[2] \in Ecalls \cup {ProgLen + 1} /\ head' = <<"takeover", 1>>
          /\ Inst(head) = "URet3"
      BY <1>6, <2>3, CommitTo
    <3>2. slot = head[2]
      BY <1>1, <1>6, <3>1, SlotIs DEF DataInv, SliceData, ProgData
    <3>3. slot' = slot
      BY <1>3, <3>1 DEF slot
    <3>4. lastCall' = head[2]
      BY <1>1, <3>1, <3>2, <3>3 DEF lastCall
    <3>5. Progress' = LoaderOps + 4 + head[2]
      BY <1>1, <3>1, <3>4 DEF Progress
    <3>6. QED
      BY <1>1, <1>6, <2>1, <3>5 DEF Progress
  <2>4. QED
    BY <2>2, <2>3
<1>7. CASE head[1] = "takeover"
  <2>1. CASE Inst(head) \in URets
    <3>1. head[2] = LoaderOps + 8 /\ CallPc(nowcallnum) \in Ecalls
          /\ head' = <<"prog", CallPc(nowcallnum) + 1>>
      BY <1>7, <2>1, CommitTo
    <3>2. lastCall = CallPc(nowcallnum) /\ lastCall \in Nat
      BY <1>1, <1>4, <1>7, <3>1 DEF lastCall
    <3>3. QED
      BY <1>1, <1>7, <3>1, <3>2 DEF Progress
  <2>2. CASE Inst(head) \notin URets
    <3>1. head' = <<"takeover", head[2] + 1>>
      BY <1>7, <2>2, CommitTo DEF URets
    <3>2. lastCall' = lastCall
      <4>1. CASE head[2] = LoaderOps + 3
        <5>1. Inst(head) = "Serve"
          BY <1>1, <1>7, <4>1, InstTakeover
        <5>2. nowcallnum' = nowcallnum + 1 /\ ~(nowcallnum >= Cardinality(Ecalls))
          BY <1>1, <1>2, <1>3, <5>1, Effect
        <5>3. nowcallnum # Cardinality(Ecalls)
          BY <1>1, <5>2, CallsBounds DEF CoreTypes
        <5>4. lastCall' = CallPc(nowcallnum')
          BY <1>1, <3>1, <4>1 DEF lastCall
        <5>5. QED
          BY <1>1, <4>1, <5>2, <5>3, <5>4 DEF lastCall, slot
      <4>2. CASE head[2] # LoaderOps + 3
        <5>1. Inst(head) # "Serve"
          BY <1>1, <1>7, <4>2, InstTakeover
        <5>2. nowcallnum' = nowcallnum /\ slot' = slot
          BY <1>3, <5>1 DEF slot
        <5>3. QED
          BY <1>1, <3>1, <4>2, <5>2 DEF lastCall
      <4>3. QED
        BY <4>1, <4>2
    <3>3. CASE head[2] <= LoaderOps + 1
      <4>1. ucsr.procTag
        BY <1>2, <1>7, <3>3 DEF Tagged
      <4>2. QED
        BY <1>1, <1>4, <1>7, <3>1, <3>2, <3>3, <4>1 DEF Progress
    <3>4. CASE ~(head[2] <= LoaderOps + 1)
      <4>1. Progress' = Progress
        BY <1>1, <1>4, <1>7, <3>1, <3>2, <3>4 DEF Progress
      <4>2. QED
        BY <1>4, <4>1
    <3>5. QED
      BY <3>3, <3>4
  <2>3. QED
    BY <2>1, <2>2
<1>8. QED
  BY <1>1, <1>5, <1>6, <1>7 DEF Regions

(* The core gives credit for every commit that it counts. *)
LEMMA CreditStep ==
  ASSUME DataInv, CountInv, Quiet \/ Fire \/ CommitHead, Regular, ucsr.maxEventNum # 0,
         UNCHANGED <<runLength, warmup>>
  PROVE  credit \in Nat /\ credit' >= credit + pend'
<1>1. /\ window \in Nat /\ warmup \in Nat /\ warmup' = warmup
      /\ ucsr.nowWarmupInsts \in Nat /\ ucsr.warmupInstNum \in Nat
      /\ pend \in 0..1 /\ pend' \in 0..1
  BY Tick DEF DataInv, CoreTypes, UcsrType
<1>2. ucsr.warmupInstNum # 0 => /\ ucsr.warmupInstNum = warmup
                                /\ ucsr.nowWarmupInsts <= warmup + 1
  BY DEF CountInv, WarmInv
<1> DEFINE k == warmupCredit
<1>0. warmupCredit' = k /\ k \in Nat /\ (warmup # 0 => k = warmup + 2)
  BY <1>1 DEF warmupCredit
<1> HIDE DEF k
<1>3. CASE warmupEnds
  <2>1. ucsr.warmupInstNum # 0 /\ ucsr'.warmupInstNum = 0 /\ window' = pend'
    BY <1>3, Tick DEF Regular
  <2>2. QED
    BY <1>0, <1>1, <1>2, <2>1 DEF credit, k
<1>4. CASE ~warmupEnds /\ ucsr.warmupInstNum # 0
  <2>1. ucsr'.warmupInstNum # 0 /\ ucsr'.nowWarmupInsts = ucsr.nowWarmupInsts + pend
    BY <1>4, Tick DEF Regular
  <2>2. QED
    BY <1>1, <1>4, <2>1 DEF credit
<1>5. CASE ~warmupEnds /\ ucsr.warmupInstNum = 0
  <2>1. ucsr'.warmupInstNum = 0 /\ window' = window + pend'
    BY <1>5, Tick DEF Regular
  <2>2. QED
    <3> DEFINE q == pend'
               a == credit
               b == credit'
    <3>1. a = window + k /\ b = (window + q) + k /\ q \in Nat
      BY <1>0, <1>1, <1>5, <2>1 DEF credit, k
    <3> HIDE DEF q, a, b
    <3>2. a \in Nat /\ b >= a + q
      BY <1>0, <1>1, <3>1
    <3>3. QED
      BY <3>2 DEF q, a, b
<1>6. QED
  BY <1>3, <1>4, <1>5

(* Progress and credit go together. *)
LEMMA ProgressMove ==
  ASSUME DataInv, DataInv', CountInv, ProgressInv, Move, UNCHANGED <<runLength, warmup>>
  PROVE  ProgressInv'
<1> SUFFICES ASSUME ~Early', ucsr'.maxEventNum # 0, status' # "exit"
             PROVE  Progress' <= credit'
  BY DEF ProgressInv
<1>1. /\ head[2] \in Nat /\ UcsrType(ucsr) /\ committed \in Nat /\ CoreTypes' /\ pend' \in Nat
  <2>1. CoreTypes' /\ committed' \in 0..1
    BY DEF DataInv, PipeInv, PipeTypes
  <2>2. pend' \in Nat
    BY <2>1 DEF pend
  <2>3. QED
    BY <2>1, <2>2, Basics
<1>2. ~DivertHead
  BY <1>1, DivertUcsr
<1>3. credit' \in Nat
  <2>1. ucsr'.nowWarmupInsts \in Nat /\ window' \in Nat /\ warmupCredit' \in Nat
    BY <1>1 DEF CoreTypes, UcsrType, warmupCredit
  <2>2. QED
    <3> DEFINE q == pend'
               d == warmupCredit'
               n == ucsr'.nowWarmupInsts
               w == window'
    <3>1. q \in Nat /\ d \in Nat /\ n \in Nat /\ w \in Nat
      BY <1>1, <2>1
    <3>2. credit' = n + q \/ credit' = w + d
      BY DEF credit
    <3> HIDE DEF q, d, n, w
    <3>3. n + q \in Nat /\ w + d \in Nat
      BY <3>1
    <3>4. QED
      BY <3>2, <3>3
<1>4. CASE Early
  <2>1. Fire
    <3>1. ~Quiet
      BY <1>4 DEF Quiet, Early
    <3>2. ~CommitHead
      BY <1>4, CommitParts DEF CountInv
    <3>3. QED
      BY <1>2, <3>1, <3>2 DEF Move
  <2>2. head[1] = "init" /\ head[2] = 6 /\ head' = head
    BY <1>1, <1>4, <2>1 DEF Early, Fire
  <2>3. Progress' = 0
    BY <2>2 DEF Progress
  <2>4. QED
    BY <1>3, <2>3
<1>5. CASE ~Early
  <2>1. Quiet \/ Fire \/ CommitHead
    BY <1>2 DEF Move
  <2>2. ~StartEvents
    BY <1>5 DEF StartEvents, Early
  <2>3. Regular
    <3>1. ~(Fire /\ StartWarmup)
      BY <1>5 DEF StartWarmup, Early, Fire
    <3>2. QED
      BY <2>1, <2>2, <3>1, Cycles
  <2>4. ucsr.maxEventNum # 0 /\ ~inSample
    BY <2>3 DEF Regular, DataInv, SampleData
  <2>5. status = "run"
    BY <2>1 DEF Quiet, Fire, CommitHead
  <2>6. Progress <= credit /\ Progress \in Int
    BY <1>5, <2>4, <2>5, ProgressInt DEF ProgressInv
  <2>7. credit \in Nat /\ credit' >= credit + pend'
    BY <2>1, <2>3, <2>4, CreditStep
  <2>8. CASE Quiet \/ Fire
    <3>1. head' = head /\ nowcallnum' = nowcallnum
      BY <2>8 DEF Quiet, Fire, data
    <3>2. Progress' = Progress
      BY <3>1 DEF Progress, lastCall, slot
    <3>3. credit' >= credit
      <4> DEFINE q == pend'
                 a == credit
                 b == credit'
      <4>1. q \in Nat /\ a \in Nat /\ b \in Nat /\ b >= a + q
        BY <1>1, <1>3, <2>7
      <4> HIDE DEF q, a, b
      <4>2. b >= a
        BY <4>1
      <4>3. QED
        BY <4>2 DEF a, b
    <3>4. QED
      BY <1>3, <2>6, <2>7, <3>2, <3>3
  <2>9. CASE CommitHead
    <3>1. Progress' <= Progress + (IF ucsr.procTag THEN 1 ELSE 0)
      BY <1>5, <2>4, <2>9, ProgressCommit DEF CountInv
    <3>2. pend' = IF ucsr.procTag THEN 1 ELSE 0
      BY <2>9, Tick
    <3>3. ~inSample'
      BY <2>4, <2>9, CommitParts DEF CountInv
    <3>4. Progress' \in Int
      <4>1. ASSUME DataInv', ~inSample', status' # "exit" PROVE Progress' \in Int
        <5>1. (DataInv /\ ~inSample /\ status # "exit" => Progress \in Int)'
          BY ProgressInt, PTL
        <5>2. QED
          BY <4>1, <5>1
      <4>2. QED
        BY <3>3, <4>1
    <3>5. QED
      BY <1>1, <1>3, <2>6, <2>7, <3>1, <3>2, <3>4
  <2>10. QED
    BY <2>1, <2>8, <2>9
<1>6. QED
  BY <1>4, <1>5

-----------------------------------------------------------------------------
(* How late the sample may be: what is in the pipeline when overflow_event *)
(* begins to hold still commits.  If that happens while takeoverSyscall    *)
(* hides, one more instruction commits after it has set procTag again.     *)
InTime == window + pot <= runLength + RobSize + 2

OneLate ==
  /\ head[1] = "takeover" /\ head[2] >= LoaderOps + 5 /\ head[2] + pot <= LoaderOps + 7
  /\ window + pot <= runLength + RobSize + 3

OverInv ==
  ucsr.maxEventNum # 0 /\ ucsr.warmupInstNum = 0 =>
    /\ ucsr.procTag /\ ucsr.nowEventNum > runLength => InTime \/ OneLate
    /\ ~ucsr.procTag => window <= runLength + RobSize + 1

(* Where the tag changes while there is something to sample. *)
LEMMA TagChange ==
  ASSUME DataInv, CountInv, Fire, ucsr.maxEventNum # 0
  PROVE  \/ ucsr'.procTag = ucsr.procTag
         \/ ~ucsr.procTag /\ head[1] = "takeover" /\ head[2] = LoaderOps + 5
         \/ ucsr.procTag /\ head[1] = "takeover" /\ head[2] = LoaderOps + 2
<1>1. /\ head \in At /\ head[1] \in Regions /\ head[2] \in Nat /\ head[1] # "sample"
      /\ UcsrType(ucsr) /\ ucsr.procTag \in BOOLEAN /\ committed \in Nat
      /\ runLength \in Nat /\ warmup \in Nat
  BY Basics DEF DataInv, SampleData, inSample
<1>2. ucsr'.procTag = (IF Inst(head) = "SetProcTag" THEN TRUE
                       ELSE IF Inst(head) = "ClearProcTag" THEN FALSE ELSE ucsr.procTag)
  BY <1>1, Written DEF Fire
<1>3. ~fired
  BY DEF Fire
<1>4. CASE head[1] = "init"
  <2>1. ~Early \/ head[2] = 6
    BY <1>1, <1>3, <1>4 DEF CountInv, EarlyInv, Early
  <2>2. head[2] > 5
    BY <1>1, <1>3, <1>4, <2>1 DEF Early
  <2>3. Inst(head) # "SetProcTag" /\ Inst(head) # "ClearProcTag"
    BY <1>1, <1>4, <2>2, InstInit
  <2>4. QED
    BY <1>2, <2>3
<1>5. CASE head[1] = "prog"
  BY <1>1, <1>2, <1>5, InstProg
<1>6. CASE head[1] = "takeover"
  <2>1. Inst(head) = "SetProcTag" => head[2] = LoaderOps + 5
    BY <1>1, <1>6, InstTakeover
  <2>2. Inst(head) = "ClearProcTag" => head[2] = LoaderOps + 2
    BY <1>1, <1>6, InstTakeover
  <2>3. QED
    BY <1>1, <1>2, <1>6, <2>1, <2>2
<1>7. QED
  BY <1>1, <1>4, <1>5, <1>6 DEF Regions

(* Every move keeps the bound. *)
LEMMA OverMove ==
  ASSUME DataInv, DataInv', CountInv, OverInv, CountMove, UNCHANGED <<runLength, warmup>>
  PROVE  OverInv'
<1> SUFFICES ASSUME ucsr'.maxEventNum # 0, ucsr'.warmupInstNum = 0
             PROVE  /\ ucsr'.procTag /\ ucsr'.nowEventNum > runLength => InTime' \/ OneLate'
                    /\ ~ucsr'.procTag => window' <= runLength + RobSize + 1
  BY DEF OverInv
<1> DEFINE w == window
           ww == window'
           p == pot
           pp == pot'
           n == ucsr.nowEventNum
           nn == ucsr'.nowEventNum
           q == pend
           qq == pend'
           R == runLength
           B == RobSize
           h == head[2]
<1>0. UcsrType(ucsr) /\ committed \in Nat
  BY DEF DataInv, CoreTypes, PipeInv, PipeTypes
<1>1. ~DivertHead
  BY <1>0, DivertUcsr
<1>2. Quiet \/ Fire \/ CommitHead
  BY <1>1 DEF CountMove
<1>3. /\ w \in Nat /\ p \in Nat /\ pp \in Nat /\ pp <= B + 1 /\ n \in Nat
      /\ q \in 0..1 /\ qq \in 0..1 /\ R \in Nat /\ R >= 1 /\ B \in Nat /\ B >= 1
      /\ h \in Nat /\ LoaderOps \in Nat
  <2>1. p \in Nat
    BY PotBounds DEF DataInv
  <2>2. pp \in Nat /\ pp <= B + 1
    <3>1. (PipeInv => pot \in Nat /\ pot <= RobSize + 1)'
      BY PotBounds, PTL
    <3>2. QED
      BY <3>1 DEF DataInv
  <2>3. q \in 0..1 /\ qq \in 0..1
    BY <1>2, Tick
  <2>4. QED
    BY <2>1, <2>2, <2>3, SamplingAssumption, AtShape DEF DataInv, CoreTypes, UcsrType, PipeInv
<1>4. /\ InTime <=> w + p <= R + B + 2
      /\ InTime' <=> ww + pp <= R + B + 2
      /\ OneLate <=> head[1] = "takeover" /\ h >= LoaderOps + 5 /\ h + p <= LoaderOps + 7
                     /\ w + p <= R + B + 3
      /\ OneLate' <=> head'[1] = "takeover" /\ head'[2] >= LoaderOps + 5
                      /\ head'[2] + pp <= LoaderOps + 7 /\ ww + pp <= R + B + 3
  BY DEF InTime, OneLate
<1>5. warmupEnds => ww = qq
  BY <1>2, Tick
<1>6. CASE Fire /\ (StartEvents \/ StartWarmup)
  <2>1. ~warmupEnds
    BY <1>6, Tick DEF StartEvents, StartWarmup
  <2>2. nn <= 1 /\ ww <= 1
    <3>1. CASE StartEvents
      BY <1>6, <2>1, <3>1, Tick DEF StartEvents
    <3>2. CASE StartWarmup
      <4>1. w <= 1 /\ w = n + q
        BY <1>6, <3>2 DEF StartWarmup, CountInv, EarlyInv, EventInv, Early, Fire
      <4>2. nn = n + q /\ ww = w + 0
        BY <1>6, <2>1, <3>2, Tick DEF StartWarmup
      <4>3. QED
        BY <1>3, <4>1, <4>2
    <3>3. QED
      BY <1>6, <3>1, <3>2
  <2>3. nn \in Nat /\ ww \in Nat
    BY DEF DataInv, CoreTypes, UcsrType
  <2> HIDE DEF w, ww, p, pp, n, nn, q, qq, R, B, h
  <2>4. ~(nn > R) /\ ww <= R + B + 1
    BY <1>3, <2>2, <2>3
  <2>5. QED
    BY <2>4 DEF nn, R, ww, B
<1>7. CASE Regular /\ warmupEnds
  <2>1. nn = 0 /\ ww = qq
    BY <1>2, <1>7, Tick DEF Regular, CountInv, OnceInv, EarlyInv
  <2> HIDE DEF w, ww, p, pp, n, nn, q, qq, R, B, h
  <2>2. ~(nn > R) /\ ww <= R + B + 1
    BY <1>3, <2>1
  <2>3. QED
    BY <2>2 DEF nn, R, ww, B
<1>8. CASE Regular /\ ~warmupEnds
  <2>1. /\ ucsr.maxEventNum # 0 /\ ucsr.warmupInstNum = 0 /\ w = n + q /\ nn = n + q
        /\ ww = w + qq
    BY <1>2, <1>8, Tick DEF Regular, CountInv, EventInv
  <2>2. /\ ucsr.procTag /\ n > R => InTime \/ OneLate
        /\ ~ucsr.procTag => w <= R + B + 1
    BY <2>1 DEF OverInv
  <2>3. overflow_event <=> user = 3 /\ ucsr.procTag /\ n > R
    BY <2>1 DEF overflow_event, sampleValid, isUserMode, CountInv, OnceInv
  <2>4. q = 0 \/ (user = 3 /\ ucsr.procTag)
    BY DEF pend
  <2>5. CASE Quiet /\ QuietCount
    <3>1. ucsr'.procTag = ucsr.procTag /\ head' = head
      BY <2>5, Counted DEF Quiet, Kept, DataInv, CoreTypes, PipeInv, PipeTypes
    <3>2. qq = 0 /\ (overflow_event \/ user < 3 => pp <= p)
      BY <2>5, Tick DEF QuietCount
    <3>3. user = 3 \/ user < 3
      BY DEF DataInv, PipeInv, PipeTypes
    <3>4. head'[1] = head[1] /\ head'[2] = h
      BY <3>1
    <3> HIDE DEF w, ww, p, pp, n, nn, q, qq, R, B, h
    <3>5. ~ucsr.procTag => ww <= R + B + 1
      BY <1>3, <2>1, <2>2, <3>2
    <3>6. ASSUME ucsr.procTag, nn > R PROVE InTime' \/ OneLate'
      <4>1. CASE pp <= p /\ n > R
        BY <1>3, <1>4, <2>1, <2>2, <3>2, <3>4, <3>6, <4>1
      <4>2. CASE ~(n > R)
        BY <1>3, <1>4, <2>1, <3>2, <4>2
      <4>3. user < 3 => n > R
        BY <1>3, <2>1, <2>4, <3>6
      <4>4. QED
        BY <2>3, <3>2, <3>3, <3>6, <4>1, <4>2, <4>3
    <3>7. QED
      BY <3>1, <3>5, <3>6 DEF nn, ww, R, B
  <2>6. CASE Fire /\ FireCount
    <3>1. head' = head /\ qq = 0 /\ pp = p /\ p >= 1 /\ p <= 2
      BY <2>6, Tick DEF Fire, FireCount
    <3>2. head'[1] = head[1] /\ head'[2] = h
      BY <3>1
    <3>3. \/ ucsr'.procTag = ucsr.procTag
          \/ ~ucsr.procTag /\ head[1] = "takeover" /\ h = LoaderOps + 5
          \/ ucsr.procTag /\ head[1] = "takeover" /\ h = LoaderOps + 2
      BY <2>1, <2>6, TagChange
    <3> HIDE DEF w, ww, p, pp, n, nn, q, qq, R, B, h
    <3>4. CASE ~ucsr.procTag /\ head[1] = "takeover" /\ h = LoaderOps + 5
      <4>1. OneLate'
        BY <1>3, <1>4, <2>1, <2>2, <3>1, <3>2, <3>4
      <4>2. ww <= R + B + 1
        BY <1>3, <2>1, <2>2, <3>1, <3>4
      <4>3. QED
        BY <4>1, <4>2 DEF ww, R, B
    <3>5. ASSUME ucsr.procTag PROVE InTime' \/ OneLate'
      <4>1. CASE n > R
        BY <1>3, <1>4, <2>1, <2>2, <3>1, <3>2, <3>5, <4>1
      <4>2. CASE ~(n > R)
        BY <1>3, <1>4, <2>1, <3>1, <4>2
      <4>3. QED
        BY <4>1, <4>2
    <3>6. CASE ucsr.procTag /\ head[1] = "takeover" /\ h = LoaderOps + 2
      <4>1. ww <= R + B + 1
        <5>1. CASE n > R
          BY <1>3, <1>4, <2>1, <2>2, <3>1, <3>6, <5>1
        <5>2. CASE ~(n > R)
          BY <1>3, <2>1, <3>1, <5>2
        <5>3. QED
          BY <5>1, <5>2
      <4>2. QED
        BY <3>5, <3>6, <4>1 DEF ww, R, B
    <3>7. CASE ucsr'.procTag = ucsr.procTag
      <4>1. ~ucsr.procTag => ww <= R + B + 1
        BY <1>3, <2>1, <2>2, <3>1
      <4>2. QED
        BY <3>5, <3>7, <4>1 DEF ww, R, B
    <3>8. QED
      BY <3>3, <3>4, <3>6, <3>7
  <2>7. CASE CommitHead /\ CommitCount
    <3>1. ucsr'.procTag = ucsr.procTag
      BY <2>7, CommitUcsr DEF Kept, DataInv, CoreTypes, PipeInv, PipeTypes
    <3>2. pp + 1 <= p /\ pp <= B /\ qq = (IF ucsr.procTag THEN 1 ELSE 0)
      BY <2>7, Tick DEF CommitCount
    <3>3. head[1] = "takeover" /\ h < LoaderOps + 8 =>
            head'[1] = "takeover" /\ head'[2] = h + 1
      BY <1>3, <2>7, CommitTo
    <3> HIDE DEF w, ww, p, pp, n, nn, q, qq, R, B, h
    <3>4. ~ucsr.procTag => ww <= R + B + 1
      BY <1>3, <2>1, <2>2, <3>2
    <3>5. ASSUME ucsr.procTag PROVE InTime' \/ OneLate'
      <4>1. qq = 1
        BY <3>2, <3>5
      <4>2. CASE n > R /\ InTime
        BY <1>3, <1>4, <2>1, <3>2, <4>1, <4>2
      <4>3. CASE n > R /\ OneLate
        <5>1. head[1] = "takeover" /\ h < LoaderOps + 8 /\ h >= LoaderOps + 5
              /\ h + p <= LoaderOps + 7 /\ w + p <= R + B + 3
          BY <1>3, <1>4, <4>3
        <5>2. head'[1] = "takeover" /\ head'[2] = h + 1
          BY <3>3, <5>1
        <5>3. ww + pp <= R + B + 3 /\ (h + 1) + pp <= LoaderOps + 7 /\ h + 1 >= LoaderOps + 5
          BY <1>3, <2>1, <3>2, <4>1, <5>1
        <5>4. QED
          BY <1>4, <5>2, <5>3
      <4>4. CASE ~(n > R)
        BY <1>3, <1>4, <2>1, <3>2, <4>1, <4>4
      <4>5. QED
        BY <2>2, <3>5, <4>2, <4>3, <4>4
    <3>6. QED
      BY <3>1, <3>4, <3>5 DEF ww, R, B
  <2>8. QED
    BY <1>1, <2>5, <2>6, <2>7 DEF CountMove
<1>9. QED
  BY <1>2, <1>6, <1>7, <1>8, Cycles

-----------------------------------------------------------------------------
(* The performance counter counts whenever the core is in user mode, so    *)
(* also the last instruction of the kernel.                                *)
pendCounter == IF user > 0 /\ ucsr.procTag THEN committed ELSE 0

Counting ==
  warmup > 0 /\ ~Early /\ ucsr.maxEventNum # 0 /\ ucsr.warmupInstNum = 0

CounterInv ==
  /\ kernelDue => intr > 0
  /\ Counting =>
       /\ ucsr.instCounter + pendCounter >= window
       /\ ucsr.instCounter + pendCounter <= window + intr
       /\ kernelDue => ucsr.instCounter + pendCounter < window + intr
  /\ warmup > 0 /\ inSample /\ head[2] <= 5 =>
       ucsr.instCounter >= window /\ ucsr.instCounter <= window + intr

(* What a cycle adds to the counter. *)
LEMMA CounterTick ==
  ASSUME DataInv, CountInv, Quiet \/ Fire \/ CommitHead
  PROVE  /\ pendCounter \in 0..1 /\ pendCounter' \in 0..1
         /\ pendCounter' = pend' \/ (user = 0 /\ user' = 1 /\ Quiet /\ ~warmupEnds)
         /\ Inst(head) # "RstPFC" => ucsr'.instCounter = counted.instCounter
         /\ ucsr.maxEventNum # 0 =>
              counted.instCounter = (IF warmupEnds THEN 0 ELSE ucsr.instCounter + pendCounter)
         /\ ~ucsr.procTag => counted.instCounter = ucsr.instCounter
<1>1. /\ committed \in 0..1 /\ committed \in Nat /\ UcsrType(ucsr) /\ user \in 0..3
      /\ runLength \in Nat /\ warmup \in Nat /\ ucsr.instCounter \in Nat
  BY DEF DataInv, CoreTypes, PipeInv, PipeTypes, UcsrType
<1>2. pendCounter \in 0..1
  BY <1>1 DEF pendCounter
<1>3. /\ ucsr.maxEventNum # 0 =>
           counted.instCounter = (IF warmupEnds THEN 0 ELSE ucsr.instCounter + pendCounter)
      /\ ~ucsr.procTag => counted.instCounter = ucsr.instCounter
  <2>1. ~ucsr.procTag => ~warmupEnds /\ ~startCounter
    BY DEF warmupEnds, warmupValid, startCounter
  <2>2. ucsr.maxEventNum # 0 => (startCounter <=> user > 0 /\ ucsr.procTag)
    BY DEF CountInv, EarlyInv, startCounter
  <2>3. QED
    BY <1>1, <2>1, <2>2, Counted DEF pendCounter
<1>4. Inst(head) # "RstPFC" => ucsr'.instCounter = counted.instCounter
  <2>1. CASE Quiet
    BY <2>1 DEF Quiet
  <2>2. CASE Fire
    BY <1>1, <2>2, Written DEF Fire
  <2>3. CASE CommitHead
    BY <1>1, <2>3, CommitUcsr
  <2>4. QED
    BY <2>1, <2>2, <2>3
<1>5. /\ pendCounter' \in 0..1
      /\ pendCounter' = pend' \/ (user = 0 /\ user' = 1 /\ Quiet /\ ~warmupEnds)
  <2>1. CASE Quiet
    <3>1. \/ committed' = 0
          \/ user = 0 /\ user' = 1 /\ committed' \in 0..1
      BY <2>1 DEF Quiet, Clock, Cycle
    <3>2. user = 0 => ~warmupEnds
      BY DEF warmupEnds, warmupValid, isUserMode
    <3>3. QED
      BY <2>1, <3>1, <3>2 DEF pendCounter, pend
  <2>2. CASE Fire
    BY <2>2 DEF Fire, Clock, Cycle, pendCounter, pend
  <2>3. CASE CommitHead
    BY <2>3 DEF CommitHead, Clock, Cycle, pendCounter, pend
  <2>4. QED
    BY <2>1, <2>2, <2>3
<1>6. QED
  BY <1>2, <1>3, <1>4, <1>5

(* The counter is reset before the sample is set up and after it is read. *)
LEMMA ResetAt ==
  ASSUME DataInv, Inst(head) = "RstPFC"
  PROVE  Early \/ (inSample /\ head[2] = 6)
<1>1. head \in At /\ head[1] \in Regions /\ head[2] \in Nat
  BY AtShape DEF DataInv, PipeInv
<1>2. CASE head[1] = "init"
  BY <1>1, <1>2, InstInit DEF Early
<1>3. CASE head[1] = "prog"
  BY <1>1, <1>3, InstProg
<1>4. CASE head[1] = "takeover"
  BY <1>1, <1>4, InstTakeover
<1>5. CASE head[1] = "sample"
  BY <1>1, <1>5, InstSample DEF inSample
<1>6. QED
  BY <1>1, <1>2, <1>3, <1>4, <1>5 DEF Regions

(* The counter of the slice while there is something to sample. *)
LEMMA CountingMove ==
  ASSUME DataInv, DataInv', CountInv, CounterInv, CountMove, UNCHANGED <<runLength, warmup>>,
         Counting', intr' \in Nat, kernelDue' => intr' > 0
  PROVE  /\ ucsr'.instCounter + pendCounter' >= window'
         /\ ucsr'.instCounter + pendCounter' <= window' + intr'
         /\ kernelDue' => ucsr'.instCounter + pendCounter' < window' + intr'
<1> DEFINE w == window
           ww == window'
           n == ucsr.instCounter
           nn == ucsr'.instCounter
           q == pendCounter
           qq == pendCounter'
           r == pend'
           i == intr
           ii == intr'
<1>1. UcsrType(ucsr) /\ committed \in Nat /\ head[2] \in Nat
  BY Basics
<1>2. ~DivertHead /\ KernelStep
  BY <1>1, DivertUcsr DEF Counting, CountMove, QuietCount, FireCount, CommitCount
<1>3. Quiet \/ Fire \/ CommitHead
  BY <1>2 DEF CountMove
<1>4. ~Early
  <2>1. ASSUME Early PROVE FALSE
    <3>1. ~Quiet
      BY <2>1 DEF Quiet, Early, Counting
    <3>2. ~CommitHead
      BY <2>1, CommitParts DEF Counting, CountInv
    <3>3. Fire /\ head[1] = "init" /\ head[2] = 6
      BY <1>1, <1>3, <2>1, <3>1, <3>2 DEF Early, Fire, Counting
    <3>4. Inst(head) = "SetWarmupInst"
      BY <1>1, <3>3, InstInit, CodeDomain DEF DataInv, PipeInv
    <3>5. ucsr'.warmupInstNum = warmup
      BY <1>1, <3>3, <3>4, Written DEF Fire, DataInv, CoreTypes
    <3>6. QED
      BY <3>5 DEF Counting
  <2>2. QED
    BY <2>1
<1>5. Regular
  <2>1. ~StartEvents
    BY <1>4 DEF StartEvents, Early
  <2>2. ~(Fire /\ StartWarmup)
    BY <1>4 DEF StartWarmup, Early, Fire
  <2>3. QED
    BY <1>3, <2>1, <2>2, Cycles
<1>6. ucsr.maxEventNum # 0 /\ ~inSample
  BY <1>5 DEF Regular, Counting, DataInv, SampleData
<1>7. nn = (IF warmupEnds THEN 0 ELSE n + q)
  BY <1>3, <1>4, <1>6, CounterTick, ResetAt
<1>8. /\ w \in Nat /\ ww \in Nat /\ n \in Nat /\ q \in 0..1 /\ qq \in 0..1 /\ r \in 0..1
      /\ i \in Nat /\ ii \in Nat /\ ii >= i
  BY <1>2, <1>3, Tick, CounterTick DEF DataInv, CoreTypes, UcsrType, PipeInv, PipeTypes,
                                       KernelStep
<1>9. CASE warmupEnds
  <2>1. nn = 0 /\ ww = r /\ qq = r
    BY <1>3, <1>7, <1>9, Tick, CounterTick
  <2>2. kernelDue' => ii > 0
    OBVIOUS
  <2> HIDE DEF w, ww, n, nn, q, qq, r, i, ii
  <2>3. nn + qq >= ww /\ nn + qq <= ww + ii /\ (kernelDue' => nn + qq < ww + ii)
    BY <1>8, <2>1, <2>2
  <2>4. QED
    BY <2>3 DEF ww, nn, qq, ii
<1>10. CASE ~warmupEnds
  <2>1. ucsr.warmupInstNum = 0
    BY <1>3, <1>5, <1>10, Tick DEF Regular, Counting
  <2>2. Counting
    BY <1>4, <1>6, <2>1 DEF Counting
  <2>3. ww = w + r /\ nn = n + q
    BY <1>3, <1>6, <1>7, <1>10, <2>1, Tick
  <2>4. n + q >= w /\ n + q <= w + i /\ (kernelDue => n + q < w + i)
    BY <2>2 DEF CounterInv
  <2>5. kernelDue' => kernelDue \/ ii > i
    BY <1>2 DEF KernelStep
  <2>6. CASE qq = r
    <3> HIDE DEF w, ww, n, nn, q, qq, r, i, ii
    <3>1. nn + qq >= ww /\ nn + qq <= ww + ii /\ (kernelDue' => nn + qq < ww + ii)
      BY <1>8, <2>3, <2>4, <2>5, <2>6
    <3>2. QED
      BY <3>1 DEF ww, nn, qq, ii
  <2>7. CASE qq # r
    <3>1. user = 0 /\ user' = 1 /\ Quiet
      BY <1>3, <2>7, CounterTick
    <3>2. QuietCount
      BY <3>1 DEF CountMove, Fire, CommitHead, DivertHead
    <3>3. kernelDue /\ ~kernelDue' /\ r = 0
      BY <3>1, <3>2, Tick DEF QuietCount
    <3> HIDE DEF w, ww, n, nn, q, qq, r, i, ii
    <3>4. nn + qq >= ww /\ nn + qq <= ww + ii
      BY <1>8, <2>3, <2>4, <3>3
    <3>5. QED
      BY <3>3, <3>4 DEF ww, nn, qq, ii
  <2>8. QED
    BY <2>6, <2>7
<1>11. QED
  BY <1>9, <1>10

(* The counter is left alone until sample_func reads it. *)
LEMMA ReadMove ==
  ASSUME DataInv, DataInv', CountInv, CounterInv, CountMove, UNCHANGED <<runLength, warmup>>,
         warmup > 0, inSample', head'[2] <= 5
  PROVE  ucsr'.instCounter >= window' /\ ucsr'.instCounter <= window' + intr'
<1>1. /\ UcsrType(ucsr) /\ committed \in Nat /\ head[2] \in Nat /\ window \in Nat
      /\ ucsr.instCounter \in Nat /\ intr \in Nat
  BY Basics
<1>2. intr' \in Nat /\ intr' >= intr
  BY DEF CountMove, QuietCount, FireCount, CommitCount, KernelStep
<1>3. CASE DivertHead
  <2>1. /\ ~Early /\ ucsr.maxEventNum # 0 /\ ucsr.warmupInstNum = 0
        /\ ucsr.procTag /\ user = 3 /\ committed = 0
    BY <1>3, NotEarly DEF DivertHead, DataInv, CoreTypes
  <2>2. ucsr.instCounter >= window /\ ucsr.instCounter <= window + intr
    BY <1>1, <2>1 DEF CounterInv, Counting, pendCounter
  <2>3. ~warmupEnds
    BY <2>1 DEF warmupEnds, warmupValid
  <2>4. ucsr'.instCounter = ucsr.instCounter
    BY <1>1, <1>3, <2>1, <2>3, DivertUcsr, Counted
  <2>5. window' = window
    BY <1>1, <1>3, <2>3 DEF DivertHead, Clock, Cycle
  <2>6. QED
    BY <1>1, <1>2, <2>2, <2>4, <2>5
<1>4. CASE Quiet \/ Fire \/ CommitHead
  <2>1. inSample /\ head[2] <= 5
    <3>1. CASE Quiet \/ Fire
      BY <3>1 DEF Quiet, Fire, inSample
    <3>2. CASE CommitHead
      <4>1. inSample /\ head'[2] = head[2] + 1
        BY <3>2, CommitParts DEF CountInv
      <4>2. QED
        BY <1>1, <4>1
    <3>3. QED
      BY <1>4, <3>1, <3>2
  <2>2. ~ucsr.procTag
    BY <1>1, <2>1 DEF CountInv, TagInv, Tagged, inSample
  <2>3. ucsr.maxEventNum = 0 /\ ~warmupEnds
    BY <2>1, <2>2 DEF DataInv, SampleData, warmupEnds, warmupValid
  <2>4. window' = window
    BY <1>4, <2>3, Tick
  <2>5. ~Early /\ head[2] # 6
    BY <1>1, <2>1 DEF Early, inSample
  <2>6. ucsr'.instCounter = ucsr.instCounter
    BY <1>4, <2>2, <2>5, CounterTick, ResetAt
  <2>7. ucsr.instCounter >= window /\ ucsr.instCounter <= window + intr
    BY <2>1 DEF CounterInv
  <2>8. QED
    BY <1>1, <1>2, <2>4, <2>6, <2>7
<1>5. QED
  BY <1>3, <1>4 DEF CountMove

(* Every move keeps the counter with the window. *)
LEMMA CounterMove ==
  ASSUME DataInv, DataInv', CountInv, CounterInv, CountMove, UNCHANGED <<runLength, warmup>>
  PROVE  CounterInv'
<1>1. intr \in Nat
  BY DEF DataInv, PipeInv, PipeTypes
<1>2. intr' \in Nat /\ (kernelDue' => intr' > 0)
  BY <1>1 DEF CountMove, QuietCount, FireCount, CommitCount, KernelStep, CounterInv
<1>3. QED
  BY <1>2, CountingMove, ReadMove DEF CounterInv

-----------------------------------------------------------------------------
(* takeoverSyscall has been called for the exit. *)
AtExit ==
  head[1] = "takeover" /\ head[2] <= LoaderOps + 3 /\ nowcallnum = Cardinality(Ecalls)

(* A slice that is long enough gets no further unsampled: the jump to      *)
(* takeoverSyscall empties the pipeline, and overflow_event already holds. *)
ExitInv ==
  ProgLen >= warmup + runLength =>
    /\ AtExit /\ ucsr.maxEventNum # 0 => head[2] = 1 /\ pot = 0
    /\ status = "exit" => samples = 1

(* The window is full when the slice calls for its exit. *)
LEMMA FullAtExit ==
  ASSUME DataInv, CountInv, ProgressInv, AtExit, ucsr.maxEventNum # 0, head[2] = 1,
         status = "run", ProgLen >= warmup + runLength, pend \in 0..1
  PROVE  overflow_event \/ user < 3
<1> DEFINE q == pend
           w == window
           n == ucsr.nowEventNum
           nw == ucsr.nowWarmupInsts
           k == warmupCredit
           R == runLength
           m == warmup
<1>1. LoaderOps \in Nat /\ ProgLen \in Nat /\ ProgLen >= m + R
  BY SamplingAssumption
<1>2. /\ w \in Nat /\ n \in Nat /\ nw \in Nat /\ R \in Nat /\ R >= 1 /\ m \in Nat
      /\ ucsr.warmupInstNum \in Nat
  BY DEF DataInv, CoreTypes, UcsrType
<1>3. k \in Nat /\ k <= m + 2
  BY <1>2 DEF warmupCredit
<1>4. ~Early /\ ucsr.procTag
  BY <1>1 DEF AtExit, Early, CountInv, TagInv, Tagged
<1>5. Progress = LoaderOps + 4 + (ProgLen + 1)
  <2>1. lastCall = ProgLen + 1
    BY <1>1 DEF AtExit, lastCall, slot
  <2>2. QED
    BY <1>1, <2>1 DEF AtExit, Progress
<1>6. Progress <= credit
  BY <1>4 DEF ProgressInv
<1>7. ucsr.warmupInstNum = 0
  <2>1. ASSUME ucsr.warmupInstNum # 0 PROVE FALSE
    <3>1. credit = nw + q /\ nw <= m + 1
      BY <2>1 DEF credit, CountInv, WarmInv
    <3>2. LoaderOps + 4 + (ProgLen + 1) <= nw + q /\ q \in 0..1
      BY <1>5, <1>6, <3>1
    <3> HIDE DEF q, w, n, nw, k, R, m
    <3>3. QED
      BY <1>1, <1>2, <3>1, <3>2
  <2>2. QED
    BY <2>1
<1>8. w = n + q /\ q \in 0..1 /\ LoaderOps + 4 + (ProgLen + 1) <= w + k
  BY <1>5, <1>6, <1>7 DEF credit, CountInv, EventInv
<1>9. n > R
  <2> HIDE DEF q, w, n, nw, k, R, m
  <2>1. QED
    BY <1>1, <1>2, <1>3, <1>8
<1>10. user = 3 \/ user < 3
  BY DEF DataInv, PipeInv, PipeTypes
<1>11. QED
  BY <1>4, <1>7, <1>9, <1>10 DEF overflow_event, sampleValid, isUserMode, CountInv, OnceInv

(* Every move keeps the exit behind the sample. *)
LEMMA ExitMove ==
  ASSUME DataInv, DataInv', CountInv, ProgressInv, ExitInv, CountMove,
         UNCHANGED <<runLength, warmup>>
  PROVE  ExitInv'
<1> SUFFICES ASSUME ProgLen >= warmup + runLength
             PROVE  /\ AtExit' /\ ucsr'.maxEventNum # 0 => head'[2] = 1 /\ pot' = 0
                    /\ status' = "exit" => samples' = 1
  BY DEF ExitInv
<1>1. /\ UcsrType(ucsr) /\ committed \in Nat /\ head \in At /\ head[1] \in Regions
      /\ head[2] \in Nat /\ LoaderOps \in Nat /\ CoreTypes /\ nowcallnum \in Nat
  BY Basics
<1>2. AtExit /\ ucsr.maxEventNum # 0 => head[2] = 1 /\ pot = 0
  BY DEF ExitInv
<1>3. pot \in Nat /\ pot' \in Nat
  <2>1. (PipeInv => pot \in Nat)'
    BY PotBounds, PTL
  <2>2. QED
    BY <2>1, PotBounds DEF DataInv
<1>4. CASE Quiet /\ QuietCount
  <2>1. (AtExit' <=> AtExit) /\ head' = head /\ status' # "exit" /\ status = "run"
    BY <1>4 DEF Quiet, AtExit
  <2>2. ucsr'.maxEventNum = ucsr.maxEventNum
    BY <1>1, <1>4, Counted DEF Quiet, Kept
  <2>3. ASSUME AtExit, ucsr.maxEventNum # 0 PROVE pot' = 0
    <3>1. head[2] = 1 /\ pot = 0 /\ pend \in 0..1
      BY <1>2, <1>4, <2>3, Tick
    <3>2. overflow_event \/ user < 3
      BY <2>1, <2>3, <3>1, FullAtExit
    <3>3. pot' <= pot
      BY <1>4, <3>2 DEF QuietCount
    <3>4. QED
      BY <1>3, <3>1, <3>3
  <2>4. QED
    BY <1>2, <2>1, <2>2, <2>3
<1>5. CASE Fire /\ FireCount
  <2>1. (AtExit' <=> AtExit) /\ status' = "run"
    BY <1>5 DEF Fire, data, AtExit
  <2>2. ASSUME AtExit PROVE ucsr'.maxEventNum = 0
    <3>1. ucsr.maxEventNum = 0
      BY <1>2, <1>3, <1>5, <2>2 DEF FireCount
    <3>2. ~StartEvents /\ ~StartWarmup
      BY <2>2 DEF AtExit, StartEvents, StartWarmup
    <3>3. QED
      BY <1>5, <3>1, <3>2, Cycles DEF Regular
  <2>3. QED
    BY <2>1, <2>2
<1>6. CASE CommitHead /\ CommitCount
  <2>1. commitEffect(head) /\ status = "run"
    BY <1>6 DEF CommitHead
  <2>2. ucsr'.maxEventNum = ucsr.maxEventNum
    BY <1>1, <1>6, CommitUcsr DEF Kept
  <2>3. ~(AtExit /\ ucsr.maxEventNum # 0)
    <3> DEFINE a == pot
               b == pot'
    <3>1. a \in Nat /\ b \in Nat /\ b + 1 <= a
      BY <1>3, <1>6 DEF CommitCount
    <3> HIDE DEF a, b
    <3>2. a # 0
      BY <3>1
    <3>3. QED
      BY <1>2, <3>2 DEF a
  <2>4. ASSUME AtExit', ucsr.maxEventNum # 0 PROVE head'[2] = 1 /\ pot' = 0
    <3>1. head'[1] = "takeover" /\ head'[2] <= LoaderOps + 3
          /\ nowcallnum' = Cardinality(Ecalls) /\ head[1] # "sample"
      BY <2>4 DEF AtExit, DataInv, SampleData, inSample
    <3>2. CASE head[1] = "takeover"
      <4>1. head'[2] = head[2] + 1
        BY <1>6, <3>1, <3>2, CommitTo
      <4>2. head[2] <= LoaderOps + 2
        BY <1>1, <3>1, <4>1
      <4>3. Inst(head) # "Serve"
        BY <1>1, <3>2, <4>2, InstTakeover
      <4>4. nowcallnum' = nowcallnum
        BY <1>1, <2>1, <4>3, Effect
      <4>5. AtExit
        BY <1>1, <3>1, <3>2, <4>2, <4>4 DEF AtExit
      <4>6. QED
        BY <2>3, <2>4, <4>5
    <3>3. CASE head[1] # "takeover"
      <4>1. Inst(head) = "URet3" /\ head' = <<"takeover", 1>>
        BY <1>6, <3>1, <3>3, CommitTo
      <4>2. QED
        BY <1>6, <4>1 DEF CommitCount, URets
    <3>4. QED
      BY <3>2, <3>3
  <2>5. ASSUME status' = "exit" PROVE samples' = 1
    <3>1. Inst(head) = "Serve" /\ nowcallnum >= Cardinality(Ecalls)
      BY <1>1, <2>1, <2>5, Effect
    <3>2. head[1] = "takeover" /\ head[2] = LoaderOps + 3
      <4>1. CASE head[1] = "init"
        BY <1>1, <3>1, <4>1, InstInit
      <4>2. CASE head[1] = "prog"
        BY <1>1, <3>1, <4>2, InstProg
      <4>3. CASE head[1] = "takeover"
        BY <1>1, <3>1, <4>3, InstTakeover
      <4>4. CASE head[1] = "sample"
        BY <1>1, <3>1, <4>4, InstSample
      <4>5. QED
        BY <1>1, <4>1, <4>2, <4>3, <4>4 DEF Regions
    <3>3. nowcallnum = Cardinality(Ecalls)
      <4>1. slot \in Ecalls \cup {ProgLen + 1} /\ nowcallnum = CallsBefore(slot)
        BY <1>1, <3>2 DEF DataInv, SliceData, CallData, vpc, inSample
      <4>2. {j \in Ecalls : j < slot} \subseteq Ecalls
        OBVIOUS
      <4>3. CallsBefore(slot) <= Cardinality(Ecalls) /\ Cardinality(Ecalls) \in Nat
        BY <4>2, EcallsFinite, CallsBounds, FS_Subset DEF CallsBefore
      <4>4. QED
        BY <1>1, <3>1, <4>1, <4>3
    <3>4. AtExit /\ ~Early /\ ~inSample
      BY <1>1, <3>2, <3>3 DEF AtExit, Early, inSample
    <3>5. samples = 1
      BY <2>3, <3>4 DEF CountInv, OnceInv
    <3>6. QED
      BY <1>1, <2>1, <3>1, <3>5, Effect
  <2>6. QED
    BY <2>2, <2>4, <2>5
<1>7. CASE DivertHead
  <2>1. ucsr'.maxEventNum = 0
    BY <1>1, <1>7, DivertUcsr
  <2>2. status' = "run"
    BY <1>7 DEF DivertHead, data
  <2>3. QED
    BY <2>1, <2>2
<1>8. QED
  BY <1>4, <1>5, <1>6, <1>7 DEF CountMove

(* Everything together. *)
SampleInv == DataInv /\ CountInv /\ ProgressInv /\ OverInv /\ CounterInv /\ ExitInv

(* A step that changes nothing keeps it. *)
LEMMA SampleSame ==
  ASSUME SampleInv, DataInv', UNCHANGED vars
  PROVE  SampleInv'
<1>1. /\ UNCHANGED <<runLength, warmup, ucsr, committed, user, fpc, dis, rob, flush>>
      /\ UNCHANGED <<nowcallnum, status, intr, samples, window>>
  BY DEF vars, pipeline, data
<1>2. head' = head /\ (fired' <=> fired)
  BY <1>1 DEF head, fired, temp
<1>3. pot' = pot /\ (kernelDue' <=> kernelDue)
  BY <1>1 DEF pot, robPot, disPot, flushPot, modePot, passing, kernelDue
<1>4. /\ (Early' <=> Early) /\ (inSample' <=> inSample) /\ pend' = pend
      /\ pendCounter' = pendCounter
  BY <1>1, <1>2 DEF Early, inSample, pend, pendCounter
<1>5. TagInv'
  BY <1>1, <1>2, <1>4 DEF SampleInv, CountInv, TagInv, Tagged
<1>6. EarlyInv'
  BY <1>1, <1>2, <1>4 DEF SampleInv, CountInv, EarlyInv
<1>7. OnceInv'
  BY <1>1, <1>2, <1>4 DEF SampleInv, CountInv, OnceInv
<1>8. EventInv' /\ WarmInv'
  BY <1>1, <1>4 DEF SampleInv, CountInv, EventInv, WarmInv
<1>9. ProgressInv'
  <2>1. Progress' = Progress
    BY <1>1, <1>2 DEF Progress, lastCall, slot
  <2>2. credit' = credit
    BY <1>1, <1>4 DEF credit, warmupCredit
  <2>3. QED
    BY <1>1, <1>4, <2>1, <2>2 DEF SampleInv, ProgressInv
<1>10. OverInv'
  <2>1. (InTime' <=> InTime) /\ (OneLate' <=> OneLate)
    BY <1>1, <1>2, <1>3 DEF InTime, OneLate
  <2>2. QED
    BY <1>1, <2>1 DEF SampleInv, OverInv
<1>11. CounterInv'
  <2>1. Counting' <=> Counting
    BY <1>1, <1>4 DEF Counting
  <2>2. QED
    BY <1>1, <1>2, <1>3, <1>4, <2>1 DEF SampleInv, CounterInv
<1>12. ExitInv'
  <2>1. AtExit' <=> AtExit
    BY <1>1, <1>2 DEF AtExit
  <2>2. QED
    BY <1>1, <1>2, <1>3, <2>1 DEF SampleInv, ExitInv
<1>13. QED
  BY <1>5, <1>6, <1>7, <1>8, <1>9, <1>10, <1>11, <1>12 DEF SampleInv, CountInv

(* Every step keeps it. *)
LEMMA SampleStep ==
  ASSUME SampleInv, [Next]_vars
  PROVE  SampleInv'
<1>1. CASE Next
  <2>1. DataInv' /\ CountMove /\ UNCHANGED <<runLength, warmup>>
    BY <1>1, CountStep DEF SampleInv
  <2>2. Move
    BY <2>1 DEF CountMove, Move
  <2>3. CountInv'
    BY <2>1, <2>2, CountMoveInv DEF SampleInv
  <2>4. ProgressInv'
    BY <2>1, <2>2, ProgressMove DEF SampleInv
  <2>5. OverInv' /\ CounterInv' /\ ExitInv'
    BY <2>1, OverMove, CounterMove, ExitMove DEF SampleInv
  <2>6. QED
    BY <2>1, <2>3, <2>4, <2>5 DEF SampleInv
<1>2. CASE UNCHANGED vars
  <2>1. DataInv'
    BY <1>2, DataStep DEF SampleInv
  <2>2. QED
    BY <1>2, <2>1, SampleSame
<1>3. QED
  BY <1>1, <1>2

(* It holds at the start. *)
LEMMA SampleInit ==
  ASSUME Init
  PROVE  SampleInv
<1>1. DataInv /\ head = <<"init", 1>> /\ ~fired
  BY DataInit
<1>2. /\ ucsr.procTag = FALSE /\ ucsr.warmupInstNum = 0 /\ ucsr.maxEventNum = 0
      /\ ucsr.nowWarmupInsts = 0 /\ samples = 0 /\ window = 0 /\ status = "run"
      /\ user = 3 /\ Len(rob) = 0 /\ Len(dis) = 0 /\ flush.kind = "none"
  BY DEF Init
<1>3. Early /\ ~inSample
  BY <1>1 DEF Early, inSample
<1>4. TagInv
  BY <1>1, <1>2, <1>3 DEF TagInv, Tagged
<1>5. EarlyInv /\ OnceInv /\ EventInv /\ WarmInv
  BY <1>1, <1>2, <1>3 DEF EarlyInv, OnceInv, EventInv, WarmInv
<1>6. ProgressInv /\ OverInv
  BY <1>2 DEF ProgressInv, OverInv
<1>7. ~kernelDue
  BY <1>2 DEF kernelDue
<1>8. CounterInv
  BY <1>2, <1>3, <1>7 DEF CounterInv, Counting
<1>9. ExitInv
  BY <1>2 DEF ExitInv
<1>10. QED
  BY <1>1, <1>4, <1>5, <1>6, <1>8, <1>9 DEF SampleInv, CountInv

(* The counters of the core, the tag, and the progress of the slice always *)
(* belong together.                                                        *)
THEOREM SampleAlways == Spec => []SampleInv
<1>1. Init => SampleInv
  BY SampleInit
<1>2. SampleInv /\ [Next]_vars => SampleInv'
  BY SampleStep
<1>3. QED
  BY <1>1, <1>2, PTL DEF Spec

(* The core diverts the slice after more than runLength tagged             *)
(* instructions past the warm-up, and at most RobSize + 2 later.           *)
THEOREM SampleIsOnTime == Spec => []SampleOnTime
<1>1. SampleInv => SampleOnTime
  <2> SUFFICES ASSUME SampleInv, isOverFlowExcpt
               PROVE  window \in (runLength + 1)..(runLength + RobSize + 3)
    BY DEF SampleOnTime
  <2> DEFINE p == pot
             n == ucsr.nowEventNum
             R == runLength
  <2>1. DataInv /\ CountInv /\ OverInv /\ overflow_event /\ flush.kind = "Cause_OverFlow"
    BY DEF SampleInv, isOverFlowExcpt
  <2>2. committed = 0 /\ ~fired
    BY <2>1 DEF DataInv, PipeInv, ModeInv, fired
  <2>3. /\ ucsr.maxEventNum = R /\ R # 0 /\ ucsr.warmupInstNum = 0 /\ ucsr.procTag /\ n > R
        /\ R \in Nat /\ n \in Nat /\ window \in Nat /\ p \in Nat /\ RobSize \in Nat
    BY <2>1, <2>2, NotEarly, PotBounds, SamplingAssumption DEF DataInv, CoreTypes, UcsrType
  <2>4. window = n
    BY <2>1, <2>2, <2>3 DEF CountInv, EventInv, pend
  <2>5. window + p <= R + RobSize + 2 \/ window + p <= R + RobSize + 3
    BY <2>1, <2>3 DEF OverInv, InTime, OneLate
  <2> HIDE DEF p, n, R
  <2>6. window >= R + 1 /\ window <= R + RobSize + 3
    BY <2>3, <2>4, <2>5
  <2>7. QED
    BY <2>3, <2>6 DEF R
<1>2. QED
  BY <1>1, SampleAlways, PTL

(* When sample_func reads the counters they hold the instructions of the   *)
(* window, at most one more for each interrupt, and none of its own.       *)
THEOREM CountersAreTheWindow == Spec => []CountersHoldWindow
<1>1. SampleInv => CountersHoldWindow
  <2> SUFFICES ASSUME SampleInv, warmup > 0, atHead(<<"sample", 5>>)
               PROVE  ucsr.instCounter \in window..(window + intr)
    BY DEF CountersHoldWindow
  <2>1. DataInv
    BY DEF SampleInv
  <2>2. Len(rob) > 0 /\ rob[1].pc = <<"sample", 5>>
    BY <2>1, EmptyLen DEF atHead, DataInv, PipeInv, PipeTypes
  <2>3. head = <<"sample", 5>>
    BY <2>2 DEF head
  <2>4. ucsr.instCounter >= window /\ ucsr.instCounter <= window + intr
    BY <2>3 DEF SampleInv, CounterInv, inSample
  <2>5. ucsr.instCounter \in Nat /\ window \in Nat /\ intr \in Nat
    BY <2>1 DEF DataInv, CoreTypes, UcsrType, PipeInv, PipeTypes
  <2>6. QED
    BY <2>4, <2>5
<1>2. QED
  BY <1>1, SampleAlways, PTL

(* A slice of warmup + runLength instructions is sampled exactly once      *)
(* before the loader exits.                                                *)
THEOREM ExitIsSampled == Spec => []SampledBeforeExit
<1>1. SampleInv => SampledBeforeExit
  BY DEF SampleInv, ExitInv, SampledBeforeExit
<1>2. QED
  BY <1>1, SampleAlways, PTL
=============================================================================
