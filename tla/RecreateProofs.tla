--------------------------- MODULE RecreateProofs ---------------------------
(***************************************************************************)
(* Proofs about the re-creation of checkpoints and traces, for every table *)
(* of calls, every list of new checkpoints and every replayed program.     *)
(***************************************************************************)
EXTENDS Recreate, SequenceTheorems, TLAPS

-----------------------------------------------------------------------------
(* The fields of a control entry. *)
LEMMA CtrlType ==
  ASSUME NEW k \in Ids
  PROVE  Ctrls[k].start \in Nat /\ Ctrls[k].length \in Nat
<1> DEFINE Entry == [start : Nat \ {0}, length : Nat \ {0}]
<1>1. Ctrls[k] \in Entry
  <2> HIDE DEF Entry
  <2>1. Ctrls \in Seq(Entry)
    BY RecreateAssumption DEF Entry
  <2>2. QED
    BY <2>1 DEF Ids
<1>2. QED
  BY <1>1

(* The number of calls in the table, and the jumps of the program. *)
LEMMA TableType ==
  /\ totalcallnum \in Nat
  /\ \A n \in 1..totalcallnum : CallPcs[n] \in ProgramPc /\ CallPcs[n] + 4 \in Pc
  /\ LoaderPc \notin ProgramPc
  /\ Pc \subseteq ProgramPc /\ ExitPc \in ProgramPc
<1>1. CallPcs \in Seq(Nat) /\ DOMAIN CallPcs = 1..Len(CallPcs) /\ Len(CallPcs) \in Nat
  BY RecreateAssumption
<1>2. QED
  BY <1>1, RecreateAssumption DEF totalcallnum, ProgramPc

(* The objects behind a micro-op of the program before any is closed: the  *)
(* one opened by it is fresh, the others are as they were.                 *)
LEMMA OpenedFields ==
  ASSUME TypeOK
  PROVE  /\ opened \in [Ids -> CkptInfo]
         /\ \A k \in Ids : ~(isCkptStart /\ k = ckptidx + 1) => opened[k] = info[k]
         /\ isCkptStart => /\ ckptidx + 1 \in Ids
                           /\ opened[ckptidx + 1].calls = <<>>
                           /\ opened[ckptidx + 1].from = made
                           /\ opened[ckptidx + 1].seen = {}
<1>1. CASE ~isCkptStart
  BY <1>1 DEF opened, TypeOK
<1>2. CASE isCkptStart
  <2>1. ckptidx + 1 \in Ids
    BY <1>2, RecreateAssumption DEF isCkptStart, TypeOK, Ids
  <2> DEFINE new == [EmptyInfo EXCEPT !.startnum = benchinsts + 1,
                              !.length = Ctrls[ckptidx + 1].length, !.from = made]
  <2>2. opened = [info EXCEPT ![ckptidx + 1] = new] /\ info \in [Ids -> CkptInfo]
    BY <1>2 DEF opened, TypeOK
  <2>3. new \in CkptInfo
    <3>1. Ctrls[ckptidx + 1].length \in Nat /\ benchinsts + 1 \in Nat /\ made \in Nat
      BY <2>1, CtrlType, TableType, RecreateAssumption DEF TypeOK
    <3>2. <<>> \in Seq(Nat)
      OBVIOUS
    <3>3. QED
      BY <3>1, <3>2 DEF EmptyInfo, CkptInfo
  <2>4. new.calls = <<>> /\ new.from = made /\ new.seen = {}
    BY DEF EmptyInfo
  <2> HIDE DEF new
  <2>5. QED
    BY <1>2, <2>1, <2>2, <2>3, <2>4
<1>3. QED
  BY <1>1, <1>2

(* What a micro-op of the program does to the objects. *)
LEMMA BenchFields ==
  ASSUME TypeOK, recordBench, curpc \in ProgramPc
  PROVE  /\ info' \in [Ids -> CkptInfo]
         /\ \A k \in Ids :
              /\ info'[k].calls = opened[k].calls
              /\ info'[k].from = opened[k].from
              /\ k \in over =>
                   /\ info'[k].to = made
                   /\ info'[k].exit_pc = IF strictLength THEN NoPc ELSE curpc
                   /\ info'[k].seen = opened[k].seen
              /\ k \notin over =>
                   /\ info'[k].to = opened[k].to
                   /\ info'[k].exit_pc = opened[k].exit_pc
                   /\ info'[k].seen = opened[k].seen
                                        \cup IF k \in pending THEN {curpc} ELSE {}
<1> DEFINE new(k) == IF k \in over
                  THEN [opened[k] EXCEPT !.to = made,
                          !.exit_pc = IF strictLength THEN NoPc ELSE curpc]
                  ELSE IF k \in pending THEN [opened[k] EXCEPT !.seen = @ \cup {curpc}]
                  ELSE opened[k]
<1>1. info' = [k \in Ids |-> new(k)]
  BY DEF recordBench
<1>2. opened \in [Ids -> CkptInfo]
  BY OpenedFields
<1>3. made \in Nat
  BY TableType DEF TypeOK
<1> HIDE DEF opened, over
<1>4. ASSUME NEW k \in Ids PROVE new(k) \in CkptInfo
  <2>1. opened[k] \in CkptInfo
    BY <1>2
  <2>2. CASE k \in over
    BY <1>3, <2>1, <2>2 DEF CkptInfo
  <2>3. CASE k \notin over
    BY <2>1, <2>3 DEF CkptInfo
  <2>4. QED
    BY <2>2, <2>3
<1>5. info' \in [Ids -> CkptInfo]
  BY <1>1, <1>4
<1>6. ASSUME NEW k \in Ids
      PROVE  /\ info'[k].calls = opened[k].calls
             /\ info'[k].from = opened[k].from
             /\ k \in over =>
                  /\ info'[k].to = made
                  /\ info'[k].exit_pc = IF strictLength THEN NoPc ELSE curpc
                  /\ info'[k].seen = opened[k].seen
             /\ k \notin over =>
                  /\ info'[k].to = opened[k].to
                  /\ info'[k].exit_pc = opened[k].exit_pc
                  /\ info'[k].seen = opened[k].seen
                                       \cup IF k \in pending THEN {curpc} ELSE {}
  <2>1. opened[k] \in CkptInfo /\ info'[k] = new(k)
    BY <1>1, <1>2
  <2>2. QED
    BY <2>1 DEF CkptInfo
<1>7. QED
  BY <1>5, <1>6

(* What the first loader micro-op behind the program does to them. *)
LEMMA InsertFields ==
  ASSUME TypeOK, info' = ckpt_insert_syscall(takeSysNum)
  PROVE  /\ info' \in [Ids -> CkptInfo]
         /\ \A k \in Ids :
              /\ info'[k].from = info[k].from
              /\ info'[k].to = info[k].to
              /\ info'[k].exit_pc = info[k].exit_pc
              /\ k \in pending /\ takeSysNum < totalcallnum =>
                   /\ info'[k].calls = Append(info[k].calls, takeSysNum + 1)
                   /\ info'[k].seen = {}
              /\ ~(k \in pending /\ takeSysNum < totalcallnum) => info'[k] = info[k]
<1> DEFINE new(k) == IF k \in pending /\ takeSysNum < totalcallnum
       THEN [info[k] EXCEPT !.calls = Append(@, takeSysNum + 1), !.seen = {}]
       ELSE info[k]
<1>1. info' = [k \in Ids |-> new(k)]
  BY DEF ckpt_insert_syscall
<1>2. \A k \in Ids : info[k] \in CkptInfo
  BY DEF TypeOK
<1>3. ASSUME NEW k \in Ids PROVE new(k) \in CkptInfo
  <2>1. info[k] \in CkptInfo /\ takeSysNum + 1 \in Nat
    BY <1>2 DEF TypeOK
  <2>2. Append(info[k].calls, takeSysNum + 1) \in Seq(Nat)
    BY <2>1 DEF CkptInfo
  <2>3. QED
    BY <2>1, <2>2 DEF CkptInfo
<1>4. info' \in [Ids -> CkptInfo]
  BY <1>1, <1>3
<1>5. ASSUME NEW k \in Ids
      PROVE  /\ info'[k].from = info[k].from
             /\ info'[k].to = info[k].to
             /\ info'[k].exit_pc = info[k].exit_pc
             /\ k \in pending /\ takeSysNum < totalcallnum =>
                  /\ info'[k].calls = Append(info[k].calls, takeSysNum + 1)
                  /\ info'[k].seen = {}
             /\ ~(k \in pending /\ takeSysNum < totalcallnum) => info'[k] = info[k]
  <2>1. info[k] \in CkptInfo /\ info'[k] = new(k)
    BY <1>1, <1>2
  <2>2. QED
    BY <2>1 DEF CkptInfo
<1>6. QED
  BY <1>4, <1>5

-----------------------------------------------------------------------------
(* tick() infers calls from a change of code, so what matters is that its  *)
(* own count follows the program's: it is behind only between the jump     *)
(* into the loader and the loader's first micro-op, and the program does   *)
(* not run again once all calls and the exit jump were made.               *)
CountInv ==
  /\ TypeOK
  /\ last_isBenchInst /\ curpc = LoaderPc => made = takeSysNum + 1
  /\ ~(last_isBenchInst /\ curpc = LoaderPc) => made = takeSysNum
  /\ curpc # LoaderPc => made <= totalcallnum
  /\ NoTableOverflow

(* A micro-op of the program keeps CountInv. *)
LEMMA BenchCount ==
  ASSUME CountInv, NEW next \in Pc \cup {LoaderPc, jumpPc}, BenchInst(next)
  PROVE  CountInv'
<1>1. /\ TypeOK /\ made = takeSysNum /\ made <= totalcallnum /\ NoTableOverflow
      /\ curpc \in ProgramPc /\ curpc # LoaderPc
  BY DEF CountInv, BenchInst, isCkptInst, TypeOK
<1>2. /\ recordBench
      /\ curpc' = next /\ next \in successors
      /\ UNCHANGED <<strictLength, isCompressed, takeSysNum>>
      /\ benchinsts < MaxBench
  BY DEF BenchInst
<1>3. /\ benchinsts' = benchinsts + 1
      /\ last_isBenchInst' = TRUE
      /\ ckptidx' = IF isCkptStart THEN ckptidx + 1 ELSE ckptidx
      /\ pending' \subseteq openIds
      /\ preinsts' \subseteq preinsts \cup {curpc}
      /\ made' = IF isJump THEN made + 1 ELSE made
      /\ status' \in {"created", status}
  BY <1>2 DEF recordBench
<1>4. jumpPc \in ProgramPc
  BY <1>1, TableType DEF jumpPc, TypeOK
<1>5. info' \in [Ids -> CkptInfo]
  BY <1>1, <1>2, BenchFields
<1>6. pending' \subseteq 1..ckptidx' /\ ckptidx' \in 0..Len(Ctrls)
  BY <1>1, <1>3, RecreateAssumption DEF openIds, isCkptStart, TypeOK
<1>7. curpc' \in ProgramPc \cup {LoaderPc}
  BY <1>2, <1>4, TableType
<1>8. benchinsts' \in 0..MaxBench
  BY <1>1, <1>2, <1>3, RecreateAssumption DEF TypeOK
<1>9. made' \in 0..(totalcallnum + 1)
  BY <1>1, <1>3, TableType DEF TypeOK
<1>10. TypeOK'
  BY <1>1, <1>2, <1>3, <1>5, <1>6, <1>7, <1>8, <1>9 DEF TypeOK
<1>11. curpc' = LoaderPc <=> isJump
  BY <1>2, <1>4, TableType DEF successors
<1>12. /\ last_isBenchInst' /\ curpc' = LoaderPc => made' = takeSysNum' + 1
       /\ ~(last_isBenchInst' /\ curpc' = LoaderPc) => made' = takeSysNum'
       /\ curpc' # LoaderPc => made' <= totalcallnum
  BY <1>1, <1>2, <1>3, <1>11, TableType DEF TypeOK
<1>13. NoTableOverflow'
  BY <1>1, <1>3 DEF NoTableOverflow
<1>14. QED
  BY <1>10, <1>12, <1>13 DEF CountInv, totalcallnum

(* A micro-op of the loader keeps CountInv. *)
LEMMA LoaderCount ==
  ASSUME CountInv, NEW next \in Pc \cup {LoaderPc, jumpPc}, LoaderInst(next)
  PROVE  CountInv'
<1>1. /\ TypeOK /\ NoTableOverflow /\ curpc = LoaderPc
      /\ last_isBenchInst => made = takeSysNum + 1
      /\ ~last_isBenchInst => made = takeSysNum
      /\ takeSysNum \in Nat /\ made \in 0..(totalcallnum + 1)
  BY DEF CountInv, LoaderInst, isCkptInst, TypeOK
<1>2. /\ last_isBenchInst' = FALSE
      /\ curpc' = next
      /\ next \in {LoaderPc} \cup
           (IF made = 0 THEN Pc \cup {jumpPc}
            ELSE IF made <= totalcallnum THEN {CallPcs[made] + 4} ELSE {})
      /\ UNCHANGED <<strictLength, isCompressed, benchinsts, ckptidx, pending, made>>
      /\ last_isBenchInst => /\ takeSysNum' = takeSysNum + 1
                             /\ preinsts' = {}
                             /\ info' = ckpt_insert_syscall(takeSysNum)
                             /\ status' = IF overflow(takeSysNum) THEN "overflow" ELSE status
      /\ ~last_isBenchInst => UNCHANGED <<takeSysNum, preinsts, info, status>>
  BY DEF LoaderInst, takeSyscall
<1>3. jumpPc \in ProgramPc
  BY <1>1, TableType DEF jumpPc, TypeOK
<1>4. curpc' \in ProgramPc \cup {LoaderPc}
  BY <1>1, <1>2, <1>3, TableType
<1>5. info' \in [Ids -> CkptInfo]
  BY <1>1, <1>2, InsertFields DEF TypeOK
<1>6. takeSysNum' \in Nat /\ made' = takeSysNum'
  BY <1>1, <1>2
<1>7. curpc' # LoaderPc => made' <= totalcallnum
  BY <1>1, <1>2, TableType
<1>8. status' = status
  BY <1>1, <1>2, TableType DEF overflow
<1>9. TypeOK'
  BY <1>1, <1>2, <1>4, <1>5, <1>6, <1>8 DEF TypeOK, totalcallnum
<1>10. ~(last_isBenchInst' /\ curpc' = LoaderPc) /\ made' = takeSysNum'
  BY <1>2, <1>6
<1>11. NoTableOverflow'
  BY <1>1, <1>8 DEF NoTableOverflow
<1>12. QED
  BY <1>7, <1>9, <1>10, <1>11 DEF CountInv, totalcallnum

(* CountInv holds throughout every run. *)
THEOREM CountCorrect == Spec => []CountInv
<1>1. Init => CountInv
  <2> SUFFICES ASSUME Init PROVE CountInv
    OBVIOUS
  <2>1. EmptyInfo \in CkptInfo
    BY EmptySeq DEF EmptyInfo, CkptInfo
  <2>2. info \in [Ids -> CkptInfo]
    BY <2>1 DEF Init
  <2>3. TypeOK
    <3>1. Len(Ctrls) \in Nat /\ MaxBench \in Nat /\ totalcallnum \in Nat
      BY TableType, RecreateAssumption
    <3>2. strictLength \in BOOLEAN /\ last_isBenchInst \in BOOLEAN
      BY Zenon DEF Init
    <3>3. /\ curpc \in ProgramPc \cup {LoaderPc}
          /\ benchinsts \in 0..MaxBench
          /\ takeSysNum \in Nat
          /\ preinsts \subseteq ProgramPc
          /\ pending \subseteq 1..ckptidx /\ ckptidx \in 0..Len(Ctrls)
          /\ made \in 0..(totalcallnum + 1)
          /\ status \in {"run", "exited", "created", "traced", "overflow"}
      BY <3>1 DEF Init
    <3>4. QED
      BY <2>2, <3>2, <3>3 DEF TypeOK
  <2>4. QED
    BY <2>3, TableType DEF Init, CountInv, NoTableOverflow
<1>2. CountInv /\ [Next]_vars => CountInv'
  <2> SUFFICES ASSUME CountInv, [Next]_vars PROVE CountInv'
    OBVIOUS
  <2>1. ASSUME NEW next \in Pc \cup {LoaderPc, jumpPc}, BenchInst(next) PROVE CountInv'
    BY <2>1, BenchCount
  <2>2. ASSUME NEW next \in Pc \cup {LoaderPc, jumpPc}, LoaderInst(next) PROVE CountInv'
    BY <2>2, LoaderCount
  <2>3. CASE TraceExit
    BY <2>3 DEF TraceExit, ckptVars, CountInv, TypeOK, NoTableOverflow, totalcallnum
  <2>4. CASE LoaderExit
    BY <2>4 DEF LoaderExit, ckptVars, CountInv, TypeOK, NoTableOverflow, totalcallnum
  <2>5. CASE UNCHANGED vars
    BY <2>5 DEF vars, ckptVars, CountInv, TypeOK, NoTableOverflow, totalcallnum
  <2>6. QED
    BY <2>1, <2>2, <2>3, <2>4, <2>5 DEF Next
<1>3. QED
  BY <1>1, <1>2, PTL DEF Spec

(* The state of the re-creation keeps its types. *)
THEOREM TypeCorrect == Spec => []TypeOK
<1>1. CountInv => TypeOK
  BY DEF CountInv
<1>2. QED
  BY <1>1, CountCorrect, PTL

(* Whatever the program does between its calls, the table of the first     *)
(* checkpoint never runs out: exit(1) for an overflow is not reached.      *)
THEOREM TableNeverOverflows == Spec => []NoTableOverflow
<1>1. CountInv => NoTableOverflow
  BY DEF CountInv
<1>2. QED
  BY <1>1, CountCorrect, PTL

-----------------------------------------------------------------------------
(* The calls behind number from, n of them. *)
Calls(from, n) == [i \in 1..n |-> from + i]

(* Copying the next entry of the table extends them by one. *)
LEMMA NextCall ==
  ASSUME NEW from \in Nat, NEW n \in Nat
  PROVE  Append(Calls(from, n), from + n + 1) = Calls(from, n + 1)
<1> DEFINE a == Append(Calls(from, n), from + n + 1)
           b == Calls(from, n + 1)
<1>1. /\ Calls(from, n) \in Seq(Nat)
      /\ Len(Calls(from, n)) = n
      /\ \A i \in 1..n : Calls(from, n)[i] = from + i
  BY DEF Calls
<1>2. /\ a \in Seq(Nat) /\ Len(a) = n + 1
      /\ \A i \in 1..(n + 1) : a[i] = from + i
  <2>1. from + n + 1 \in Nat
    OBVIOUS
  <2>2. /\ a \in Seq(Nat) /\ Len(a) = Len(Calls(from, n)) + 1
        /\ \A i \in 1..Len(Calls(from, n)) : a[i] = Calls(from, n)[i]
        /\ a[Len(Calls(from, n)) + 1] = from + n + 1
    BY <1>1, <2>1, AppendProperties
  <2> HIDE DEF a
  <2>3. QED
    BY <1>1, <2>2
<1>3. /\ b \in Seq(Nat) /\ Len(b) = n + 1
      /\ \A i \in 1..(n + 1) : b[i] = from + i
  BY DEF Calls
<1> HIDE DEF a, b
<1>4. a = b
  BY <1>2, <1>3, SeqEqual
<1>5. QED
  BY <1>4 DEF a, b

(* A slice that opens has no calls yet. *)
LEMMA NoCalls ==
  ASSUME NEW from \in Nat
  PROVE  Calls(from, 0) = <<>>
  BY DEF Calls

(* An open slice has every call since its start. *)
SliceCalls ==
  \A k \in pending :
    /\ info[k].from <= takeSysNum
    /\ takeSysNum <= totalcallnum =>
         info[k].calls = Calls(info[k].from, takeSysNum - info[k].from)

SavedCalls ==
  \A k \in saved : info[k].calls = Calls(info[k].from, info[k].to - info[k].from)

CallsInv == CountInv /\ SliceCalls /\ SavedCalls

(* A program micro-op records no call; a checkpoint that starts with it    *)
(* begins behind the calls made so far.                                    *)
LEMMA BenchCalls ==
  ASSUME CallsInv, NEW next \in Pc \cup {LoaderPc, jumpPc}, BenchInst(next)
  PROVE  SliceCalls' /\ SavedCalls'
<1>1. /\ TypeOK /\ TypeOK' /\ SliceCalls /\ SavedCalls
      /\ made = takeSysNum /\ takeSysNum <= totalcallnum
      /\ curpc \in ProgramPc /\ made \in Nat /\ totalcallnum \in Nat
  BY BenchCount, TableType DEF CallsInv, CountInv, BenchInst, isCkptInst, TypeOK
<1>2. recordBench /\ takeSysNum' = takeSysNum
  BY DEF BenchInst
<1>3. /\ ckptidx' = IF isCkptStart THEN ckptidx + 1 ELSE ckptidx
      /\ pending' = openIds \ over
  BY <1>2 DEF recordBench
<1>4. /\ ckptidx \in Nat /\ pending \subseteq 1..ckptidx /\ 1..ckptidx' \subseteq Ids
      /\ pending' \subseteq 1..ckptidx'
  BY <1>1, RecreateAssumption, SMTT(30) DEF TypeOK, Ids
<1>5. \A k \in Ids : /\ info'[k].calls = opened[k].calls
                     /\ info'[k].from = opened[k].from
                     /\ k \in over => info'[k].to = made
                     /\ k \notin over => info'[k].to = opened[k].to
  BY <1>1, <1>2, BenchFields
<1>6. /\ \A k \in Ids : ~(isCkptStart /\ k = ckptidx + 1) => opened[k] = info[k]
      /\ isCkptStart => /\ ckptidx + 1 \in Ids
                        /\ opened[ckptidx + 1].calls = <<>>
                        /\ opened[ckptidx + 1].from = made
  BY <1>1, OpenedFields
<1>7. ASSUME NEW k \in openIds
      PROVE  /\ k \in Ids
             /\ info'[k].from <= takeSysNum
             /\ info'[k].calls = Calls(info'[k].from, takeSysNum - info'[k].from)
  <2>1. CASE isCkptStart /\ k = ckptidx + 1
    <3>1. takeSysNum - made = 0 /\ made <= takeSysNum
      BY <1>1
    <3>2. info'[k].from = made /\ info'[k].calls = <<>> /\ k \in Ids
      BY <1>5, <1>6, <2>1
    <3>3. QED
      BY <1>1, <3>1, <3>2, NoCalls
  <2>2. CASE ~(isCkptStart /\ k = ckptidx + 1)
    <3>1. k \in pending /\ k \in Ids
      BY <1>3, <1>4, <2>2 DEF openIds
    <3>2. opened[k] = info[k]
      BY <1>6, <2>2, <3>1
    <3>3. QED
      BY <1>1, <1>5, <3>1, <3>2 DEF SliceCalls
  <2>3. QED
    BY <2>1, <2>2
<1>8. SliceCalls'
  BY <1>2, <1>3, <1>7 DEF SliceCalls
<1>9. ASSUME NEW k \in saved'
      PROVE  info'[k].calls = Calls(info'[k].from, info'[k].to - info'[k].from)
  <2>1. k \in 1..ckptidx' /\ k \notin pending' /\ k \in Ids
    BY <1>4 DEF saved
  <2>2. CASE k \in over
    <3>1. k \in openIds
      BY <2>2 DEF over
    <3>2. info'[k].to = takeSysNum
      BY <1>1, <1>5, <2>1, <2>2
    <3>3. QED
      BY <1>7, <3>1, <3>2
  <2>3. CASE k \notin over
    <3>1. k \notin pending /\ ~(isCkptStart /\ k = ckptidx + 1)
      BY <1>3, <2>1, <2>3 DEF openIds
    <3>2. k \in saved
      BY <1>3, <1>4, <2>1, <3>1 DEF saved
    <3>3. opened[k] = info[k]
      BY <1>6, <2>1, <3>1
    <3>4. QED
      BY <1>1, <1>5, <2>1, <2>3, <3>2, <3>3 DEF SavedCalls
  <2>4. QED
    BY <2>2, <2>3
<1>10. QED
  BY <1>8, <1>9 DEF SavedCalls

(* The first loader micro-op behind a program micro-op gives its call to   *)
(* every open checkpoint, the others to none.                              *)
LEMMA LoaderCalls ==
  ASSUME CallsInv, NEW next \in Pc \cup {LoaderPc, jumpPc}, LoaderInst(next)
  PROVE  SliceCalls' /\ SavedCalls'
<1>1. /\ TypeOK /\ SliceCalls /\ SavedCalls /\ totalcallnum \in Nat /\ takeSysNum \in Nat
  BY TableType DEF CallsInv, CountInv, TypeOK
<1>2. /\ ckptidx' = ckptidx /\ pending' = pending
      /\ last_isBenchInst => /\ takeSysNum' = takeSysNum + 1
                             /\ info' = ckpt_insert_syscall(takeSysNum)
      /\ ~last_isBenchInst => UNCHANGED <<takeSysNum, info>>
  BY DEF LoaderInst, takeSyscall
<1>3. saved' = saved
  BY <1>2 DEF saved
<1>4. pending \subseteq Ids /\ saved \subseteq Ids /\ saved \cap pending = {}
  BY <1>1, RecreateAssumption DEF TypeOK, Ids, saved
<1>5. CASE ~last_isBenchInst
  BY <1>1, <1>2, <1>3, <1>5 DEF SliceCalls, SavedCalls, totalcallnum
<1>6. CASE last_isBenchInst
  <2>1. \A k \in Ids :
          /\ info'[k].from = info[k].from
          /\ info'[k].to = info[k].to
          /\ k \in pending /\ takeSysNum < totalcallnum =>
               info'[k].calls = Append(info[k].calls, takeSysNum + 1)
          /\ ~(k \in pending /\ takeSysNum < totalcallnum) => info'[k] = info[k]
    BY <1>1, <1>2, <1>6, InsertFields
  <2>2. takeSysNum' = takeSysNum + 1
    BY <1>2, <1>6
  <2>3. SavedCalls'
    BY <1>1, <1>3, <1>4, <2>1 DEF SavedCalls
  <2>4. ASSUME NEW k \in pending
        PROVE  /\ info'[k].from <= takeSysNum'
               /\ takeSysNum' <= totalcallnum =>
                    info'[k].calls = Calls(info'[k].from, takeSysNum' - info'[k].from)
    <3>1. k \in Ids /\ info'[k].from = info[k].from /\ info[k].from \in Nat
      BY <1>1, <1>4, <2>1 DEF TypeOK, CkptInfo
    <3>2. info[k].from <= takeSysNum
      BY <1>1 DEF SliceCalls
    <3>3. CASE takeSysNum' <= totalcallnum
      <4>1. takeSysNum < totalcallnum /\ takeSysNum <= totalcallnum
        BY <1>1, <2>2, <3>3
      <4>2. info[k].calls = Calls(info[k].from, takeSysNum - info[k].from)
        BY <1>1, <4>1 DEF SliceCalls
      <4>3. info'[k].calls = Append(info[k].calls, takeSysNum + 1)
        BY <2>1, <3>1, <4>1
      <4> DEFINE n == takeSysNum - info[k].from
      <4>4. n \in Nat /\ info[k].from + n + 1 = takeSysNum + 1
            /\ n + 1 = takeSysNum' - info[k].from
        BY <1>1, <2>2, <3>1, <3>2
      <4>5. Append(Calls(info[k].from, n), info[k].from + n + 1) = Calls(info[k].from, n + 1)
        BY <3>1, <4>4, NextCall
      <4>6. info'[k].calls = Calls(info'[k].from, takeSysNum' - info'[k].from)
        BY <3>1, <4>2, <4>3, <4>4, <4>5
      <4>7. QED
        BY <1>1, <2>2, <3>1, <3>2, <4>6
    <3>4. QED
      BY <1>1, <2>2, <3>1, <3>2, <3>3
  <2>5. SliceCalls'
    <3>1. totalcallnum' = totalcallnum
      BY DEF totalcallnum
    <3>2. \A k \in pending' :
            /\ info'[k].from <= takeSysNum'
            /\ takeSysNum' <= totalcallnum =>
                 info'[k].calls = Calls(info'[k].from, takeSysNum' - info'[k].from)
      BY <1>2, <2>4
    <3>3. QED
      BY <3>1, <3>2 DEF SliceCalls
  <2>6. QED
    BY <2>3, <2>5
<1>7. QED
  BY <1>5, <1>6

(* Every new checkpoint has exactly the calls of its slice, for every      *)
(* table, every overlap of the new checkpoints and every program.          *)
THEOREM CallsExact == Spec => []CallsOfSlice
<1>1. Init => SliceCalls /\ SavedCalls
  BY DEF Init, SliceCalls, SavedCalls, saved
<1>2. CallsInv /\ [Next]_vars => (SliceCalls /\ SavedCalls)'
  <2> SUFFICES ASSUME CallsInv, [Next]_vars PROVE SliceCalls' /\ SavedCalls'
    OBVIOUS
  <2>0. SliceCalls /\ SavedCalls
    BY DEF CallsInv
  <2>1. ASSUME NEW next \in Pc \cup {LoaderPc, jumpPc}, BenchInst(next)
        PROVE  SliceCalls' /\ SavedCalls'
    BY <2>1, BenchCalls
  <2>2. ASSUME NEW next \in Pc \cup {LoaderPc, jumpPc}, LoaderInst(next)
        PROVE  SliceCalls' /\ SavedCalls'
    BY <2>2, LoaderCalls
  <2>3. CASE TraceExit
    BY <2>0, <2>3 DEF TraceExit, ckptVars, SliceCalls, SavedCalls, saved, totalcallnum
  <2>4. CASE LoaderExit
    BY <2>0, <2>4 DEF LoaderExit, ckptVars, SliceCalls, SavedCalls, saved, totalcallnum
  <2>5. CASE UNCHANGED vars
    BY <2>0, <2>5 DEF vars, ckptVars, SliceCalls, SavedCalls, saved, totalcallnum
  <2>6. QED
    BY <2>1, <2>2, <2>3, <2>4, <2>5 DEF Next
<1>3. SliceCalls /\ SavedCalls => CallsOfSlice
  BY DEF SliceCalls, SavedCalls, CallsOfSlice, Calls
<1>4. QED
  BY <1>1, <1>2, <1>3, CountCorrect, PTL DEF Spec, CallsInv

-----------------------------------------------------------------------------
(* As in the recorder, what an open slice has executed since its last call *)
(* and could have been its exit is in preinsts.  It holds only until the   *)
(* exit jump of the replayed checkpoint, which empties preinsts without    *)
(* being a call of any slice; the program does not run any more then.      *)
PreinstsCover ==
  ~strictLength /\ takeSysNum <= totalcallnum =>
    \A k \in pending : info[k].seen \ isCompressed \subseteq preinsts

ExitInv == CountInv /\ PreinstsCover /\ NewExitFirst

(* A program micro-op: what the open slices have seen stays in preinsts,   *)
(* so the exit instruction that is chosen is new.                          *)
LEMMA BenchExit ==
  ASSUME ExitInv, NEW next \in Pc \cup {LoaderPc, jumpPc}, BenchInst(next)
  PROVE  PreinstsCover' /\ NewExitFirst'
<1>1. /\ TypeOK /\ TypeOK' /\ PreinstsCover /\ NewExitFirst
      /\ takeSysNum <= totalcallnum /\ curpc \in ProgramPc
  BY BenchCount, TableType DEF ExitInv, CountInv, BenchInst, isCkptInst, TypeOK
<1>0. Len(Ctrls) \in Nat
  BY RecreateAssumption
<1>2. /\ recordBench
      /\ UNCHANGED <<strictLength, isCompressed, takeSysNum>>
  BY DEF BenchInst
<1>3. /\ ckptidx' = IF isCkptStart THEN ckptidx + 1 ELSE ckptidx
      /\ pending' = openIds \ over
      /\ preinsts' = IF pending # {} /\ curpc \notin isCompressed /\ ~strictLength
                       THEN preinsts \cup {curpc} ELSE preinsts
  BY <1>2 DEF recordBench
<1>4. /\ ckptidx \in Nat /\ pending \subseteq 1..ckptidx /\ 1..ckptidx' \subseteq Ids
      /\ pending' \subseteq 1..ckptidx'
  BY <1>0, <1>1 DEF TypeOK, Ids
<1>5. \A k \in Ids :
        /\ k \in over =>
             /\ info'[k].exit_pc = IF strictLength THEN NoPc ELSE curpc
             /\ info'[k].seen = opened[k].seen
        /\ k \notin over =>
             /\ info'[k].exit_pc = opened[k].exit_pc
             /\ info'[k].seen = opened[k].seen \cup IF k \in pending THEN {curpc} ELSE {}
  BY <1>1, <1>2, BenchFields
<1>6. /\ \A k \in Ids : ~(isCkptStart /\ k = ckptidx + 1) => opened[k] = info[k]
      /\ isCkptStart => ckptidx + 1 \in Ids /\ opened[ckptidx + 1].seen = {}
  BY <1>1, OpenedFields
<1>7. SUFFICES ASSUME ~strictLength
               PROVE  /\ \A k \in pending' : info'[k].seen \ isCompressed \subseteq preinsts'
                      /\ \A k \in saved' : info'[k].exit_pc \notin info'[k].seen
  BY <1>2 DEF PreinstsCover, NewExitFirst
<1>8. \A k \in pending : info[k].seen \ isCompressed \subseteq preinsts
  BY <1>1, <1>7 DEF PreinstsCover
<1>9. ASSUME NEW k \in pending' PROVE info'[k].seen \ isCompressed \subseteq preinsts'
  <2>1. k \in Ids /\ k \notin over /\ k \in openIds
    BY <1>3, <1>4
  <2>2. CASE k \in pending
    <3>1. opened[k] = info[k]
      BY <1>4, <1>6, <2>1, <2>2
    <3>2. info'[k].seen = info[k].seen \cup {curpc}
      BY <1>5, <2>1, <2>2, <3>1
    <3>3. info[k].seen \ isCompressed \subseteq preinsts
      BY <1>8, <2>2
    <3>4. preinsts' = IF curpc \notin isCompressed THEN preinsts \cup {curpc} ELSE preinsts
      BY <1>3, <1>7, <2>2
    <3>5. QED
      BY <3>2, <3>3, <3>4
  <2>3. CASE k \notin pending
    <3>1. isCkptStart /\ k = ckptidx + 1
      BY <2>1, <2>3 DEF openIds
    <3>2. info'[k].seen = {}
      BY <1>5, <1>6, <2>1, <2>3, <3>1
    <3>3. QED
      BY <3>2
  <2>4. QED
    BY <2>2, <2>3
<1>10. ASSUME NEW k \in saved' PROVE info'[k].exit_pc \notin info'[k].seen
  <2>1. k \in 1..ckptidx' /\ k \notin pending' /\ k \in Ids
    BY <1>4 DEF saved
  <2>2. CASE k \in over
    <3>1. curpc \notin isCompressed /\ curpc \notin preinsts /\ k \in openIds
      BY <1>7, <2>2 DEF over, isExitInst
    <3>2. info'[k].exit_pc = curpc /\ info'[k].seen = opened[k].seen
      BY <1>5, <1>7, <2>1, <2>2
    <3>3. CASE isCkptStart /\ k = ckptidx + 1
      BY <1>6, <3>2, <3>3
    <3>4. CASE ~(isCkptStart /\ k = ckptidx + 1)
      <4>1. k \in pending /\ opened[k] = info[k]
        BY <1>6, <2>1, <3>1, <3>4 DEF openIds
      <4>2. QED
        BY <1>8, <3>1, <3>2, <4>1
    <3>5. QED
      BY <3>3, <3>4
  <2>3. CASE k \notin over
    <3>1. k \notin pending /\ ~(isCkptStart /\ k = ckptidx + 1)
      BY <1>3, <2>1, <2>3 DEF openIds
    <3>2. k \in saved /\ opened[k] = info[k]
      BY <1>3, <1>4, <1>6, <2>1, <3>1 DEF saved
    <3>3. info'[k].exit_pc = info[k].exit_pc /\ info'[k].seen = info[k].seen
      BY <1>5, <2>1, <2>3, <3>1, <3>2
    <3>4. QED
      BY <1>1, <1>7, <3>2, <3>3 DEF NewExitFirst
  <2>4. QED
    BY <2>2, <2>3
<1>11. QED
  BY <1>9, <1>10

(* A loader micro-op empties preinsts and what the slices have seen        *)
(* together, or touches neither.                                           *)
LEMMA LoaderExitInv ==
  ASSUME ExitInv, NEW next \in Pc \cup {LoaderPc, jumpPc}, LoaderInst(next)
  PROVE  PreinstsCover' /\ NewExitFirst'
<1>1. /\ TypeOK /\ PreinstsCover /\ NewExitFirst /\ totalcallnum \in Nat /\ takeSysNum \in Nat
  BY TableType DEF ExitInv, CountInv, TypeOK
<1>2. /\ ckptidx' = ckptidx /\ pending' = pending
      /\ strictLength' = strictLength /\ isCompressed' = isCompressed
      /\ last_isBenchInst => /\ takeSysNum' = takeSysNum + 1
                             /\ preinsts' = {}
                             /\ info' = ckpt_insert_syscall(takeSysNum)
      /\ ~last_isBenchInst => UNCHANGED <<takeSysNum, info, preinsts>>
  BY DEF LoaderInst, takeSyscall
<1>3. saved' = saved
  BY <1>2 DEF saved
<1>4. pending \subseteq Ids /\ saved \subseteq Ids /\ saved \cap pending = {}
  BY <1>1, RecreateAssumption DEF TypeOK, Ids, saved
<1>5. CASE ~last_isBenchInst
  BY <1>1, <1>2, <1>3, <1>5 DEF PreinstsCover, NewExitFirst, totalcallnum
<1>6. CASE last_isBenchInst
  <2>1. \A k \in Ids :
          /\ k \in pending /\ takeSysNum < totalcallnum => info'[k].seen = {}
          /\ ~(k \in pending /\ takeSysNum < totalcallnum) => info'[k] = info[k]
    BY <1>1, <1>2, <1>6, InsertFields
  <2>2. takeSysNum' = takeSysNum + 1
    BY <1>2, <1>6
  <2>3. NewExitFirst'
    BY <1>1, <1>2, <1>3, <1>4, <2>1 DEF NewExitFirst
  <2>4. takeSysNum' <= totalcallnum => takeSysNum < totalcallnum
    BY <1>1, <2>2
  <2>5. PreinstsCover'
    BY <1>2, <1>4, <2>1, <2>4 DEF PreinstsCover, totalcallnum
  <2>6. QED
    BY <2>3, <2>5
<1>7. QED
  BY <1>5, <1>6

(* A replay of a new checkpoint cannot stop early: its exit instruction    *)
(* did not occur in its slice since the last call.                         *)
THEOREM NewExitIsFirst == Spec => []NewExitFirst
<1>1. Init => PreinstsCover /\ NewExitFirst
  BY DEF Init, PreinstsCover, NewExitFirst, saved
<1>2. ExitInv /\ [Next]_vars => (PreinstsCover /\ NewExitFirst)'
  <2> SUFFICES ASSUME ExitInv, [Next]_vars PROVE PreinstsCover' /\ NewExitFirst'
    OBVIOUS
  <2>0. PreinstsCover /\ NewExitFirst
    BY DEF ExitInv
  <2>1. ASSUME NEW next \in Pc \cup {LoaderPc, jumpPc}, BenchInst(next)
        PROVE  PreinstsCover' /\ NewExitFirst'
    BY <2>1, BenchExit
  <2>2. ASSUME NEW next \in Pc \cup {LoaderPc, jumpPc}, LoaderInst(next)
        PROVE  PreinstsCover' /\ NewExitFirst'
    BY <2>2, LoaderExitInv
  <2>3. CASE TraceExit
    BY <2>0, <2>3 DEF TraceExit, ckptVars, PreinstsCover, NewExitFirst, saved, totalcallnum
  <2>4. CASE LoaderExit
    BY <2>0, <2>4 DEF LoaderExit, ckptVars, PreinstsCover, NewExitFirst, saved, totalcallnum
  <2>5. CASE UNCHANGED vars
    BY <2>0, <2>5 DEF vars, ckptVars, PreinstsCover, NewExitFirst, saved, totalcallnum
  <2>6. QED
    BY <2>1, <2>2, <2>3, <2>4, <2>5 DEF Next
<1>3. QED
  BY <1>1, <1>2, CountCorrect, PTL DEF Spec, ExitInv

-----------------------------------------------------------------------------
(* The trace recorder.  The settings may hold overlapping intervals, of    *)
(* which it would miss the second; these are the settings for which the    *)
(* promise is made.                                                        *)
DisjointIntervals ==
  \A m, n \in DOMAIN TraceCtrls : m < n => TraceCtrls[m].end <= TraceCtrls[n].start

TraceRecord == [num : Nat, pc : ProgramPc \cup {LoaderPc}]

TraceFile == [open : BOOLEAN, late : BOOLEAN, recs : Seq(TraceRecord)]

(* The first m records of interval n. *)
Recorded(recs, n, m) ==
  /\ Len(recs) = m
  /\ \A i \in 1..m : recs[i].num = TraceCtrls[n].start + i - 1

(* The intervals before the current one are complete, those behind it are  *)
(* empty, and the current one is open exactly when its first micro-op has  *)
(* been counted; logfp is then its file.                                   *)
TraceInv ==
  /\ exeInstNum \in Nat
  /\ ctrlidx \in 1..(Len(TraceCtrls) + 1)
  /\ files \in [DOMAIN TraceCtrls -> TraceFile]
  /\ NoLateRecord
  /\ \A n \in DOMAIN TraceCtrls :
       /\ n < ctrlidx =>
            Recorded(files[n].recs, n, TraceCtrls[n].end - 1 - TraceCtrls[n].start)
       /\ n > ctrlidx => files[n].recs = <<>>
       /\ n = ctrlidx =>
            /\ exeInstNum < TraceCtrls[n].end
            /\ exeInstNum <= TraceCtrls[n].start => files[n].recs = <<>>
            /\ exeInstNum > TraceCtrls[n].start =>
                 /\ logfp = n
                 /\ files[n].open
                 /\ Recorded(files[n].recs, n, exeInstNum - TraceCtrls[n].start)

(* An interval of the settings. *)
LEMMA IntervalType ==
  ASSUME NEW n \in DOMAIN TraceCtrls
  PROVE  /\ TraceCtrls[n].start \in Nat /\ TraceCtrls[n].end \in Nat
         /\ TraceCtrls[n].start < TraceCtrls[n].end
<1> DEFINE Interval == [start : Nat, end : Nat]
<1>1. TraceCtrls[n] \in Interval
  <2> HIDE DEF Interval
  <2>1. TraceCtrls \in Seq(Interval)
    BY TraceAssumption DEF Interval
  <2>2. QED
    BY <2>1
<1>2. QED
  BY <1>1, TraceAssumption

(* The intervals are numbered from 1, and there is one. *)
LEMMA IntervalNumbers ==
  /\ Len(TraceCtrls) \in Nat /\ Len(TraceCtrls) > 0
  /\ DOMAIN TraceCtrls = 1..Len(TraceCtrls)
<1> DEFINE Interval == [start : Nat, end : Nat]
<1>1. TraceCtrls \in Seq(Interval) /\ TraceCtrls # <<>>
  BY TraceAssumption
<1> HIDE DEF Interval
<1>2. QED
  BY <1>1

(* An appended record is the next one. *)
LEMMA RecordedAppend ==
  ASSUME NEW n \in DOMAIN TraceCtrls, NEW recs \in Seq(TraceRecord), NEW m \in Nat,
         Recorded(recs, n, m), NEW r \in TraceRecord, r.num = TraceCtrls[n].start + m
  PROVE  Append(recs, r) \in Seq(TraceRecord) /\ Recorded(Append(recs, r), n, m + 1)
<1> DEFINE a == Append(recs, r)
<1>1. /\ a \in Seq(TraceRecord) /\ Len(a) = m + 1
      /\ \A i \in 1..m : a[i] = recs[i]
      /\ a[m + 1] = r
  BY AppendProperties DEF Recorded
<1>2. TraceCtrls[n].start \in Nat
  BY IntervalType
<1> HIDE DEF a
<1>3. \A i \in 1..m : a[i].num = TraceCtrls[n].start + i - 1
  BY <1>1 DEF Recorded
<1>4. a[m + 1].num = TraceCtrls[n].start + (m + 1) - 1
  BY <1>1, <1>2
<1>5. \A i \in 1..(m + 1) : i \in 1..m \/ i = m + 1
  OBVIOUS
<1>6. Recorded(a, n, m + 1)
  BY <1>1, <1>3, <1>4, <1>5 DEF Recorded
<1>7. QED
  BY <1>1, <1>6 DEF a

(* What need_record does to the files. *)
LEMMA FilesNowFields ==
  ASSUME TraceInv
  PROVE  /\ filesNow \in [DOMAIN TraceCtrls -> TraceFile]
         /\ \A n \in DOMAIN TraceCtrls :
              /\ ~filesNow[n].late
              /\ ~(opens /\ n = ctrlidx) => filesNow[n].recs = files[n].recs
              /\ opens /\ n = ctrlidx => filesNow[n].recs = <<>>
              /\ opens /\ n = ctrlidx /\ ~closes => filesNow[n].open
              /\ ~opens /\ ~closes => filesNow[n].open = files[n].open
<1>1. /\ DOMAIN files = DOMAIN TraceCtrls
      /\ \A n \in DOMAIN TraceCtrls : files[n] \in TraceFile /\ ~files[n].late
  BY DEF TraceInv, NoLateRecord
<1> DEFINE new(n) == IF closes /\ n = logfpNow THEN [files[n] EXCEPT !.open = FALSE]
     ELSE IF opens /\ n = ctrlidx THEN [files[n] EXCEPT !.open = TRUE, !.recs = <<>>]
     ELSE files[n]
<1>2. filesNow = [n \in DOMAIN TraceCtrls |-> new(n)]
  BY <1>1 DEF filesNow
<1>3. <<>> \in Seq(TraceRecord)
  OBVIOUS
<1>4. ASSUME NEW n \in DOMAIN TraceCtrls
      PROVE  /\ new(n) \in TraceFile
             /\ ~new(n).late
             /\ ~(opens /\ n = ctrlidx) => new(n).recs = files[n].recs
             /\ opens /\ n = ctrlidx => new(n).recs = <<>>
             /\ opens /\ n = ctrlidx /\ ~closes => new(n).open
             /\ ~opens /\ ~closes => new(n).open = files[n].open
  <2>1. files[n] \in TraceFile /\ ~files[n].late
    BY <1>1
  <2>2. CASE closes /\ n = logfpNow
    <3>1. opens /\ n = ctrlidx => files[n].recs = <<>>
      BY IntervalType DEF TraceInv, opens
    <3>2. new(n) = [files[n] EXCEPT !.open = FALSE]
      BY <2>2
    <3>3. QED
      BY <2>1, <2>2, <3>1, <3>2 DEF TraceFile
  <2>3. CASE ~(closes /\ n = logfpNow) /\ opens /\ n = ctrlidx
    <3>1. new(n) = [files[n] EXCEPT !.open = TRUE, !.recs = <<>>]
      BY <2>3
    <3>2. QED
      BY <1>3, <2>1, <2>3, <3>1 DEF TraceFile
  <2>4. CASE ~(closes /\ n = logfpNow) /\ ~(opens /\ n = ctrlidx)
    BY <2>1, <2>4
  <2>5. QED
    BY <2>2, <2>3, <2>4
<1> HIDE DEF new
<1>5. QED
  BY <1>2, <1>4

(* When the current interval closes, its file has all its records. *)
LEMMA ClosesComplete ==
  ASSUME TraceInv, closes, ctrlidx \in DOMAIN TraceCtrls
  PROVE  Recorded(filesNow[ctrlidx].recs, ctrlidx,
                  TraceCtrls[ctrlidx].end - 1 - TraceCtrls[ctrlidx].start)
<1> DEFINE c == TraceCtrls[ctrlidx]
<1>1. /\ c.start \in Nat /\ c.end \in Nat /\ c.start < c.end
      /\ exeInstNum \in Nat /\ exeInstNum = c.end - 1
  BY IntervalType DEF TraceInv, closes
<1>2. CASE opens
  <2>1. c.end - 1 - c.start = 0
    BY <1>1, <1>2 DEF opens
  <2>2. filesNow[ctrlidx].recs = <<>>
    BY <1>2, FilesNowFields
  <2>3. QED
    BY <2>1, <2>2 DEF Recorded
<1>3. CASE ~opens
  <2>1. exeInstNum > c.start
    BY <1>1, <1>3 DEF opens
  <2>2. Recorded(files[ctrlidx].recs, ctrlidx, exeInstNum - c.start)
    BY <2>1 DEF TraceInv
  <2>3. filesNow[ctrlidx].recs = files[ctrlidx].recs
    BY <1>3, FilesNowFields
  <2>4. QED
    BY <1>1, <2>2, <2>3
<1>4. QED
  BY <1>2, <1>3

(* A traced micro-op that does not end the simulation. *)
LEMMA TracedStep ==
  ASSUME DisjointIntervals, TraceInv, ctrlidx <= Len(TraceCtrls),
         NEW pc \in ProgramPc \cup {LoaderPc}, pc \in Traced, ~lastTrace(pc), record_traces(pc)
  PROVE  TraceInv' /\ ctrlidx' <= Len(TraceCtrls)
<1>1. /\ exeInstNum' = exeInstNum + 1
      /\ ctrlidx' = ctrlidxNow
      /\ logfp' = logfpNow
      /\ files' = IF inInterval /\ logfpNow # 0 THEN save_traceinfo(pc) ELSE filesNow
  BY DEF record_traces
<1>2. /\ Len(TraceCtrls) \in Nat /\ DOMAIN TraceCtrls = 1..Len(TraceCtrls)
      /\ ctrlidx \in DOMAIN TraceCtrls /\ ctrlidx \in Nat /\ ctrlidx # 0
  BY IntervalNumbers DEF TraceInv
<1> DEFINE c == TraceCtrls[ctrlidx]
<1>3. /\ c.start \in Nat /\ c.end \in Nat /\ c.start < c.end
      /\ exeInstNum \in Nat /\ exeInstNum < c.end
  BY <1>2, IntervalType DEF TraceInv
<1>4. /\ filesNow \in [DOMAIN TraceCtrls -> TraceFile]
      /\ \A n \in DOMAIN TraceCtrls :
           /\ ~filesNow[n].late
           /\ n # ctrlidx => filesNow[n].recs = files[n].recs
           /\ ~opens => filesNow[n].recs = files[n].recs
           /\ ~opens /\ ~closes => filesNow[n].open = files[n].open
      /\ opens => filesNow[ctrlidx].recs = <<>>
      /\ opens /\ ~closes => filesNow[ctrlidx].open
  BY <1>2, FilesNowFields
<1>5. \A n \in DOMAIN TraceCtrls :
        /\ n < ctrlidx =>
             Recorded(files[n].recs, n, TraceCtrls[n].end - 1 - TraceCtrls[n].start)
        /\ n > ctrlidx => files[n].recs = <<>>
  BY DEF TraceInv
<1>6. /\ exeInstNum <= c.start => files[ctrlidx].recs = <<>>
      /\ exeInstNum > c.start =>
           /\ logfp = ctrlidx
           /\ files[ctrlidx].open
           /\ Recorded(files[ctrlidx].recs, ctrlidx, exeInstNum - c.start)
  BY <1>2 DEF TraceInv
<1>7. CASE closes
  <2>1. ctrlidx' = ctrlidx + 1 /\ ctrlidx + 1 \in DOMAIN TraceCtrls
    BY <1>1, <1>2, <1>7 DEF ctrlidxNow, lastTrace
  <2>2. exeInstNum + 1 = c.end
    BY <1>3, <1>7 DEF closes
  <2> DEFINE d == TraceCtrls[ctrlidx + 1]
  <2>3. d.start \in Nat /\ d.end \in Nat /\ d.start < d.end /\ c.end <= d.start
    BY <1>2, <2>1, IntervalType DEF DisjointIntervals
  <2>4. files' = filesNow
    <3>1. ctrlidxNow = ctrlidx + 1
      BY <1>7 DEF ctrlidxNow
    <3>2. ~inInterval
      BY <1>3, <2>2, <2>3, <3>1 DEF inInterval
    <3>3. QED
      BY <1>1, <3>2
  <2>5. Recorded(filesNow[ctrlidx].recs, ctrlidx, c.end - 1 - c.start)
    BY <1>2, <1>7, ClosesComplete
  <2> HIDE DEF c, d
  <2>6. ASSUME NEW n \in DOMAIN TraceCtrls
        PROVE  /\ n < ctrlidx + 1 =>
                    Recorded(files'[n].recs, n, TraceCtrls[n].end - 1 - TraceCtrls[n].start)
               /\ n > ctrlidx + 1 => files'[n].recs = <<>>
               /\ n = ctrlidx + 1 =>
                    /\ exeInstNum + 1 < TraceCtrls[n].end
                    /\ files'[n].recs = <<>>
                    /\ ~(exeInstNum + 1 > TraceCtrls[n].start)
    <3>1. CASE n < ctrlidx
      BY <1>2, <1>4, <1>5, <2>4, <3>1
    <3>2. CASE n = ctrlidx
      BY <1>2, <2>4, <2>5, <3>2 DEF c
    <3>3. CASE n > ctrlidx
      <4>1. files'[n].recs = <<>> /\ ~(n < ctrlidx + 1)
        BY <1>2, <1>4, <1>5, <2>4, <3>3
      <4>2. n = ctrlidx + 1 => /\ exeInstNum + 1 < TraceCtrls[n].end
                               /\ ~(exeInstNum + 1 > TraceCtrls[n].start)
        BY <1>3, <2>2, <2>3 DEF d, c
      <4>3. QED
        BY <4>1, <4>2
    <3>4. QED
      BY <1>2, <3>1, <3>2, <3>3
  <2>7. NoLateRecord'
    BY <1>4, <2>4 DEF NoLateRecord
  <2>8. ctrlidx' \in 1..(Len(TraceCtrls) + 1) /\ ctrlidx' <= Len(TraceCtrls)
    BY <1>2, <2>1
  <2>9. QED
    BY <1>1, <1>3, <1>4, <2>1, <2>4, <2>6, <2>7, <2>8 DEF TraceInv
<1>8. CASE ~closes
  <2>1. ctrlidx' = ctrlidx /\ ctrlidxNow = ctrlidx /\ exeInstNum + 1 < c.end
    BY <1>1, <1>3, <1>8 DEF ctrlidxNow, closes
  <2>2. CASE exeInstNum < c.start
    <3>1. ~opens /\ ~inInterval
      BY <1>3, <2>1, <2>2 DEF opens, inInterval
    <3>2. files' = filesNow /\ \A n \in DOMAIN TraceCtrls : files'[n].recs = files[n].recs
      BY <1>1, <1>4, <3>1
    <3>3. NoLateRecord'
      BY <1>4, <3>2 DEF NoLateRecord
    <3>4. files'[ctrlidx].recs = <<>> /\ ~(exeInstNum + 1 > c.start)
      BY <1>2, <1>3, <1>6, <2>2, <3>2
    <3> HIDE DEF c
    <3>5. \A n \in DOMAIN TraceCtrls :
            /\ n < ctrlidx =>
                 Recorded(files'[n].recs, n, TraceCtrls[n].end - 1 - TraceCtrls[n].start)
            /\ n > ctrlidx => files'[n].recs = <<>>
      BY <1>5, <3>2
    <3>6. QED
      BY <1>1, <1>2, <1>3, <1>4, <2>1, <3>2, <3>3, <3>4, <3>5 DEF TraceInv, c
  <2>3. CASE exeInstNum >= c.start
    <3>1. inInterval /\ logfpNow = ctrlidx
      BY <1>3, <1>6, <2>1, <2>3 DEF inInterval, logfpNow, opens
    <3> DEFINE r == [num |-> exeInstNum, pc |-> pc]
               f == filesNow[logfpNow]
               new == [f EXCEPT !.late = @ \/ ~f.open, !.recs = Append(@, r)]
    <3>2. files' = [filesNow EXCEPT ![logfpNow] = new]
      <4>1. files' = save_traceinfo(pc)
        BY <1>1, <1>2, <3>1
      <4>2. save_traceinfo(pc) = [filesNow EXCEPT ![logfpNow] = new]
        BY DEF save_traceinfo
      <4>3. QED
        BY <4>1, <4>2
    <3>3. f = filesNow[ctrlidx]
      BY <3>1
    <3> HIDE DEF f
    <3>4. f \in TraceFile /\ r \in TraceRecord /\ r.num = exeInstNum
      BY <1>2, <1>3, <1>4, <3>3 DEF TraceRecord
    <3>5. f.open /\ ~f.late /\ Recorded(f.recs, ctrlidx, exeInstNum - c.start)
      <4>1. CASE opens
        <5>1. f.recs = <<>> /\ f.open /\ ~f.late /\ exeInstNum - c.start = 0
          BY <1>2, <1>3, <1>4, <1>8, <3>3, <4>1 DEF opens
        <5>2. QED
          BY <5>1 DEF Recorded
      <4>2. CASE ~opens
        <5>1. exeInstNum > c.start
          BY <1>3, <2>3, <4>2 DEF opens
        <5>2. QED
          BY <1>2, <1>4, <1>6, <1>8, <3>3, <4>2, <5>1
      <4>3. QED
        BY <4>1, <4>2
    <3> HIDE DEF r
    <3>6. /\ Append(f.recs, r) \in Seq(TraceRecord)
          /\ Recorded(Append(f.recs, r), ctrlidx, exeInstNum' - c.start)
      <4>1. exeInstNum - c.start \in Nat /\ r.num = c.start + (exeInstNum - c.start)
            /\ (exeInstNum - c.start) + 1 = exeInstNum' - c.start
        BY <1>1, <1>3, <2>3, <3>4, SMTT(30)
      <4>2. f.recs \in Seq(TraceRecord)
        BY <3>4 DEF TraceFile
      <4> HIDE DEF c
      <4>3. /\ Append(f.recs, r) \in Seq(TraceRecord)
            /\ Recorded(Append(f.recs, r), ctrlidx, (exeInstNum - c.start) + 1)
        BY <1>2, <3>4, <3>5, <4>1, <4>2, RecordedAppend DEF c
      <4>4. QED
        BY <4>1, <4>3
    <3>7. /\ new \in TraceFile /\ ~new.late /\ new.open
          /\ new.recs = Append(f.recs, r)
      BY <3>4, <3>5, <3>6 DEF TraceFile
    <3> HIDE DEF new, c
    <3>8. /\ files' \in [DOMAIN TraceCtrls -> TraceFile]
          /\ files'[ctrlidx] = new
          /\ \A n \in DOMAIN TraceCtrls : n # ctrlidx => files'[n] = filesNow[n]
      BY <1>2, <1>4, <3>1, <3>2, <3>7
    <3>9. NoLateRecord'
      BY <1>4, <3>7, <3>8 DEF NoLateRecord
    <3>10. \A n \in DOMAIN TraceCtrls :
            /\ n < ctrlidx =>
                 Recorded(files'[n].recs, n, TraceCtrls[n].end - 1 - TraceCtrls[n].start)
            /\ n > ctrlidx => files'[n].recs = <<>>
      BY <1>2, <1>4, <1>5, <3>8
    <3>11. /\ logfp' = ctrlidx /\ files'[ctrlidx].open
           /\ Recorded(files'[ctrlidx].recs, ctrlidx, exeInstNum' - c.start)
           /\ ~(exeInstNum' <= c.start)
      <4>1. logfp' = ctrlidx /\ files'[ctrlidx].open
        BY <1>1, <3>1, <3>7, <3>8
      <4>2. Recorded(files'[ctrlidx].recs, ctrlidx, exeInstNum' - c.start)
        BY <3>6, <3>7, <3>8
      <4>3. ~(exeInstNum' <= c.start)
        BY <1>1, <1>3, <2>3
      <4>4. QED
        BY <4>1, <4>2, <4>3
    <3>12. exeInstNum' \in Nat /\ ctrlidx' \in 1..(Len(TraceCtrls) + 1)
           /\ ctrlidx' <= Len(TraceCtrls)
      BY <1>1, <1>2, <1>3, <2>1
    <3>13. ASSUME NEW n \in DOMAIN TraceCtrls, n = ctrlidx'
           PROVE  /\ exeInstNum' < TraceCtrls[n].end
                  /\ ~(exeInstNum' <= TraceCtrls[n].start)
                  /\ logfp' = n /\ files'[n].open
                  /\ Recorded(files'[n].recs, n, exeInstNum' - TraceCtrls[n].start)
      <4>1. n = ctrlidx /\ exeInstNum' = exeInstNum + 1
        BY <1>1, <2>1, <3>13
      <4>2. /\ logfp' = n /\ files'[n].open
            /\ Recorded(files'[n].recs, n, exeInstNum' - TraceCtrls[n].start)
        BY <3>11, <4>1 DEF c
      <4>3. QED
        BY <2>1, <3>11, <4>1, <4>2 DEF c
    <3>14. QED
      BY <2>1, <3>8, <3>9, <3>10, <3>12, <3>13 DEF TraceInv
  <2>4. QED
    BY <1>3, <2>2, <2>3
<1>9. QED
  BY <1>7, <1>8

(* A micro-op that does not end the simulation keeps TraceInv. *)
LEMMA RecordTracesStep ==
  ASSUME DisjointIntervals, TraceInv, ctrlidx <= Len(TraceCtrls),
         NEW pc \in ProgramPc \cup {LoaderPc}, ~lastTrace(pc), record_traces(pc)
  PROVE  TraceInv' /\ ctrlidx' <= Len(TraceCtrls)
<1>1. CASE pc \in Traced
  BY <1>1, TracedStep
<1>2. CASE pc \notin Traced
  BY <1>2 DEF record_traces, traceVars, TraceInv, NoLateRecord
<1>3. QED
  BY <1>1, <1>2

(* The last interval is complete when it ends the simulation. *)
LEMMA CloseLastStep ==
  ASSUME TraceInv, closes, ctrlidx = Len(TraceCtrls), closeLastTrace
  PROVE  TraceInv'
<1>1. /\ files' = filesNow /\ exeInstNum' = exeInstNum /\ ctrlidx' = ctrlidx + 1
  BY DEF closeLastTrace, ctrlidxNow
<1>2. /\ Len(TraceCtrls) \in Nat /\ DOMAIN TraceCtrls = 1..Len(TraceCtrls)
      /\ ctrlidx \in DOMAIN TraceCtrls /\ exeInstNum \in Nat
  BY IntervalNumbers DEF TraceInv
<1>3. /\ filesNow \in [DOMAIN TraceCtrls -> TraceFile]
      /\ \A n \in DOMAIN TraceCtrls :
           ~filesNow[n].late /\ (n # ctrlidx => filesNow[n].recs = files[n].recs)
  BY FilesNowFields
<1>4. NoLateRecord'
  BY <1>1, <1>3 DEF NoLateRecord
<1>5. ASSUME NEW n \in DOMAIN TraceCtrls
      PROVE  /\ n < ctrlidx + 1 /\ ~(n = ctrlidx + 1) /\ ~(n > ctrlidx + 1)
             /\ Recorded(files'[n].recs, n, TraceCtrls[n].end - 1 - TraceCtrls[n].start)
  <2>1. n < ctrlidx + 1 /\ ~(n = ctrlidx + 1) /\ ~(n > ctrlidx + 1)
    BY <1>2
  <2>2. CASE n = ctrlidx
    BY <1>1, <1>2, <2>1, <2>2, ClosesComplete
  <2>3. CASE n # ctrlidx
    <3>1. n < ctrlidx
      BY <1>2, <2>3
    <3>2. QED
      BY <1>1, <1>3, <2>1, <2>3, <3>1 DEF TraceInv
  <2>4. QED
    BY <2>2, <2>3
<1>6. QED
  BY <1>1, <1>2, <1>3, <1>4, <1>5 DEF TraceInv

(* TraceInv holds throughout every run, and an interval is left while the  *)
(* simulation runs.                                                        *)
THEOREM TraceCorrect ==
  DisjointIntervals /\ Spec => [](TraceInv /\ (status = "run" => ctrlidx <= Len(TraceCtrls)))
<1> DEFINE Inv == TraceInv /\ (status = "run" => ctrlidx <= Len(TraceCtrls))
<1>1. Init => Inv
  <2> SUFFICES ASSUME Init PROVE Inv
    OBVIOUS
  <2>1. /\ exeInstNum = 0 /\ ctrlidx = 1
        /\ files = [n \in DOMAIN TraceCtrls |-> [open |-> FALSE, late |-> FALSE, recs |-> <<>>]]
    BY DEF Init, TraceInit
  <2>2. [open |-> FALSE, late |-> FALSE, recs |-> <<>>] \in TraceFile
    BY EmptySeq DEF TraceFile
  <2>3. files \in [DOMAIN TraceCtrls -> TraceFile]
    BY <2>1, <2>2
  <2>4. \A n \in DOMAIN TraceCtrls : files[n].recs = <<>> /\ ~files[n].late
    BY <2>1
  <2>5. Len(TraceCtrls) \in Nat /\ Len(TraceCtrls) > 0 /\ DOMAIN TraceCtrls = 1..Len(TraceCtrls)
    BY IntervalNumbers
  <2>6. \A n \in DOMAIN TraceCtrls : /\ ~(n < ctrlidx)
                                     /\ exeInstNum < TraceCtrls[n].end
                                     /\ ~(exeInstNum > TraceCtrls[n].start)
    BY <2>1, <2>5, IntervalType
  <2>7. NoLateRecord
    BY <2>3, <2>4 DEF NoLateRecord
  <2>8. QED
    BY <2>1, <2>3, <2>4, <2>5, <2>6, <2>7 DEF TraceInv
<1>2. DisjointIntervals /\ TypeOK /\ Inv /\ [Next]_vars => Inv'
  <2> SUFFICES ASSUME DisjointIntervals, TypeOK, Inv, [Next]_vars PROVE Inv'
    OBVIOUS
  <2>1. ASSUME NEW next \in Pc \cup {LoaderPc, jumpPc}, BenchInst(next) PROVE Inv'
    <3>1. curpc \in ProgramPc \cup {LoaderPc} /\ ~lastTrace(curpc) /\ record_traces(curpc)
          /\ ctrlidx <= Len(TraceCtrls)
      BY <2>1 DEF BenchInst, TypeOK
    <3>2. QED
      BY <3>1, RecordTracesStep
  <2>2. ASSUME NEW next \in Pc \cup {LoaderPc, jumpPc}, LoaderInst(next) PROVE Inv'
    <3>1. ~lastTrace(LoaderPc) /\ record_traces(LoaderPc) /\ ctrlidx <= Len(TraceCtrls)
      BY <2>2 DEF LoaderInst
    <3>2. QED
      BY <3>1, RecordTracesStep
  <2>3. CASE TraceExit
    <3>1. closes /\ ctrlidx = Len(TraceCtrls) /\ closeLastTrace /\ status' = "traced"
      BY <2>3 DEF TraceExit, lastTrace
    <3>2. QED
      BY <3>1, CloseLastStep
  <2>4. CASE LoaderExit
    BY <2>4 DEF LoaderExit, traceVars, TraceInv, NoLateRecord
  <2>5. CASE UNCHANGED vars
    BY <2>5 DEF vars, traceVars, TraceInv, NoLateRecord
  <2>6. QED
    BY <2>1, <2>2, <2>3, <2>4, <2>5 DEF Next
<1>3. DisjointIntervals => []DisjointIntervals
  <2>1. DisjointIntervals => DisjointIntervals'
    BY DEF DisjointIntervals
  <2>2. QED
    BY <2>1, PTL
<1> HIDE DEF Inv
<1>4. DisjointIntervals /\ Spec => []Inv
  BY <1>1, <1>2, <1>3, TypeCorrect, PTL DEF Spec
<1>5. QED
  BY <1>4 DEF Inv

(* With disjoint intervals no record is written to a closed file, although *)
(* logfp keeps its value.                                                  *)
THEOREM NeverLate == DisjointIntervals /\ Spec => []NoLateRecord
<1>1. TraceInv => NoLateRecord
  BY DEF TraceInv
<1>2. QED
  BY <1>1, TraceCorrect, PTL

(* With disjoint intervals every trace has the micro-ops of its interval   *)
(* from the first one on, without gaps, repetitions or records of another  *)
(* one, for every settings, every program and wherever the calls fall.     *)
THEOREM TracesConsecutive == DisjointIntervals /\ Spec => []TraceConsecutive
<1>1. TraceInv => TraceConsecutive
  <2> SUFFICES ASSUME TraceInv, NEW n \in DOMAIN files
               PROVE  /\ \A k \in DOMAIN files[n].recs :
                           /\ files[n].recs[k].num = TraceCtrls[n].start + k - 1
                           /\ files[n].recs[k].num < TraceCtrls[n].end
                      /\ n = ctrlidx /\ exeInstNum > TraceCtrls[n].start =>
                           Len(files[n].recs) = exeInstNum - TraceCtrls[n].start
    BY DEF TraceConsecutive
  <2>1. /\ n \in DOMAIN TraceCtrls /\ n \in Nat /\ ctrlidx \in Nat /\ exeInstNum \in Nat
        /\ TraceCtrls[n].start \in Nat /\ TraceCtrls[n].end \in Nat
        /\ TraceCtrls[n].start < TraceCtrls[n].end
    BY IntervalNumbers, IntervalType DEF TraceInv
  <2>2. files[n].recs \in Seq(TraceRecord)
    BY <2>1 DEF TraceInv, TraceFile
  <2>3. ASSUME NEW m \in Nat, Recorded(files[n].recs, n, m), TraceCtrls[n].start + m <= TraceCtrls[n].end
        PROVE  \A k \in DOMAIN files[n].recs :
                 /\ files[n].recs[k].num = TraceCtrls[n].start + k - 1
                 /\ files[n].recs[k].num < TraceCtrls[n].end
    <3>1. DOMAIN files[n].recs = 1..m
      BY <2>2, <2>3 DEF Recorded
    <3>2. QED
      BY <2>1, <2>3, <3>1 DEF Recorded
  <2>4. CASE files[n].recs = <<>> /\ ~(n = ctrlidx /\ exeInstNum > TraceCtrls[n].start)
    BY <2>4
  <2>5. CASE n < ctrlidx
    <3>1. Recorded(files[n].recs, n, TraceCtrls[n].end - 1 - TraceCtrls[n].start)
      BY <2>1, <2>5 DEF TraceInv
    <3>2. QED
      BY <2>1, <2>3, <2>5, <3>1
  <2>6. CASE n = ctrlidx /\ exeInstNum > TraceCtrls[n].start
    <3>1. /\ exeInstNum < TraceCtrls[n].end
          /\ Recorded(files[n].recs, n, exeInstNum - TraceCtrls[n].start)
      BY <2>1, <2>6 DEF TraceInv
    <3>2. Len(files[n].recs) = exeInstNum - TraceCtrls[n].start
      BY <3>1 DEF Recorded
    <3>3. QED
      BY <2>1, <2>3, <2>6, <3>1, <3>2
  <2>7. n > ctrlidx \/ (n = ctrlidx /\ ~(exeInstNum > TraceCtrls[n].start)) =>
          files[n].recs = <<>>
    BY <2>1 DEF TraceInv
  <2>8. QED
    BY <2>1, <2>4, <2>5, <2>6, <2>7
<1>2. QED
  BY <1>1, TraceCorrect, PTL

=============================================================================
