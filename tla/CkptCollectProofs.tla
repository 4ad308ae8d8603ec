-------------------------- MODULE CkptCollectProofs --------------------------
(***************************************************************************)
(* Proofs about the recorder, for every program, every control list and    *)
(* every length of run.                                                    *)
(***************************************************************************)
EXTENDS CkptCollect, WellFoundedInduction, TLAPS

-----------------------------------------------------------------------------
(* The fields of a control entry. *)
LEMMA CtrlType ==
  ASSUME NEW k \in Ids
  PROVE  Ctrls[k].start \in Nat /\ Ctrls[k].length \in Nat /\ Ctrls[k].length > 0
<1> DEFINE Entry == [start : Nat, length : Nat \ {0}]
<1>1. Ctrls[k] \in Entry
  <2> HIDE DEF Entry
  <2>1. Ctrls \in Seq(Entry)
    BY CtrlAssumption DEF Entry
  <2>2. QED
    BY <2>1 DEF Ids
<1>2. QED
  BY <1>1

(* What addinst adds stays inside the recorded text of a CkptInfo object.  *)
LEMMA AddinstType ==
  ASSUME NEW pc \in Pc,
         NEW text \in SUBSET (Pc \cup {p + PageSize : p \in Pc})
  PROVE  addinst(text, pc) \in SUBSET (Pc \cup {p + PageSize : p \in Pc})
  BY DEF addinst

(* The fields of the objects that one micro-op leaves behind before any of *)
(* them is closed: entries keep everything but text, which gains the       *)
(* instruction in the open ones, and the entry opened by this micro-op is  *)
(* fresh.                                                                  *)
LEMMA OpenedFields ==
  ASSUME TypeOK, NEW pc \in Pc
  PROVE  /\ opened(pc) \in [Ids -> CkptInfo]
         /\ \A k \in Ids : ~(isCkptStart /\ k = ckptidx + 1) =>
              /\ opened(pc)[k].startnum = info[k].startnum
              /\ opened(pc)[k].length = info[k].length
              /\ opened(pc)[k].seen = info[k].seen
              /\ opened(pc)[k].exit_pc = info[k].exit_pc
              /\ opened(pc)[k].simNums = info[k].simNums
              /\ opened(pc)[k].text = IF k \in pending THEN addinst(info[k].text, pc)
                                                       ELSE info[k].text
         /\ isCkptStart =>
              /\ ckptidx + 1 \in Ids
              /\ opened(pc)[ckptidx + 1].startnum = numInst
              /\ numInst = Ctrls[ckptidx + 1].start
              /\ opened(pc)[ckptidx + 1].length = Ctrls[ckptidx + 1].length
              /\ opened(pc)[ckptidx + 1].seen = {}
<1> DEFINE rec == recordinst(pc)
<1>1. rec \in [Ids -> CkptInfo]
  <2>1. ASSUME NEW k \in Ids, k \in pending
        PROVE  [info[k] EXCEPT !.text = addinst(@, pc)] \in CkptInfo
    <3>1. info[k] \in CkptInfo
      BY <2>1 DEF TypeOK
    <3>2. addinst(info[k].text, pc) \in SUBSET (Pc \cup {p + PageSize : p \in Pc})
      BY <3>1, AddinstType DEF CkptInfo
    <3> HIDE DEF addinst
    <3>3. QED
      BY <3>1, <3>2 DEF CkptInfo
  <2>2. QED
    BY <2>1 DEF TypeOK, recordinst
<1>2. \A k \in Ids : /\ rec[k].startnum = info[k].startnum
                     /\ rec[k].length = info[k].length
                     /\ rec[k].seen = info[k].seen
                     /\ rec[k].exit_pc = info[k].exit_pc
                     /\ rec[k].simNums = info[k].simNums
                     /\ rec[k].text = IF k \in pending THEN addinst(info[k].text, pc)
                                                       ELSE info[k].text
  BY DEF TypeOK, CkptInfo, recordinst
<1>3. CASE ~isCkptStart
  BY <1>1, <1>2, <1>3 DEF opened
<1>4. CASE isCkptStart
  <2>1. /\ ckptidx + 1 \in Ids
        /\ numInst = Ctrls[ckptidx + 1].start
    BY <1>4, CtrlAssumption DEF isCkptStart, TypeOK, Ids
  <2> DEFINE new == [EmptyInfo EXCEPT !.startnum = numInst,
                                      !.length = Ctrls[ckptidx + 1].length]
  <2>2. opened(pc) = [rec EXCEPT ![ckptidx + 1] = new]
    BY <1>4 DEF opened, addCkpt
  <2>3. new \in CkptInfo
    <3>1. Ctrls[ckptidx + 1].length \in Nat
      BY <2>1, CtrlType
    <3>2. numInst \in 0..MaxInst /\ 0 \in 0..MaxInst
      BY BoundAssumption DEF TypeOK
    <3>3. QED
      BY <3>1, <3>2 DEF EmptyInfo, CkptInfo, NoPc
  <2>4. /\ new.startnum = numInst
        /\ new.length = Ctrls[ckptidx + 1].length
        /\ new.seen = {}
    BY DEF EmptyInfo
  <2> HIDE DEF new, rec
  <2>5. opened(pc) \in [Ids -> CkptInfo]
    BY <1>1, <2>1, <2>2, <2>3
  <2>6. opened(pc)[ckptidx + 1] = new
    BY <1>1, <2>1, <2>2
  <2>7. \A k \in Ids : k # ckptidx + 1 => opened(pc)[k] = rec[k]
    BY <1>1, <2>1, <2>2
  <2>8. QED
    BY <1>2, <1>4, <2>1, <2>4, <2>5, <2>6, <2>7
<1>5. QED
  BY <1>3, <1>4

-----------------------------------------------------------------------------
(* One micro-op keeps the types. *)
LEMMA ExecInstType ==
  ASSUME TypeOK, NEW pc \in Pc, ExecInst(pc)
  PROVE  TypeOK'
<1> DEFINE now == opened(pc)
           over == ckpt_detectOver(pc)
<1>0. Len(Ctrls) \in Nat
  BY CtrlAssumption
<1>1. now \in [Ids -> CkptInfo] /\ (isCkptStart => ckptidx + 1 \in Ids)
  BY OpenedFields
<1>2. over \subseteq {k \in openIds : detectOver(now[k])}
  BY DEF ckpt_detectOver
<1>3. openIds \subseteq Ids /\ ckptidx' \in 0..Len(Ctrls) /\ pending' \subseteq 1..ckptidx'
  <2>1. /\ ckptidx' = IF isCkptStart THEN ckptidx + 1 ELSE ckptidx
        /\ pending' \subseteq openIds
    BY DEF ExecInst
  <2>2. ckptidx \in 0..Len(Ctrls) /\ pending \subseteq 1..ckptidx
    BY DEF TypeOK
  <2>3. CASE isCkptStart
    BY <1>0, <1>1, <2>1, <2>2, <2>3 DEF openIds, Ids
  <2>4. CASE ~isCkptStart
    BY <1>0, <2>1, <2>2, <2>4 DEF openIds, Ids
  <2>5. QED
    BY <2>3, <2>4
<1> HIDE DEF now, over
<1>4. info' \in [Ids -> CkptInfo]
  <2> DEFINE new(k) == IF k \in over
                  THEN [now[k] EXCEPT
                          !.exit_pc = IF strictLength THEN NoPc ELSE pc,
                          !.simNums = numInst - now[k].startnum]
                  ELSE IF k \in pending
                         THEN [now[k] EXCEPT !.seen = @ \cup {pc}]
                         ELSE now[k]
  <2>1. info' = [k \in Ids |-> new(k)]
    BY DEF ExecInst, now, over
  <2>2. ASSUME NEW k \in Ids PROVE new(k) \in CkptInfo
    <3>1. now[k] \in CkptInfo
      BY <1>1
    <3>2. CASE k \in over
      <4>1. detectOver(now[k])
        BY <1>2, <3>2
      <4>2. numInst - now[k].startnum \in 0..MaxInst
        <5>1. now[k].startnum \in 0..MaxInst /\ now[k].length \in Nat
          BY <3>1 DEF CkptInfo
        <5>2. numInst >= now[k].startnum + now[k].length
          BY <4>1 DEF detectOver
        <5>3. numInst \in 0..MaxInst
          BY DEF TypeOK
        <5>4. QED
          BY <5>1, <5>2, <5>3, BoundAssumption
      <4>3. (IF strictLength THEN NoPc ELSE pc) \in Pc \cup {NoPc}
        OBVIOUS
      <4>4. QED
        BY <3>1, <3>2, <4>2, <4>3 DEF CkptInfo
    <3>3. CASE k \notin over
      BY <3>1, <3>3 DEF CkptInfo
    <3>4. QED
      BY <3>2, <3>3
  <2>3. QED
    BY <2>1, <2>2
<1>5. uop' \in Nat
  <2>1. uop' = (uop + 1) % Uops[pc] /\ uop \in Nat /\ Uops[pc] \in Nat \ {0}
    BY PcAssumption DEF TypeOK, ExecInst
  <2>2. QED
    BY <2>1
<1>6. numInst' \in 0..MaxInst
  <2>1. numInst' = IF uop' = 0 /\ numInst < MaxInst THEN numInst + 1 ELSE numInst
    BY DEF ExecInst
  <2>2. QED
    BY <2>1, BoundAssumption DEF TypeOK
<1>7. curpc' \in Pc \cup {NoPc} /\ preinsts' \subseteq Pc
  BY DEF TypeOK, ExecInst
<1>8. /\ status' \in {"run", "created", "exited"}
      /\ isCompressed' \subseteq Pc
      /\ strictLength' \in BOOLEAN
  BY DEF TypeOK, ExecInst
<1>9. QED
  BY <1>3, <1>4, <1>5, <1>6, <1>7, <1>8 DEF TypeOK

(* The recorder's state keeps its types: in particular the length of every *)
(* written slice is a number between 0 and the number of instructions.     *)
THEOREM TypeCorrect == Spec => []TypeOK
<1>1. Init => TypeOK
  <2> SUFFICES ASSUME Init PROVE TypeOK
    OBVIOUS
  <2>1. EmptyInfo \in CkptInfo
    BY BoundAssumption DEF EmptyInfo, CkptInfo, NoPc
  <2>2. info \in [Ids -> CkptInfo]
    BY <2>1 DEF Init
  <2>3. QED
    BY <2>2, BoundAssumption, CtrlAssumption DEF Init, TypeOK
<1>2. TypeOK /\ [Next]_vars => TypeOK'
  <2> SUFFICES ASSUME TypeOK, [Next]_vars PROVE TypeOK'
    OBVIOUS
  <2>1. ASSUME NEW pc \in Pc, ExecInst(pc) PROVE TypeOK'
    BY <2>1, ExecInstType
  <2>2. ASSUME NEW pc \in Pc, ExecEcall(pc) PROVE TypeOK'
    <3>1. ASSUME NEW k \in Ids
          PROVE  [info[k] EXCEPT !.seen = {}] \in CkptInfo
      BY DEF TypeOK, CkptInfo
    <3>2. info' \in [Ids -> CkptInfo]
      BY <2>2, <3>1 DEF TypeOK, ExecEcall
    <3>3. curpc' \in Pc \cup {NoPc} /\ preinsts' \subseteq Pc
      BY <2>2, PcAssumption DEF ExecEcall
    <3>4. QED
      BY <2>2, <3>2, <3>3 DEF TypeOK, ExecEcall
  <2>3. ASSUME NEW pc \in Pc, ProgramExit(pc) PROVE TypeOK'
    BY <2>3 DEF TypeOK, ProgramExit
  <2>4. ASSUME UNCHANGED vars PROVE TypeOK'
    BY <2>4 DEF TypeOK, vars
  <2>5. QED
    BY <2>1, <2>2, <2>3, <2>4 DEF Next
<1>3. QED
  BY <1>1, <1>2, PTL DEF Spec

-----------------------------------------------------------------------------
(* What one micro-op does to the entries that it does not write out, and   *)
(* to the ones it does.                                                    *)
LEMMA ExecInstFields ==
  ASSUME TypeOK, NEW pc \in Pc, ExecInst(pc)
  PROVE  \A k \in Ids :
           /\ info'[k].startnum = opened(pc)[k].startnum
           /\ info'[k].length = opened(pc)[k].length
           /\ info'[k].text = opened(pc)[k].text
           /\ k \in ckpt_detectOver(pc) =>
                /\ info'[k].exit_pc = IF strictLength THEN NoPc ELSE pc
                /\ info'[k].simNums = numInst - opened(pc)[k].startnum
                /\ info'[k].seen = opened(pc)[k].seen
           /\ k \notin ckpt_detectOver(pc) =>
                /\ info'[k].exit_pc = opened(pc)[k].exit_pc
                /\ info'[k].simNums = opened(pc)[k].simNums
                /\ info'[k].seen = opened(pc)[k].seen
                                     \cup IF k \in pending THEN {pc} ELSE {}
<1> DEFINE now == opened(pc)
           over == ckpt_detectOver(pc)
           new(k) == IF k \in over
                  THEN [now[k] EXCEPT
                          !.exit_pc = IF strictLength THEN NoPc ELSE pc,
                          !.simNums = numInst - now[k].startnum]
                  ELSE IF k \in pending
                         THEN [now[k] EXCEPT !.seen = @ \cup {pc}]
                         ELSE now[k]
<1>1. info' = [k \in Ids |-> new(k)]
  BY DEF ExecInst
<1>2. now \in [Ids -> CkptInfo]
  BY OpenedFields
<1> HIDE DEF now, over
<1>3. TAKE k \in Ids
<1>4. now[k] \in CkptInfo /\ info'[k] = new(k)
  BY <1>1, <1>2
<1>5. /\ info'[k].startnum = now[k].startnum
      /\ info'[k].length = now[k].length
      /\ info'[k].text = now[k].text
  BY <1>4 DEF CkptInfo
<1>6. k \in over =>
        /\ info'[k].exit_pc = IF strictLength THEN NoPc ELSE pc
        /\ info'[k].simNums = numInst - now[k].startnum
        /\ info'[k].seen = now[k].seen
  BY <1>4 DEF CkptInfo
<1>7. k \notin over =>
        /\ info'[k].exit_pc = now[k].exit_pc
        /\ info'[k].simNums = now[k].simNums
        /\ info'[k].seen = now[k].seen \cup IF k \in pending THEN {pc} ELSE {}
  BY <1>4 DEF CkptInfo
<1>8. QED
  BY <1>5, <1>6, <1>7 DEF now, over

(* Why sharing one preinsts set works: whatever an open slice has executed *)
(* since its last system call, and could have been an exit instruction, is *)
(* in preinsts, because an open slice makes tick() insert it.              *)
PreinstsCover ==
  ~strictLength /\ status = "run" =>
    \A k \in pending : info[k].seen \ isCompressed \subseteq preinsts

ExitInv == TypeOK /\ PreinstsCover /\ ExitFirstAfterLastSyscall

(* One micro-op keeps both: an instruction is accepted as exit only if no  *)
(* open slice has it in seen, and every other one enters preinsts.         *)
LEMMA ExecInstExit ==
  ASSUME ExitInv, NEW pc \in Pc, ExecInst(pc)
  PROVE  PreinstsCover' /\ ExitFirstAfterLastSyscall'
<1> DEFINE now == opened(pc)
           over == ckpt_detectOver(pc)
<1>0. TypeOK /\ PreinstsCover /\ ExitFirstAfterLastSyscall /\ TypeOK'
  BY ExecInstType DEF ExitInv
<1>1. /\ pending' = openIds \ over
      /\ ckptidx' = IF isCkptStart THEN ckptidx + 1 ELSE ckptidx
      /\ preinsts' = IF hasValidCkpt /\ pc \notin isCompressed /\ ~strictLength
                       THEN preinsts \cup {pc} ELSE preinsts
      /\ pc \notin Ecall
      /\ isCompressed' = isCompressed /\ strictLength' = strictLength
      /\ status = "run"
  BY DEF ExecInst
<1>2. \A k \in Ids : /\ info'[k].startnum = now[k].startnum
                     /\ k \in over =>
                          /\ info'[k].exit_pc = IF strictLength THEN NoPc ELSE pc
                          /\ info'[k].seen = now[k].seen
                     /\ k \notin over =>
                          /\ info'[k].exit_pc = now[k].exit_pc
                          /\ info'[k].seen = now[k].seen
                                \cup IF k \in pending THEN {pc} ELSE {}
  BY <1>0, ExecInstFields
<1>3. /\ \A k \in Ids : ~(isCkptStart /\ k = ckptidx + 1) =>
              /\ now[k].seen = info[k].seen
              /\ now[k].exit_pc = info[k].exit_pc
      /\ isCkptStart => ckptidx + 1 \in Ids /\ now[ckptidx + 1].seen = {}
  BY <1>0, OpenedFields
<1>4. over # {} => hasValidCkpt /\ isExitInst(pc)
  BY DEF ckpt_detectOver
<1>5. ckptidx \in Nat /\ pending \subseteq 1..ckptidx /\ 1..ckptidx' \subseteq Ids
      /\ pending' \subseteq Ids /\ pending \subseteq Ids
  BY <1>0, CtrlAssumption, SMTT(30) DEF TypeOK, Ids
<1>6. CASE strictLength
  BY <1>1, <1>6 DEF PreinstsCover, ExitFirstAfterLastSyscall
<1>7. CASE ~strictLength
  <2>1. ASSUME NEW k \in pending' PROVE info'[k].seen \ isCompressed' \subseteq preinsts'
    <3>1. k \in Ids /\ k \notin over /\ k \in openIds
      BY <1>1, <1>5
    <3>2. CASE k \in pending
      <4>1. k # ckptidx + 1 /\ hasValidCkpt
        BY <1>5, <3>2 DEF hasValidCkpt
      <4>2. info'[k].seen = info[k].seen \cup {pc}
        BY <1>2, <1>3, <3>1, <3>2, <4>1
      <4>3. info[k].seen \ isCompressed \subseteq preinsts
        BY <1>0, <1>1, <1>7, <3>2 DEF PreinstsCover
      <4>4. QED
        BY <1>1, <1>7, <4>1, <4>2, <4>3
    <3>3. CASE k \notin pending
      <4>1. isCkptStart /\ k = ckptidx + 1
        BY <3>1, <3>3 DEF openIds
      <4>2. info'[k].seen = {}
        BY <1>2, <1>3, <3>1, <3>3, <4>1
      <4>3. QED
        BY <4>2
    <3>4. QED
      BY <3>2, <3>3
  <2>2. ASSUME NEW k \in saved'
        PROVE  info'[k].exit_pc \in Pc \ Ecall /\ info'[k].exit_pc \notin info'[k].seen
    <3>1. k \in 1..ckptidx' /\ k \notin pending' /\ k \in Ids
      BY <1>5 DEF saved
    <3>2. CASE k \in over
      <4>1. hasValidCkpt /\ pc \notin isCompressed /\ pc \notin preinsts
        BY <1>4, <1>7, <3>2 DEF isExitInst
      <4>2. info'[k].exit_pc = pc /\ info'[k].seen = now[k].seen
        BY <1>2, <1>7, <3>1, <3>2
      <4>3. pc \notin now[k].seen
        <5>1. CASE isCkptStart /\ k = ckptidx + 1
          BY <1>3, <5>1
        <5>2. CASE ~(isCkptStart /\ k = ckptidx + 1)
          <6>1. k \in pending
            BY <3>2, <5>2 DEF ckpt_detectOver, openIds
          <6>2. now[k].seen = info[k].seen
            BY <1>3, <3>1, <5>2
          <6>3. info[k].seen \ isCompressed \subseteq preinsts
            BY <1>0, <1>1, <1>7, <6>1 DEF PreinstsCover
          <6>4. QED
            BY <4>1, <6>2, <6>3
        <5>3. QED
          BY <5>1, <5>2
      <4>4. QED
        BY <1>1, <4>2, <4>3
    <3>3. CASE k \notin over
      <4>1. k \notin openIds
        BY <1>1, <3>1, <3>3
      <4>2. ~(isCkptStart /\ k = ckptidx + 1) /\ k \notin pending
        BY <4>1 DEF openIds
      <4>3. k \in saved
        BY <1>1, <1>5, <3>1, <4>2 DEF saved
      <4>4. info[k].exit_pc \in Pc \ Ecall /\ info[k].exit_pc \notin info[k].seen
        BY <1>0, <1>7, <4>3 DEF ExitFirstAfterLastSyscall
      <4>5. info'[k].exit_pc = info[k].exit_pc /\ info'[k].seen = info[k].seen
        BY <1>2, <1>3, <3>1, <3>3, <4>2
      <4>6. QED
        BY <4>4, <4>5
    <3>4. QED
      BY <3>2, <3>3
  <2>3. QED
    BY <2>1, <2>2 DEF PreinstsCover, ExitFirstAfterLastSyscall
<1>8. QED
  BY <1>6, <1>7

(* For every program, every list of overlapping checkpoints and every      *)
(* content of the uninitialised isCompressed members, the exit instruction *)
(* of a written checkpoint is new in its slice since the last system call: *)
(* the replay cannot stop early.                                           *)
THEOREM ExitFirst == Spec => []ExitFirstAfterLastSyscall
<1>1. Init => PreinstsCover /\ ExitFirstAfterLastSyscall
  BY DEF Init, PreinstsCover, ExitFirstAfterLastSyscall, saved
<1>2. ExitInv /\ [Next]_vars => (PreinstsCover /\ ExitFirstAfterLastSyscall)'
  <2> SUFFICES ASSUME ExitInv, [Next]_vars
               PROVE  PreinstsCover' /\ ExitFirstAfterLastSyscall'
    OBVIOUS
  <2>0. TypeOK /\ PreinstsCover /\ ExitFirstAfterLastSyscall
    BY DEF ExitInv
  <2>1. ASSUME NEW pc \in Pc, ExecInst(pc)
        PROVE  PreinstsCover' /\ ExitFirstAfterLastSyscall'
    BY <2>1, ExecInstExit
  <2>2. ASSUME NEW pc \in Pc, ExecEcall(pc)
        PROVE  PreinstsCover' /\ ExitFirstAfterLastSyscall'
    <3>1. \A k \in Ids : /\ info'[k].exit_pc = info[k].exit_pc
                         /\ k \in pending => info'[k].seen = {}
                         /\ k \notin pending => info'[k].seen = info[k].seen
      BY <2>0, <2>2 DEF TypeOK, CkptInfo, ExecEcall
    <3>2. pending' = pending /\ saved' = saved /\ pending \subseteq Ids
          /\ saved \subseteq Ids /\ strictLength' = strictLength
      <4>1. pending' = pending /\ saved' = saved /\ strictLength' = strictLength
        BY <2>2 DEF ExecEcall, saved
      <4>2. Len(Ctrls) \in Nat /\ ckptidx \in 0..Len(Ctrls) /\ pending \subseteq 1..ckptidx
        BY <2>0, CtrlAssumption DEF TypeOK
      <4>3. QED
        BY <4>1, <4>2 DEF saved, Ids
    <3>3. PreinstsCover'
      BY <3>1, <3>2 DEF PreinstsCover
    <3>4. ExitFirstAfterLastSyscall'
      BY <2>0, <3>1, <3>2 DEF ExitFirstAfterLastSyscall, saved
    <3>5. QED
      BY <3>3, <3>4
  <2>3. ASSUME NEW pc \in Pc, ProgramExit(pc)
        PROVE  PreinstsCover' /\ ExitFirstAfterLastSyscall'
    BY <2>0, <2>3 DEF ProgramExit, PreinstsCover, ExitFirstAfterLastSyscall, saved
  <2>4. ASSUME UNCHANGED vars
        PROVE  PreinstsCover' /\ ExitFirstAfterLastSyscall'
    BY <2>0, <2>4 DEF PreinstsCover, ExitFirstAfterLastSyscall, saved, vars
  <2>5. QED
    BY <2>1, <2>2, <2>3, <2>4 DEF Next
<1>3. QED
  BY <1>1, <1>2, TypeCorrect, PTL DEF Spec, ExitInv

-----------------------------------------------------------------------------
(* Each object stands for its control entry, and the simulator stops only  *)
(* when the list is empty.                                                 *)
EntryInv ==
  /\ TypeOK
  /\ \A k \in 1..ckptidx : /\ info[k].startnum = Ctrls[k].start
                           /\ info[k].length = Ctrls[k].length
  /\ \A k \in saved : info[k].simNums >= Ctrls[k].length
  /\ status = "created" => pending = {} /\ ckptidx = Len(Ctrls)

(* One micro-op keeps EntryInv: only objects that detectOver accepts leave *)
(* the list.                                                               *)
LEMMA ExecInstEntry ==
  ASSUME EntryInv, NEW pc \in Pc, ExecInst(pc)
  PROVE  EntryInv'
<1> DEFINE now == opened(pc)
           over == ckpt_detectOver(pc)
<1>0. TypeOK /\ TypeOK'
  BY ExecInstType DEF EntryInv
<1>1. /\ pending' = openIds \ over
      /\ ckptidx' = IF isCkptStart THEN ckptidx + 1 ELSE ckptidx
      /\ status = "run"
      /\ status' = IF over # {} /\ pending' = {} /\ ckptidx' = Len(Ctrls)
                     THEN "created" ELSE status
  BY DEF ExecInst
<1>2. \A k \in Ids : /\ info'[k].startnum = now[k].startnum
                     /\ info'[k].length = now[k].length
                     /\ k \in over => info'[k].simNums = numInst - now[k].startnum
                     /\ k \notin over => info'[k].simNums = now[k].simNums
  BY <1>0, ExecInstFields
<1>3. /\ \A k \in Ids : ~(isCkptStart /\ k = ckptidx + 1) =>
              /\ now[k].startnum = info[k].startnum
              /\ now[k].length = info[k].length
              /\ now[k].simNums = info[k].simNums
      /\ isCkptStart => /\ ckptidx + 1 \in Ids
                        /\ now[ckptidx + 1].startnum = Ctrls[ckptidx + 1].start
                        /\ now[ckptidx + 1].length = Ctrls[ckptidx + 1].length
  BY <1>0, OpenedFields
<1>4. ckptidx \in Nat /\ 1..ckptidx' \subseteq Ids
  BY <1>0, CtrlAssumption DEF TypeOK, Ids
<1>5. over \subseteq {k \in openIds : detectOver(now[k])}
  BY DEF ckpt_detectOver
<1> HIDE DEF now, over
<1>6. ASSUME NEW k \in 1..ckptidx'
      PROVE  /\ info'[k].startnum = Ctrls[k].start
             /\ info'[k].length = Ctrls[k].length
  <2>1. CASE isCkptStart /\ k = ckptidx + 1
    BY <1>2, <1>3, <1>4, <2>1
  <2>2. CASE ~(isCkptStart /\ k = ckptidx + 1)
    <3>1. k \in 1..ckptidx
      BY <1>1, <1>4, <2>2
    <3>2. QED
      BY <1>2, <1>3, <1>4, <2>2, <3>1 DEF EntryInv
  <2>3. QED
    BY <2>1, <2>2
<1>7. ASSUME NEW k \in saved' PROVE info'[k].simNums >= Ctrls[k].length
  <2>1. k \in 1..ckptidx' /\ k \notin pending' /\ k \in Ids
    BY <1>4 DEF saved
  <2>2. CASE k \in over
    <3>1. numInst >= now[k].startnum + now[k].length
      BY <1>5, <2>2 DEF detectOver
    <3>2. now[k].startnum = Ctrls[k].start /\ now[k].length = Ctrls[k].length
      BY <1>2, <1>6, <2>1
    <3>3. info'[k].simNums = numInst - now[k].startnum
      BY <1>2, <2>1, <2>2
    <3>4. numInst \in Nat /\ Ctrls[k].start \in Nat /\ Ctrls[k].length \in Nat
      BY <1>0, <2>1, CtrlType, BoundAssumption DEF TypeOK
    <3>5. QED
      BY <3>1, <3>2, <3>3, <3>4
  <2>3. CASE k \notin over
    <3>1. k \notin pending /\ ~(isCkptStart /\ k = ckptidx + 1)
      BY <1>1, <2>1, <2>3 DEF openIds
    <3>2. k \in saved
      BY <1>1, <1>4, <2>1, <3>1 DEF saved
    <3>3. QED
      BY <1>2, <1>3, <2>1, <2>3, <3>1, <3>2 DEF EntryInv
  <2>4. QED
    BY <2>2, <2>3
<1>8. status' = "created" => pending' = {} /\ ckptidx' = Len(Ctrls)
  BY <1>1
<1>9. QED
  BY <1>0, <1>6, <1>7, <1>8 DEF EntryInv

(* EntryInv holds throughout every run. *)
THEOREM EntryCorrect == Spec => []EntryInv
<1>1. Init /\ TypeOK => EntryInv
  BY DEF Init, EntryInv, saved
<1>2. EntryInv /\ [Next]_vars /\ TypeOK' => EntryInv'
  <2> SUFFICES ASSUME EntryInv, [Next]_vars, TypeOK' PROVE EntryInv'
    OBVIOUS
  <2>1. ASSUME NEW pc \in Pc, ExecInst(pc) PROVE EntryInv'
    BY <2>1, ExecInstEntry
  <2>2. ASSUME NEW pc \in Pc, ExecEcall(pc) PROVE EntryInv'
    <3>1. \A k \in Ids : /\ info'[k].startnum = info[k].startnum
                         /\ info'[k].length = info[k].length
                         /\ info'[k].simNums = info[k].simNums
      BY <2>2 DEF EntryInv, TypeOK, CkptInfo, ExecEcall
    <3>2. ckptidx' = ckptidx /\ pending' = pending /\ saved' = saved
          /\ status' = status
      BY <2>2 DEF ExecEcall, saved
    <3>3. 1..ckptidx \subseteq Ids
      BY CtrlAssumption DEF EntryInv, TypeOK, Ids
    <3>4. saved \subseteq Ids
      BY <3>3 DEF saved
    <3>5. QED
      BY <3>1, <3>2, <3>3, <3>4 DEF EntryInv
  <2>3. ASSUME NEW pc \in Pc, ProgramExit(pc) PROVE EntryInv'
    BY <2>3 DEF ProgramExit, EntryInv, saved
  <2>4. ASSUME UNCHANGED vars PROVE EntryInv'
    BY <2>4 DEF EntryInv, saved, vars
  <2>5. QED
    BY <2>1, <2>2, <2>3, <2>4 DEF Next
<1>3. QED
  BY <1>1, <1>2, TypeCorrect, PTL DEF Spec

(* No configured checkpoint whose start was reached is lost or written too *)
(* short, and the simulator's own exit(0) comes after the last of them.    *)
THEOREM NothingLost == Spec => []NoCkptLost
<1>1. EntryInv => NoCkptLost
  BY DEF EntryInv, NoCkptLost, saved, Ids
<1>2. QED
  BY <1>1, EntryCorrect, PTL

-----------------------------------------------------------------------------
(* The control entries have pairwise different starts. *)
DistinctStarts ==
  \A j, k \in Ids : j < k => Ctrls[j].start < Ctrls[k].start

(* With pairwise different starts the equality test of isCkptStart never   *)
(* misses an entry, whatever checkpoints are open and however the program  *)
(* mixes instructions of several micro-ops and system calls.               *)
THEOREM NeverBehind == DistinctStarts /\ Spec => []NextCtrlAhead
<1>1. Init /\ TypeOK => NextCtrlAhead
  <2> SUFFICES ASSUME Init, ckptidx < Len(Ctrls)
               PROVE  Ctrls[ckptidx + 1].start >= numInst
    BY DEF NextCtrlAhead
  <2>1. 1 \in Ids /\ ckptidx = 0 /\ numInst = 0
    BY CtrlAssumption DEF Init, Ids
  <2>2. QED
    BY <2>1, CtrlType
<1>2. DistinctStarts /\ TypeOK /\ NextCtrlAhead /\ [Next]_vars => NextCtrlAhead'
  <2> SUFFICES ASSUME DistinctStarts, TypeOK, NextCtrlAhead, [Next]_vars,
                      ckptidx' < Len(Ctrls)
               PROVE  Ctrls[ckptidx' + 1].start >= numInst'
    BY DEF NextCtrlAhead
  <2>0. ckptidx \in Nat /\ numInst \in Nat /\ Len(Ctrls) \in Nat
    BY CtrlAssumption, BoundAssumption DEF TypeOK
  <2>1. ASSUME NEW pc \in Pc, ExecInst(pc)
        PROVE  Ctrls[ckptidx' + 1].start >= numInst'
    <3>1. /\ ckptidx' = IF isCkptStart THEN ckptidx + 1 ELSE ckptidx
          /\ numInst' \in {numInst, numInst + 1}
      BY <2>1 DEF ExecInst
    <3>2. CASE isCkptStart
      <4>1. ckptidx + 1 \in Ids /\ ckptidx + 2 \in Ids /\ ckptidx' + 1 = ckptidx + 2
        BY <2>0, <3>1, <3>2 DEF Ids
      <4>2. Ctrls[ckptidx + 1].start = numInst
        BY <3>2 DEF isCkptStart
      <4>3. Ctrls[ckptidx + 1].start < Ctrls[ckptidx + 2].start
        BY <2>0, <4>1 DEF DistinctStarts
      <4>4. Ctrls[ckptidx + 1].start \in Nat /\ Ctrls[ckptidx + 2].start \in Nat
        BY <4>1, CtrlType
      <4>5. QED
        BY <2>0, <3>1, <4>1, <4>2, <4>3, <4>4
    <3>3. CASE ~isCkptStart
      <4>1. ckptidx' = ckptidx /\ ckptidx + 1 \in Ids
        BY <2>0, <3>1, <3>3 DEF Ids
      <4>2. Ctrls[ckptidx + 1].start >= numInst /\ Ctrls[ckptidx + 1].start # numInst
        BY <3>3, <4>1 DEF NextCtrlAhead, isCkptStart
      <4>3. Ctrls[ckptidx + 1].start \in Nat
        BY <4>1, CtrlType
      <4>4. QED
        BY <2>0, <3>1, <4>1, <4>2, <4>3
    <3>4. QED
      BY <3>2, <3>3
  <2>2. ASSUME NEW pc \in Pc, ExecEcall(pc)
        PROVE  Ctrls[ckptidx' + 1].start >= numInst'
    BY <2>2 DEF ExecEcall, NextCtrlAhead
  <2>3. ASSUME NEW pc \in Pc, ProgramExit(pc)
        PROVE  Ctrls[ckptidx' + 1].start >= numInst'
    BY <2>3 DEF ProgramExit, NextCtrlAhead
  <2>4. ASSUME UNCHANGED vars
        PROVE  Ctrls[ckptidx' + 1].start >= numInst'
    BY <2>4 DEF vars, NextCtrlAhead
  <2>5. QED
    BY <2>1, <2>2, <2>3, <2>4 DEF Next
<1>3. DistinctStarts => []DistinctStarts
  <2>1. DistinctStarts => DistinctStarts'
    BY DEF DistinctStarts, Ids
  <2>2. QED
    BY <2>1, PTL
<1>4. QED
  BY <1>1, <1>2, <1>3, TypeCorrect, PTL DEF Spec

-----------------------------------------------------------------------------
(* Two addresses lie in the same page when the second is not beyond the    *)
(* end of the first one's page.                                            *)
LEMMA SamePage ==
  ASSUME NEW p \in Nat, p > 0, NEW a \in Nat, NEW b \in Nat,
         a <= b, b < (a \div p) * p + p
  PROVE  b \div p = a \div p
  OBVIOUS

(* The page behind the one of a. *)
LEMMA NextPage ==
  ASSUME NEW p \in Nat, p > 0, NEW a \in Nat, NEW b \in Nat,
         b >= (a \div p) * p + p, b < (a \div p) * p + p + p
  PROVE  b \div p = (a + p) \div p
<1>1. b \div p = (a \div p) + 1
  OBVIOUS
<1>2. (a + p) \div p = (a \div p) + 1
  OBVIOUS
<1>3. QED
  BY <1>1, <1>2

(* What addinst adds covers every byte of the instruction: the four bytes  *)
(* at pc lie in its page and at most in the next one, which addinst adds   *)
(* exactly when they reach into it.                                        *)
LEMMA AddinstCovers ==
  ASSUME NEW pc \in Pc, NEW text, NEW b \in pc..(pc + 3)
  PROVE  \E a \in addinst(text, pc) : a \div PageSize = b \div PageSize
<1>1. /\ pc \in Nat /\ b \in Nat /\ PageSize \in Nat /\ PageSize > 0 /\ PageSize >= 4
      /\ pc <= b /\ b < pc + 4
  BY PcAssumption, BoundAssumption
<1> DEFINE end == (pc \div PageSize) * PageSize + PageSize
<1>2. end \in Nat /\ pc < end
  BY <1>1
<1>3. CASE b < end
  <2>1. pc \in addinst(text, pc)
    BY DEF addinst
  <2>2. b \div PageSize = pc \div PageSize
    BY <1>1, <1>3, SamePage
  <2>3. QED
    BY <2>1, <2>2
<1>4. CASE b >= end
  <2> HIDE DEF end
  <2>1. end < pc + 4 /\ b < end + PageSize
    BY <1>1, <1>2, <1>4
  <2>2. pc + PageSize \in addinst(text, pc)
    BY <2>1 DEF addinst, end
  <2>3. b \div PageSize = (pc + PageSize) \div PageSize
    BY <1>1, <1>4, <2>1, NextPage DEF end
  <2>4. QED
    BY <2>2, <2>3
<1>5. QED
  BY <1>1, <1>2, <1>3, <1>4

(* The checkpoints that one micro-op writes were open before it: a fresh   *)
(* one has a positive length and is not due.                               *)
LEMMA OverWasOpen ==
  ASSUME TypeOK, NEW pc \in Pc
  PROVE  ckpt_detectOver(pc) \subseteq pending
<1> SUFFICES ASSUME NEW k \in ckpt_detectOver(pc), k \notin pending PROVE FALSE
  OBVIOUS
<1>1. isCkptStart /\ k = ckptidx + 1 /\ detectOver(opened(pc)[k])
  BY DEF ckpt_detectOver, openIds
<1>2. /\ k \in Ids
      /\ opened(pc)[k].startnum = numInst
      /\ opened(pc)[k].length = Ctrls[k].length
  BY <1>1, OpenedFields
<1>3. numInst >= numInst + Ctrls[k].length
  BY <1>1, <1>2 DEF detectOver
<1>4. Ctrls[k].length \in Nat /\ Ctrls[k].length > 0 /\ numInst \in Nat
  BY <1>2, CtrlType DEF TypeOK
<1>5. QED
  BY <1>3, <1>4

(* ExitCodeRecorded is inductive next to the fact that the recorder was    *)
(* not asked for an exact length: written objects are never touched again, *)
(* and the micro-op that closes one has been added to its text before.     *)
LEMMA ExecInstCode ==
  ASSUME TypeOK, ExitCodeRecorded, NEW pc \in Pc, ExecInst(pc)
  PROVE  ExitCodeRecorded'
<1> DEFINE now == opened(pc)
           over == ckpt_detectOver(pc)
<1>1. /\ pending' = openIds \ over
      /\ ckptidx' = IF isCkptStart THEN ckptidx + 1 ELSE ckptidx
      /\ strictLength' = strictLength
  BY DEF ExecInst
<1>2. \A k \in Ids : /\ info'[k].text = now[k].text
                     /\ k \in over => info'[k].exit_pc = IF strictLength THEN NoPc ELSE pc
                     /\ k \notin over => info'[k].exit_pc = now[k].exit_pc
  BY ExecInstFields
<1>3. \A k \in Ids : ~(isCkptStart /\ k = ckptidx + 1) =>
              /\ now[k].exit_pc = info[k].exit_pc
              /\ now[k].text = IF k \in pending THEN addinst(info[k].text, pc)
                                                ELSE info[k].text
  BY OpenedFields
<1>4. ckptidx \in Nat /\ pending \subseteq 1..ckptidx /\ 1..ckptidx' \subseteq Ids
  BY ExecInstType, CtrlAssumption, SMTT(30) DEF TypeOK, Ids
<1>5. over \subseteq pending
  BY OverWasOpen
<1> HIDE DEF now, over
<1>6. SUFFICES ASSUME ~strictLength, NEW k \in saved',
                      NEW b \in info'[k].exit_pc .. (info'[k].exit_pc + 3)
               PROVE  \E a \in info'[k].text : a \div PageSize = b \div PageSize
  BY <1>1 DEF ExitCodeRecorded
<1>7. k \in 1..ckptidx' /\ k \notin pending' /\ k \in Ids
  BY <1>4 DEF saved
<1>8. CASE k \in over
  <2>1. k \in pending /\ k # ckptidx + 1
    BY <1>4, <1>5, <1>8
  <2>2. info'[k].text = addinst(info[k].text, pc) /\ info'[k].exit_pc = pc
    BY <1>2, <1>3, <1>6, <1>7, <1>8, <2>1
  <2>3. QED
    BY <2>2, AddinstCovers
<1>9. CASE k \notin over
  <2>1. k \notin pending /\ ~(isCkptStart /\ k = ckptidx + 1)
    BY <1>1, <1>7, <1>9 DEF openIds
  <2>2. k \in saved
    BY <1>1, <1>4, <1>7, <2>1 DEF saved
  <2>3. info'[k].text = info[k].text /\ info'[k].exit_pc = info[k].exit_pc
    BY <1>2, <1>3, <1>7, <1>9, <2>1
  <2>4. QED
    BY <1>6, <2>2, <2>3 DEF ExitCodeRecorded
<1>10. QED
  BY <1>8, <1>9

(* Whatever page the exit instruction of a checkpoint lies in, and also    *)
(* when it straddles two, the loader finds the pages of all four bytes     *)
(* that it overwrites among the recorded code.                             *)
THEOREM ExitCode == Spec => []ExitCodeRecorded
<1>1. Init => ExitCodeRecorded
  BY DEF Init, ExitCodeRecorded, saved
<1>2. TypeOK /\ ExitCodeRecorded /\ [Next]_vars => ExitCodeRecorded'
  <2> SUFFICES ASSUME TypeOK, ExitCodeRecorded, [Next]_vars PROVE ExitCodeRecorded'
    OBVIOUS
  <2>1. ASSUME NEW pc \in Pc, ExecInst(pc) PROVE ExitCodeRecorded'
    BY <2>1, ExecInstCode
  <2>2. ASSUME NEW pc \in Pc, ExecEcall(pc) PROVE ExitCodeRecorded'
    <3>1. \A k \in Ids : /\ info'[k].exit_pc = info[k].exit_pc
                         /\ info'[k].text = info[k].text
      BY <2>2 DEF TypeOK, CkptInfo, ExecEcall
    <3>2. saved' = saved /\ strictLength' = strictLength
      BY <2>2 DEF ExecEcall, saved
    <3>3. saved \subseteq Ids
      BY CtrlAssumption DEF TypeOK, Ids, saved
    <3>4. QED
      BY <3>1, <3>2, <3>3 DEF ExitCodeRecorded
  <2>3. ASSUME NEW pc \in Pc, ProgramExit(pc) PROVE ExitCodeRecorded'
    BY <2>3 DEF ProgramExit, ExitCodeRecorded, saved
  <2>4. ASSUME UNCHANGED vars PROVE ExitCodeRecorded'
    BY <2>4 DEF ExitCodeRecorded, saved, vars
  <2>5. QED
    BY <2>1, <2>2, <2>3, <2>4 DEF Next
<1>3. QED
  BY <1>1, <1>2, TypeCorrect, PTL DEF Spec

-----------------------------------------------------------------------------
(* A nonempty set of natural numbers has a least element: open checkpoints *)
(* have an oldest one.                                                     *)
LEMMA LeastNat ==
  ASSUME NEW S \in SUBSET Nat, S # {}
  PROVE  \E m \in S : \A n \in S : m <= n
<1> DEFINE R == OpToRel(<, Nat)
<1>1. IsWellFoundedOn(R, Nat)
  BY NatLessThanWellFounded
<1>2. \A m, n \in Nat : n < m => <<n, m>> \in R
  BY DEF OpToRel
<1> HIDE DEF R
<1>3. PICK m \in S : \A n \in S : ~(<<n, m>> \in R)
  BY <1>1, WFMin
<1>4. \A n \in S : ~(n < m)
  BY <1>2, <1>3
<1>5. QED
  BY <1>4

(* pendingCkpts[0] is the oldest open checkpoint. *)
LEMMA FirstPending ==
  ASSUME TypeOK, pending # {}
  PROVE  firstPending \in pending /\ \A j \in pending : firstPending <= j
<1>1. pending \in SUBSET Nat
  BY DEF TypeOK
<1>2. \E k \in pending : \A j \in pending : k <= j
  BY <1>1, LeastNat
<1>3. QED
  BY <1>2 DEF firstPending

(* Checkpoint k ends no earlier than the ones before it: it is not nested. *)
EndsInOrder(k) == \A j \in 1..k : endOf(j) <= endOf(k)

(* The reason for StrictLengthExact: an open checkpoint that is not nested *)
(* is never overdue, since at its end the oldest open one is due as well.  *)
NeverOverdue ==
  strictLength => \A k \in pending : EndsInOrder(k) => numInst <= endOf(k)

StrictInv == EntryInv /\ NeverOverdue /\ StrictLengthExact

(* One micro-op keeps both. *)
LEMMA ExecInstStrict ==
  ASSUME StrictInv, NEW pc \in Pc, ExecInst(pc)
  PROVE  NeverOverdue' /\ StrictLengthExact'
<1> DEFINE now == opened(pc)
           over == ckpt_detectOver(pc)
<1>0. TypeOK /\ EntryInv /\ NeverOverdue /\ StrictLengthExact /\ EntryInv' /\ TypeOK'
  BY ExecInstEntry DEF StrictInv, EntryInv
<1>1. /\ pending' = openIds \ over
      /\ ckptidx' = IF isCkptStart THEN ckptidx + 1 ELSE ckptidx
      /\ numInst' \in {numInst, numInst + 1}
      /\ strictLength' = strictLength
  BY DEF ExecInst
<1>2. \A k \in Ids : /\ info'[k].startnum = now[k].startnum
                     /\ info'[k].length = now[k].length
                     /\ k \in over => info'[k].simNums = numInst - now[k].startnum
                     /\ k \notin over => info'[k].simNums = now[k].simNums
  BY <1>0, ExecInstFields
<1>3. /\ \A k \in Ids : ~(isCkptStart /\ k = ckptidx + 1) =>
                          now[k].simNums = info[k].simNums
      /\ isCkptStart => ckptidx + 1 \in Ids /\ numInst = Ctrls[ckptidx + 1].start
  BY <1>0, OpenedFields
<1>4. /\ ckptidx \in Nat /\ pending \subseteq 1..ckptidx /\ 1..ckptidx \subseteq Ids
      /\ 1..ckptidx' \subseteq Ids /\ pending' \subseteq 1..ckptidx' /\ numInst \in Nat
  BY <1>0, CtrlAssumption, BoundAssumption DEF TypeOK, Ids
<1>5. over \subseteq pending
  BY <1>0, OverWasOpen
<1>6. \A k \in Ids : /\ Ctrls[k].start \in Nat /\ Ctrls[k].length \in Nat
                     /\ Ctrls[k].length > 0
                     /\ endOf(k) = Ctrls[k].start + Ctrls[k].length
  BY CtrlType DEF endOf
<1>7. \A k \in 1..ckptidx' : /\ now[k].startnum = Ctrls[k].start
                              /\ now[k].length = Ctrls[k].length
  BY <1>0, <1>2, <1>4 DEF EntryInv
<1>8. SUFFICES ASSUME strictLength
               PROVE  /\ \A k \in pending' : EndsInOrder(k) => numInst' <= endOf(k)
                      /\ \A k \in saved' : EndsInOrder(k) => info'[k].simNums = Ctrls[k].length
  BY <1>1 DEF NeverOverdue, StrictLengthExact, EndsInOrder, endOf
<1>9. ASSUME NEW k \in pending, EndsInOrder(k), numInst >= endOf(k)
      PROVE  k \in over
  <2>1. firstPending \in pending /\ firstPending <= k
    BY <1>0, <1>9, FirstPending
  <2>2. endOf(firstPending) <= endOf(k)
    BY <1>4, <1>9, <2>1 DEF EndsInOrder
  <2>3. /\ info[firstPending].startnum = Ctrls[firstPending].start
        /\ info[firstPending].length = Ctrls[firstPending].length
    BY <1>0, <1>4, <2>1 DEF EntryInv
  <2>4. numInst >= info[firstPending].startnum + info[firstPending].length
    BY <1>4, <1>6, <1>9, <2>1, <2>2, <2>3
  <2>5. hasValidCkpt /\ isExitInst(pc)
    BY <1>8, <1>9, <2>4 DEF hasValidCkpt, isExitInst, detectOver
  <2>6. k \in 1..ckptidx' /\ k \in Ids
    BY <1>1, <1>4
  <2>7. numInst >= now[k].startnum + now[k].length
    BY <1>6, <1>7, <1>9, <2>6
  <2>8. QED
    BY <2>5, <2>7 DEF ckpt_detectOver, openIds, detectOver
<1> HIDE DEF now
<1>10. ASSUME NEW k \in pending', EndsInOrder(k) PROVE numInst' <= endOf(k)
  <2>1. k \in Ids /\ k \in openIds /\ k \notin over
    BY <1>1, <1>4
  <2>2. CASE k \in pending
    <3>1. ~(numInst >= endOf(k))
      BY <1>9, <1>10, <2>1, <2>2
    <3>2. QED
      BY <1>1, <1>4, <1>6, <2>1, <3>1
  <2>3. CASE k \notin pending
    <3>1. k = ckptidx + 1 /\ numInst = Ctrls[k].start
      BY <1>3, <2>1, <2>3 DEF openIds
    <3>2. QED
      BY <1>1, <1>4, <1>6, <2>1, <3>1
  <2>4. QED
    BY <2>2, <2>3
<1>11. ASSUME NEW k \in saved', EndsInOrder(k) PROVE info'[k].simNums = Ctrls[k].length
  <2>1. k \in 1..ckptidx' /\ k \notin pending' /\ k \in Ids
    BY <1>4 DEF saved
  <2>2. CASE k \in over
    <3>1. k \in pending /\ numInst <= endOf(k)
      BY <1>0, <1>5, <1>8, <1>11, <2>2 DEF NeverOverdue
    <3>2. numInst >= now[k].startnum + now[k].length
      BY <2>2 DEF ckpt_detectOver, detectOver, now
    <3>3. info'[k].simNums = numInst - Ctrls[k].start
      BY <1>2, <1>7, <2>1, <2>2
    <3>4. numInst = endOf(k)
      BY <1>4, <1>6, <1>7, <2>1, <3>1, <3>2
    <3>5. QED
      BY <1>6, <2>1, <3>3, <3>4
  <2>3. CASE k \notin over
    <3>1. k \notin pending /\ ~(isCkptStart /\ k = ckptidx + 1)
      BY <1>1, <2>1, <2>3 DEF openIds
    <3>2. k \in saved
      BY <1>1, <1>4, <2>1, <3>1 DEF saved
    <3>3. info'[k].simNums = info[k].simNums
      BY <1>2, <1>3, <2>1, <2>3, <3>1
    <3>4. QED
      BY <1>0, <1>8, <1>11, <3>2, <3>3 DEF StrictLengthExact, EndsInOrder
  <2>4. QED
    BY <2>2, <2>3
<1>12. QED
  BY <1>10, <1>11

(* With strictLength a checkpoint that is not nested in an older one has   *)
(* exactly the configured length, for every list of overlapping            *)
(* checkpoints and every program.                                          *)
THEOREM StrictExact == Spec => []StrictLengthExact
<1>1. Init => NeverOverdue /\ StrictLengthExact
  BY DEF Init, NeverOverdue, StrictLengthExact, saved
<1>2. StrictInv /\ [Next]_vars => (NeverOverdue /\ StrictLengthExact)'
  <2> SUFFICES ASSUME StrictInv, [Next]_vars
               PROVE  NeverOverdue' /\ StrictLengthExact'
    OBVIOUS
  <2>0. EntryInv /\ TypeOK /\ NeverOverdue /\ StrictLengthExact
    BY DEF StrictInv, EntryInv
  <2>1. ASSUME NEW pc \in Pc, ExecInst(pc) PROVE NeverOverdue' /\ StrictLengthExact'
    BY <2>1, ExecInstStrict
  <2>2. ASSUME NEW pc \in Pc, ExecEcall(pc) PROVE NeverOverdue' /\ StrictLengthExact'
    <3>1. \A k \in Ids : info'[k].simNums = info[k].simNums
      BY <2>0, <2>2 DEF TypeOK, CkptInfo, ExecEcall
    <3>2. /\ saved' = saved /\ strictLength' = strictLength
          /\ pending' = pending /\ numInst' = numInst
      BY <2>2 DEF ExecEcall, saved
    <3>3. saved \subseteq Ids
      BY <2>0, CtrlAssumption DEF TypeOK, Ids, saved
    <3>4. QED
      BY <2>0, <3>1, <3>2, <3>3 DEF NeverOverdue, StrictLengthExact, EndsInOrder, endOf
  <2>3. ASSUME NEW pc \in Pc, ProgramExit(pc) PROVE NeverOverdue' /\ StrictLengthExact'
    BY <2>0, <2>3 DEF ProgramExit, NeverOverdue, StrictLengthExact, EndsInOrder, endOf, saved
  <2>4. ASSUME UNCHANGED vars PROVE NeverOverdue' /\ StrictLengthExact'
    BY <2>0, <2>4 DEF vars, NeverOverdue, StrictLengthExact, EndsInOrder, endOf, saved
  <2>5. QED
    BY <2>1, <2>2, <2>3, <2>4 DEF Next
<1>3. QED
  BY <1>1, <1>2, EntryCorrect, PTL DEF Spec, StrictInv

=============================================================================
