---------------------------- MODULE ReplayProofs ----------------------------
(***************************************************************************)
(* Proofs about a checkpoint from end to end, for every set of calls and   *)
(* instructions and every slice.  First the system call section: what the  *)
(* loader finds in the file is what the recorder saw (Spec, SysTable).     *)
(* Then the composition (SliceSpec, Replay): the replay ends at the exit   *)
(* instruction with every event executed, and implements SliceReplay.      *)
(***************************************************************************)
EXTENDS Replay, WellFoundedInduction, SequenceTheorems, TLAPS

(* A nonempty set of natural numbers has a least element: dectect_Sysinfos *)
(* finds the first equal call.                                             *)
LEMMA LeastNat ==
  ASSUME NEW S \in SUBSET Nat, S # {}
  PROVE  \E m \in S : \A n \in S : m <= n
<1> DEFINE R == OpToRel(<, Nat)
<1>1. IsWellFoundedOn(R, Nat)
  BY NatLessThanWellFounded
<1>2. \A m, n \in Nat : n < m => <<n, m>> \in R
  BY DEF OpToRel
<1> HIDE DEF R
<1>3. PICK m \in S : \A n \in S : ~(<<n, m>> \in R)
  BY <1>1, WFMin
<1>4. \A n \in S : ~(n < m)
  BY <1>2, <1>3
<1>5. QED
  BY <1>4

-----------------------------------------------------------------------------
(* One list of table entries, newsysinfos or newsysinfos1: list holds the  *)
(* numbers of calls of one kind (without or with bytes), si the recorded   *)
(* calls, idxs the table indices of the first m of them, and shift is      *)
(* where the list begins in the table.  Each entry is a call that is not   *)
(* the same as an earlier entry and has its own index; each call of the    *)
(* kind has the index of an entry that is the same call.                   *)
ListInv(si, kind, list, idxs, m, shift) ==
  /\ list \in Seq(Nat) /\ idxs \in Seq(Nat) /\ Len(idxs) = m
  /\ \A c \in 1..Len(list) :
       list[c] \in 1..m /\ list[c] \in kind /\ idxs[list[c]] = shift + c - 1
  /\ \A c, d \in 1..Len(list) : c < d => ~isSameSyscall(si[list[d]], si[list[c]])
  /\ \A n \in 1..m : n \in kind =>
       \E c \in 1..Len(list) :
         idxs[n] = shift + c - 1 /\ isSameSyscall(si[n], si[list[c]])

(* dectect_Sysinfos found an entry for the next call. *)
LEMMA ScanHit ==
  ASSUME NEW si, NEW kind, NEW list, NEW idxs, NEW m \in Nat,
         ListInv(si, kind, list, idxs, m, 0),
         NEW c \in 1..Len(list), isSameSyscall(si[m + 1], si[list[c]])
  PROVE  ListInv(si, kind, list, Append(idxs, c - 1), m + 1, 0)
<1> DEFINE more == Append(idxs, c - 1)
<1>1. list \in Seq(Nat) /\ idxs \in Seq(Nat) /\ Len(idxs) = m /\ Len(list) \in Nat
  BY DEF ListInv
<1>2. c - 1 \in Nat
  BY <1>1
<1>3. /\ more \in Seq(Nat) /\ Len(more) = m + 1
      /\ \A n \in 1..m : more[n] = idxs[n]
      /\ more[m + 1] = c - 1
  BY <1>1, <1>2, AppendProperties
<1> HIDE DEF more
<1>4. ASSUME NEW d \in 1..Len(list)
      PROVE  list[d] \in 1..(m + 1) /\ list[d] \in kind /\ more[list[d]] = 0 + d - 1
  <2>1. list[d] \in 1..m /\ list[d] \in kind /\ idxs[list[d]] = 0 + d - 1
    BY DEF ListInv
  <2>2. list[d] \in 1..(m + 1) /\ more[list[d]] = idxs[list[d]]
    BY <1>3, <2>1
  <2>3. QED
    BY <2>1, <2>2
<1>5. ASSUME NEW n \in 1..(m + 1), n \in kind
      PROVE  \E d \in 1..Len(list) : more[n] = 0 + d - 1 /\ isSameSyscall(si[n], si[list[d]])
  <2>1. CASE n = m + 1
    BY <1>1, <1>3, <2>1
  <2>2. CASE n # m + 1
    BY <1>3, <1>5, <2>2 DEF ListInv
  <2>3. QED
    BY <2>1, <2>2
<1>6. QED
  BY <1>1, <1>3, <1>4, <1>5 DEF ListInv, more

(* It found none, and the call becomes an entry. *)
LEMMA ScanMiss ==
  ASSUME NEW si, NEW kind, NEW list, NEW idxs, NEW m \in Nat,
         ListInv(si, kind, list, idxs, m, 0), m + 1 \in kind,
         \A c \in 1..Len(list) : ~isSameSyscall(si[m + 1], si[list[c]])
  PROVE  ListInv(si, kind, Append(list, m + 1), Append(idxs, Len(list)), m + 1, 0)
<1> DEFINE more == Append(idxs, Len(list))
           longer == Append(list, m + 1)
           len == Len(list)
<1>1. list \in Seq(Nat) /\ idxs \in Seq(Nat) /\ Len(idxs) = m /\ len \in Nat
  BY DEF ListInv
<1>2. /\ more \in Seq(Nat) /\ Len(more) = m + 1
      /\ \A n \in 1..m : more[n] = idxs[n]
      /\ more[m + 1] = len
  BY <1>1, AppendProperties
<1>3. /\ longer \in Seq(Nat) /\ Len(longer) = len + 1
      /\ \A c \in 1..len : longer[c] = list[c]
      /\ longer[len + 1] = m + 1
  BY <1>1, AppendProperties
<1> HIDE DEF more, longer
<1>4. \A c \in 1..len : /\ list[c] \in 1..m /\ list[c] \in kind
                        /\ idxs[list[c]] = 0 + c - 1
  BY <1>1 DEF ListInv
<1>5. ASSUME NEW c \in 1..(len + 1)
      PROVE  longer[c] \in 1..(m + 1) /\ longer[c] \in kind /\ more[longer[c]] = 0 + c - 1
  <2>1. CASE c = len + 1
    BY <1>1, <1>2, <1>3, <2>1
  <2>2. CASE c \in 1..len
    <3>1. longer[c] = list[c] /\ list[c] \in 1..m /\ list[c] \in kind
          /\ idxs[list[c]] = 0 + c - 1
      BY <1>3, <1>4, <2>2
    <3>2. more[list[c]] = idxs[list[c]] /\ list[c] \in 1..(m + 1)
      BY <1>2, <3>1
    <3>3. QED
      BY <3>1, <3>2
  <2>3. QED
    BY <1>1, <2>1, <2>2
<1>6. ASSUME NEW c \in 1..(len + 1), NEW d \in 1..(len + 1), c < d
      PROVE  ~isSameSyscall(si[longer[d]], si[longer[c]])
  <2>1. c \in 1..len
    BY <1>1, <1>6
  <2>2. CASE d = len + 1
    BY <1>1, <1>3, <2>1, <2>2
  <2>3. CASE d \in 1..len
    BY <1>3, <1>6, <2>1, <2>3 DEF ListInv
  <2>4. d = len + 1 \/ d \in 1..len
    BY <1>1
  <2>5. QED
    BY <2>2, <2>3, <2>4
<1>7. ASSUME NEW n \in 1..(m + 1), n \in kind
      PROVE  \E c \in 1..(len + 1) :
               more[n] = 0 + c - 1 /\ isSameSyscall(si[n], si[longer[c]])
  <2>1. CASE n = m + 1
    <3>1. /\ len + 1 \in 1..(len + 1) /\ more[n] = 0 + (len + 1) - 1
          /\ longer[len + 1] = n
      BY <1>1, <1>2, <1>3, <2>1
    <3>2. isSameSyscall(si[n], si[n])
      BY DEF isSameSyscall
    <3>3. QED
      BY <3>1, <3>2
  <2>2. CASE n \in 1..m
    <3>1. PICK c \in 1..len : idxs[n] = 0 + c - 1 /\ isSameSyscall(si[n], si[list[c]])
      BY <1>7, <2>2 DEF ListInv
    <3>2. c \in 1..(len + 1) /\ more[n] = 0 + c - 1 /\ longer[c] = list[c]
      BY <1>1, <1>2, <1>3, <2>2, <3>1
    <3>3. QED
      BY <3>1, <3>2
  <2>3. QED
    BY <2>1, <2>2
<1> HIDE DEF len
<1>8. ListInv(si, kind, longer, more, m + 1, 0)
  BY <1>2, <1>3, <1>5, <1>6, <1>7 DEF ListInv
<1>9. QED
  BY <1>8 DEF longer, more, len

(* The next call is of the other kind. *)
LEMMA ScanOther ==
  ASSUME NEW si, NEW kind, NEW list, NEW idxs, NEW m \in Nat,
         ListInv(si, kind, list, idxs, m, 0), m + 1 \notin kind, NEW x \in Nat
  PROVE  ListInv(si, kind, list, Append(idxs, x), m + 1, 0)
<1> DEFINE more == Append(idxs, x)
<1>1. list \in Seq(Nat) /\ idxs \in Seq(Nat) /\ Len(idxs) = m /\ Len(list) \in Nat
  BY DEF ListInv
<1>2. /\ more \in Seq(Nat) /\ Len(more) = m + 1
      /\ \A n \in 1..m : more[n] = idxs[n]
  BY <1>1, AppendProperties
<1> HIDE DEF more
<1>3. ASSUME NEW d \in 1..Len(list)
      PROVE  list[d] \in 1..(m + 1) /\ list[d] \in kind /\ more[list[d]] = 0 + d - 1
  BY <1>1, <1>2 DEF ListInv
<1>4. ASSUME NEW n \in 1..(m + 1), n \in kind
      PROVE  \E d \in 1..Len(list) : more[n] = 0 + d - 1 /\ isSameSyscall(si[n], si[list[d]])
  <2>1. n \in 1..m
    BY <1>4
  <2>2. QED
    BY <1>2, <1>4, <2>1 DEF ListInv
<1>5. QED
  BY <1>1, <1>2, <1>3, <1>4 DEF ListInv, more

(* WriteIndexes moves the indices of the calls with bytes. *)
LEMMA Relocated ==
  ASSUME NEW si, NEW kind, NEW list, NEW idxs, NEW m \in Nat,
         ListInv(si, kind, list, idxs, m, 0), NEW shift \in Nat,
         NEW moved \in Seq(Nat), Len(moved) = m,
         \A n \in 1..m : n \in kind => moved[n] = shift + idxs[n]
  PROVE  ListInv(si, kind, list, moved, m, shift)
<1>1. list \in Seq(Nat) /\ idxs \in Seq(Nat) /\ Len(idxs) = m /\ Len(list) \in Nat
  BY DEF ListInv
<1>2. ASSUME NEW c \in 1..Len(list)
      PROVE  list[c] \in 1..m /\ list[c] \in kind /\ moved[list[c]] = shift + c - 1
  <2>1. list[c] \in 1..m /\ list[c] \in kind /\ idxs[list[c]] = 0 + c - 1
    BY DEF ListInv
  <2>2. moved[list[c]] = shift + (0 + c - 1)
    BY <2>1
  <2>3. shift + (0 + c - 1) = shift + c - 1
    BY <1>1
  <2>4. QED
    BY <2>1, <2>2, <2>3
<1>3. ASSUME NEW n \in 1..m, n \in kind
      PROVE  \E c \in 1..Len(list) :
               moved[n] = shift + c - 1 /\ isSameSyscall(si[n], si[list[c]])
  <2>1. PICK c \in 1..Len(list) : idxs[n] = 0 + c - 1 /\ isSameSyscall(si[n], si[list[c]])
    BY <1>3 DEF ListInv
  <2>2. moved[n] = shift + (0 + c - 1) /\ shift + (0 + c - 1) = shift + c - 1
    BY <1>1, <1>3, <2>1
  <2>3. QED
    BY <2>1, <2>2
<1>4. QED
  BY <1>1, <1>2, <1>3 DEF ListInv

-----------------------------------------------------------------------------
(* What the hooks make of a call: everything that the loader needs. *)
LEMMA SyscallFields ==
  ASSUME NEW c \in Calls
  PROVE  /\ syscall(c) \in SyscallInfo
         /\ syscall(c).pc = c.pc /\ syscall(c).num = c.num /\ syscall(c).p0 = c.p0
         /\ syscall(c).ret = c.ret /\ syscall(c).hasret = (c.return # "suppressed")
         /\ syscall(c).bufaddr = c.bufaddr /\ syscall(c).data = c.data
<1>1. /\ c.pc \in Nat \ {0} /\ c.num \in Nat /\ c.p0 \in Nat /\ c.ret \in Nat
      /\ c.bufaddr \in Nat /\ c.data \in Seq(Nat)
  BY CallAssumption
<1>2. <<>> \o c.data = c.data
  BY <1>1
<1> DEFINE has == c.return # "suppressed"
           full == [pc |-> c.pc, num |-> c.num, p0 |-> c.p0, ret |-> c.ret,
                    hasret |-> has, bufaddr |-> c.bufaddr, data |-> c.data]
           no == FALSE
           Ret(info) == [info EXCEPT !.ret = c.ret, !.hasret = has]
<1>3. \A info : add_sysret(info, c) = Ret(info)
  BY Zenon DEF add_sysret
<1> HIDE DEF has, no
<1>4. syscall(c) = full
  <2>1. CASE c.bufaddr = 0 /\ c.data = <<>>
    <3>1. syscall(c) = add_sysret(add_sysenter(c), c)
      BY <2>1, Zenon DEF syscall
    <3>2. syscall(c) = Ret([pc |-> c.pc, num |-> c.num, p0 |-> c.p0, ret |-> 0,
                            hasret |-> no, bufaddr |-> 0, data |-> <<>>])
      BY <1>3, <3>1 DEF add_sysenter, no
    <3>3. QED
      BY <2>1, <3>2
  <2>2. CASE ~(c.bufaddr = 0 /\ c.data = <<>>)
    <3>1. syscall(c) = add_sysret(add_sysexe(add_sysenter(c), c), c)
      BY <2>2, Zenon DEF syscall
    <3>2. add_sysexe(add_sysenter(c), c)
            = [pc |-> c.pc, num |-> c.num, p0 |-> c.p0, ret |-> c.ret,
               hasret |-> no, bufaddr |-> c.bufaddr, data |-> c.data]
      <4>1. add_sysenter(c) = [pc |-> c.pc, num |-> c.num, p0 |-> c.p0, ret |-> 0,
                               hasret |-> no, bufaddr |-> 0, data |-> <<>>]
        BY Zenon DEF add_sysenter, no
      <4>2. add_sysenter(c).data = <<>>
        BY <4>1
      <4>3. add_sysexe(add_sysenter(c), c)
              = [add_sysenter(c) EXCEPT !.ret = c.ret, !.bufaddr = c.bufaddr, !.data = c.data]
        BY <1>2, <4>2 DEF add_sysexe
      <4>4. add_sysexe(add_sysenter(c), c)
              = [[pc |-> c.pc, num |-> c.num, p0 |-> c.p0, ret |-> 0,
                  hasret |-> no, bufaddr |-> 0, data |-> <<>>]
                 EXCEPT !.ret = c.ret, !.bufaddr = c.bufaddr, !.data = c.data]
        BY <4>1, <4>3, Zenon
      <4>5. QED
        BY <4>4
    <3>3. syscall(c) = Ret([pc |-> c.pc, num |-> c.num, p0 |-> c.p0, ret |-> c.ret,
                            hasret |-> no, bufaddr |-> c.bufaddr, data |-> c.data])
      BY <1>3, <3>1, <3>2
    <3>4. QED
      BY <3>3
  <2>3. QED
    BY <2>1, <2>2
<1>5. has \in BOOLEAN
  BY Zenon DEF has
<1>6. QED
  BY <1>1, <1>4, <1>5 DEF SyscallInfo, has

(* The recorded calls are the calls of the slice; nothing is written       *)
(* before saveSysInfo begins.                                              *)
RecordInv ==
  /\ TypeOK
  /\ Len(sysinfos) = Len(calls)
  /\ \A n \in 1..Len(calls) : sysinfos[n] = syscall(calls[n])
  /\ phase \in {"record", "scan"} => infos = <<>> /\ blobs = {}
  /\ phase = "record" =>
       i = 1 /\ sys_idxs = <<>> /\ newsysinfos = <<>> /\ newsysinfos1 = <<>>

(* The two kinds of calls. *)
Plain == {n \in 1..Len(sysinfos) : sysinfos[n].data = <<>>}
WithData == {n \in 1..Len(sysinfos) : sysinfos[n].data # <<>>}

ScanInv ==
  /\ phase = "scan" =>
       /\ i - 1 <= Len(sysinfos)
       /\ ListInv(sysinfos, Plain, newsysinfos, sys_idxs, i - 1, 0)
       /\ ListInv(sysinfos, WithData, newsysinfos1, sys_idxs, i - 1, 0)
  /\ phase \in {"info", "info1", "data", "done"} =>
       /\ ListInv(sysinfos, Plain, newsysinfos, sys_idxs, Len(sysinfos), 0)
       /\ ListInv(sysinfos, WithData, newsysinfos1, sys_idxs, Len(sysinfos),
                  Len(newsysinfos))

TableInv == RecordInv /\ ScanInv

(* One more call is recorded. *)
LEMMA RecordStep ==
  ASSUME TableInv, NEW c \in Calls, RecordCall(c)
  PROVE  TableInv'
<1>1. /\ phase = "record" /\ phase' = "record"
      /\ calls' = Append(calls, c) /\ sysinfos' = Append(sysinfos, syscall(c))
      /\ UNCHANGED <<i, sys_idxs, newsysinfos, newsysinfos1, infos, data_addr, pos, blobs>>
  BY DEF RecordCall, scanning, writing
<1>2. /\ calls \in Seq(Calls) /\ sysinfos \in Seq(SyscallInfo) /\ Len(sysinfos) = Len(calls)
      /\ i = 1 /\ sys_idxs = <<>> /\ newsysinfos = <<>> /\ newsysinfos1 = <<>>
      /\ infos = <<>> /\ blobs = {} /\ data_addr \in Nat /\ pos \in Nat
  BY <1>1 DEF TableInv, RecordInv, TypeOK
<1>3. syscall(c) \in SyscallInfo
  BY SyscallFields
<1>4. /\ calls' \in Seq(Calls) /\ Len(calls') = Len(calls) + 1 /\ Len(calls) \in Nat
      /\ \A n \in 1..Len(calls) : calls'[n] = calls[n]
      /\ calls'[Len(calls) + 1] = c
  BY <1>1, <1>2, AppendProperties
<1>5. /\ sysinfos' \in Seq(SyscallInfo) /\ Len(sysinfos') = Len(calls) + 1
      /\ \A n \in 1..Len(calls) : sysinfos'[n] = sysinfos[n]
      /\ sysinfos'[Len(calls) + 1] = syscall(c)
  BY <1>1, <1>2, <1>3, AppendProperties
<1>6. \A n \in 1..Len(calls') : sysinfos'[n] = syscall(calls'[n])
  <2>1. \A n \in 1..Len(calls) : sysinfos[n] = syscall(calls[n])
    BY DEF TableInv, RecordInv
  <2>2. \A n \in 1..Len(calls') : n \in 1..Len(calls) \/ n = Len(calls) + 1
    BY <1>4
  <2>3. QED
    BY <1>4, <1>5, <2>1, <2>2
<1>7. <<>> \in Seq(Nat) /\ <<>> \in Seq(DOMAIN sysinfos')
  OBVIOUS
<1>8. TypeOK'
  BY <1>1, <1>2, <1>4, <1>5, <1>7 DEF TypeOK
<1>9. RecordInv'
  BY <1>1, <1>2, <1>4, <1>5, <1>6, <1>8 DEF RecordInv
<1>10. ScanInv'
  BY <1>1 DEF ScanInv
<1>11. QED
  BY <1>9, <1>10 DEF TableInv

(* With no call scanned both lists are in order. *)
LEMMA StartStep ==
  ASSUME TableInv, StartSave
  PROVE  TableInv'
<1>1. /\ phase = "record" /\ phase' = "scan"
      /\ UNCHANGED <<calls, sysinfos, i, sys_idxs, newsysinfos, newsysinfos1,
                     infos, data_addr, pos, blobs>>
  BY DEF StartSave, recording, scanning, writing
<1>2. /\ i = 1 /\ sys_idxs = <<>> /\ newsysinfos = <<>> /\ newsysinfos1 = <<>>
      /\ sysinfos \in Seq(SyscallInfo)
  BY <1>1 DEF TableInv, RecordInv, TypeOK
<1>3. RecordInv'
  BY <1>1 DEF TableInv, RecordInv, TypeOK
<1>4. \A kind : ListInv(sysinfos, kind, <<>>, <<>>, 0, 0)
  BY DEF ListInv
<1>5. Len(sysinfos) \in Nat /\ i - 1 = 0
  BY <1>2
<1>6. ScanInv'
  BY <1>1, <1>2, <1>4, <1>5 DEF ScanInv
<1>7. QED
  BY <1>3, <1>6 DEF TableInv

(* dectect_Sysinfos compares nothing for a call whose address or number is *)
(* new, and misses no entry by that.                                       *)
LEMMA Detected ==
  ASSUME NEW news, NEW kind, NEW n \in Nat \ {0},
         ListInv(sysinfos, kind, news, sys_idxs, n - 1, 0),
         \A j \in 1..(n - 1) : j \in kind => j \in sameKind(n)
  PROVE  LET res == dectect_Sysinfos(n, news) IN
         \/ res \in 1..Len(news) /\ isSameSyscall(sysinfos[n], sysinfos[news[res]])
         \/ /\ res = Len(news) + 1
            /\ \A c \in 1..Len(news) : ~isSameSyscall(sysinfos[n], sysinfos[news[c]])
<1>1. news \in Seq(Nat) /\ DOMAIN news = 1..Len(news) /\ Len(news) \in Nat
  BY DEF ListInv
<1>2. \A c \in 1..Len(news) : news[c] \in 1..(n - 1) /\ news[c] \in kind
  BY DEF ListInv
<1>3. CASE candidates(n, news) = {}
  <2>1. dectect_Sysinfos(n, news) = Len(news) + 1
    BY <1>3 DEF dectect_Sysinfos
  <2>2. ASSUME NEW c \in 1..Len(news), isSameSyscall(sysinfos[n], sysinfos[news[c]])
        PROVE  FALSE
    <3>1. news[c] \in sameKind(n)
      BY <1>2
    <3>2. sysinfos[news[c]].pc = sysinfos[n].pc /\ sysinfos[news[c]].num = sysinfos[n].num
      BY <2>2 DEF isSameSyscall
    <3>3. candidates(n, news)
            = {d \in DOMAIN news : isSameSyscall(sysinfos[n], sysinfos[news[d]])}
      BY <3>1, <3>2, Zenon DEF candidates
    <3>4. c \in candidates(n, news)
      BY <1>1, <2>2, <3>3
    <3>5. QED
      BY <1>3, <3>4
  <2>3. QED
    BY <2>1, <2>2
<1>4. CASE candidates(n, news) # {}
  <2>1. candidates(n, news)
          \subseteq {d \in DOMAIN news : isSameSyscall(sysinfos[n], sysinfos[news[d]])}
    BY DEF candidates
  <2>2. candidates(n, news) \in SUBSET Nat
    BY <1>1, <2>1
  <2>3. \E c \in candidates(n, news) : \A d \in candidates(n, news) : c <= d
    BY <1>4, <2>2, LeastNat
  <2>4. dectect_Sysinfos(n, news) \in candidates(n, news)
    BY <1>4, <2>3 DEF dectect_Sysinfos
  <2>5. QED
    BY <1>1, <2>1, <2>4
<1>5. QED
  BY <1>3, <1>4

(* One iteration of the first loop. *)
LEMMA ScanStep ==
  ASSUME TableInv, Scan
  PROVE  TableInv'
<1> DEFINE plain == sysinfos[i].data = <<>>
           res == dectect_Sysinfos(i, IF plain THEN newsysinfos ELSE newsysinfos1)
<1>1. /\ phase = "scan" /\ phase' = "scan" /\ i <= Len(sysinfos) /\ i' = i + 1
      /\ sys_idxs' = Append(sys_idxs, res - 1)
      /\ UNCHANGED <<calls, sysinfos, infos, data_addr, pos, blobs>>
  BY DEF Scan, recording, writing
<1>2. /\ sysinfos \in Seq(SyscallInfo) /\ i \in Nat \ {0} /\ Len(sysinfos) \in Nat
      /\ sys_idxs \in Seq(Nat) /\ i \in 1..Len(sysinfos)
      /\ newsysinfos \in Seq(DOMAIN sysinfos) /\ newsysinfos1 \in Seq(DOMAIN sysinfos)
      /\ Len(newsysinfos) \in Nat /\ Len(newsysinfos1) \in Nat
      /\ DOMAIN sysinfos = 1..Len(sysinfos)
  BY <1>1 DEF TableInv, RecordInv, TypeOK
<1>3. /\ ListInv(sysinfos, Plain, newsysinfos, sys_idxs, i - 1, 0)
      /\ ListInv(sysinfos, WithData, newsysinfos1, sys_idxs, i - 1, 0)
  BY <1>1 DEF TableInv, ScanInv
<1>4. i - 1 \in Nat /\ (i - 1) + 1 = i /\ i' - 1 = i /\ i' \in Nat \ {0} /\ i' - 1 <= Len(sysinfos)
  BY <1>1, <1>2
<1>5. Plain' = Plain /\ WithData' = WithData
  BY <1>1 DEF Plain, WithData
<1>6. res - 1 \in Nat /\ newsysinfos' \in Seq(DOMAIN sysinfos)
      /\ newsysinfos1' \in Seq(DOMAIN sysinfos)
      /\ ListInv(sysinfos, Plain, newsysinfos', sys_idxs', i, 0)
      /\ ListInv(sysinfos, WithData, newsysinfos1', sys_idxs', i, 0)
  <2>1. CASE plain
    <3>1. /\ res = dectect_Sysinfos(i, newsysinfos)
          /\ newsysinfos' = (IF res > Len(newsysinfos) THEN Append(newsysinfos, i)
                                                      ELSE newsysinfos)
          /\ newsysinfos1' = newsysinfos1
      BY <2>1 DEF Scan
    <3>2. i \in Plain /\ i \notin WithData
      BY <1>2, <2>1 DEF Plain, WithData
    <3>3. \A j \in 1..(i - 1) : j \in Plain => j \in sameKind(i)
      BY <2>1 DEF sameKind, Plain
    <3>4. \/ /\ res \in 1..Len(newsysinfos)
             /\ isSameSyscall(sysinfos[i], sysinfos[newsysinfos[res]])
          \/ /\ res = Len(newsysinfos) + 1
             /\ \A c \in 1..Len(newsysinfos) :
                  ~isSameSyscall(sysinfos[i], sysinfos[newsysinfos[c]])
      BY <1>2, <1>3, <3>1, <3>3, Detected
    <3> HIDE DEF res
    <3>5. res - 1 \in Nat
      BY <1>2, <3>4
    <3>6. ListInv(sysinfos, WithData, newsysinfos1', sys_idxs', (i - 1) + 1, 0)
      BY <1>1, <1>3, <1>4, <3>1, <3>2, <3>5, ScanOther
    <3>7. CASE res \in 1..Len(newsysinfos)
      <4>1. newsysinfos' = newsysinfos /\ isSameSyscall(sysinfos[i], sysinfos[newsysinfos[res]])
        BY <1>2, <3>1, <3>4, <3>7
      <4>2. ListInv(sysinfos, Plain, newsysinfos, Append(sys_idxs, res - 1), (i - 1) + 1, 0)
        BY <1>3, <1>4, <3>7, <4>1, ScanHit
      <4>3. QED
        BY <1>1, <1>2, <1>4, <3>1, <3>5, <3>6, <4>1, <4>2
    <3>8. CASE res = Len(newsysinfos) + 1
      <4>1. /\ newsysinfos' = Append(newsysinfos, i) /\ res - 1 = Len(newsysinfos)
            /\ \A c \in 1..Len(newsysinfos) :
                  ~isSameSyscall(sysinfos[i], sysinfos[newsysinfos[c]])
        BY <1>2, <3>1, <3>4, <3>8
      <4>2. ListInv(sysinfos, Plain, Append(newsysinfos, (i - 1) + 1),
                    Append(sys_idxs, Len(newsysinfos)), (i - 1) + 1, 0)
        BY <1>3, <1>4, <3>2, <4>1, ScanMiss
      <4>3. newsysinfos' \in Seq(DOMAIN sysinfos)
        BY <1>2, <4>1, AppendProperties
      <4>4. QED
        BY <1>1, <1>2, <1>4, <3>1, <3>5, <3>6, <4>1, <4>2, <4>3
    <3>9. QED
      BY <3>4, <3>7, <3>8
  <2>2. CASE ~plain
    <3>1. /\ res = dectect_Sysinfos(i, newsysinfos1)
          /\ newsysinfos1' = (IF res > Len(newsysinfos1) THEN Append(newsysinfos1, i)
                                                        ELSE newsysinfos1)
          /\ newsysinfos' = newsysinfos
      BY <2>2 DEF Scan
    <3>2. i \in WithData /\ i \notin Plain
      BY <1>2, <2>2 DEF Plain, WithData
    <3>3. \A j \in 1..(i - 1) : j \in WithData => j \in sameKind(i)
      BY <2>2 DEF sameKind, WithData
    <3>4. \/ /\ res \in 1..Len(newsysinfos1)
             /\ isSameSyscall(sysinfos[i], sysinfos[newsysinfos1[res]])
          \/ /\ res = Len(newsysinfos1) + 1
             /\ \A c \in 1..Len(newsysinfos1) :
                  ~isSameSyscall(sysinfos[i], sysinfos[newsysinfos1[c]])
      BY <1>2, <1>3, <3>1, <3>3, Detected
    <3> HIDE DEF res
    <3>5. res - 1 \in Nat
      BY <1>2, <3>4
    <3>6. ListInv(sysinfos, Plain, newsysinfos', sys_idxs', (i - 1) + 1, 0)
      BY <1>1, <1>3, <1>4, <3>1, <3>2, <3>5, ScanOther
    <3>7. CASE res \in 1..Len(newsysinfos1)
      <4>1. newsysinfos1' = newsysinfos1 /\ isSameSyscall(sysinfos[i], sysinfos[newsysinfos1[res]])
        BY <1>2, <3>1, <3>4, <3>7
      <4>2. ListInv(sysinfos, WithData, newsysinfos1, Append(sys_idxs, res - 1), (i - 1) + 1, 0)
        BY <1>3, <1>4, <3>7, <4>1, ScanHit
      <4>3. QED
        BY <1>1, <1>2, <1>4, <3>1, <3>5, <3>6, <4>1, <4>2
    <3>8. CASE res = Len(newsysinfos1) + 1
      <4>1. /\ newsysinfos1' = Append(newsysinfos1, i) /\ res - 1 = Len(newsysinfos1)
            /\ \A c \in 1..Len(newsysinfos1) :
                  ~isSameSyscall(sysinfos[i], sysinfos[newsysinfos1[c]])
        BY <1>2, <3>1, <3>4, <3>8
      <4>2. ListInv(sysinfos, WithData, Append(newsysinfos1, (i - 1) + 1),
                    Append(sys_idxs, Len(newsysinfos1)), (i - 1) + 1, 0)
        BY <1>3, <1>4, <3>2, <4>1, ScanMiss
      <4>3. newsysinfos1' \in Seq(DOMAIN sysinfos)
        BY <1>2, <4>1, AppendProperties
      <4>4. QED
        BY <1>1, <1>2, <1>4, <3>1, <3>5, <3>6, <4>1, <4>2, <4>3
    <3>9. QED
      BY <3>4, <3>7, <3>8
  <2>3. QED
    BY <2>1, <2>2
<1> HIDE DEF res, plain
<1>7. sys_idxs' \in Seq(Nat)
  BY <1>1, <1>2, <1>6, AppendProperties
<1>8. TypeOK'
  BY <1>1, <1>2, <1>4, <1>6, <1>7 DEF TableInv, RecordInv, TypeOK
<1>9. RecordInv'
  BY <1>1, <1>8 DEF TableInv, RecordInv
<1>10. ScanInv'
  BY <1>1, <1>4, <1>5, <1>6 DEF ScanInv
<1>11. QED
  BY <1>9, <1>10 DEF TableInv

(* The second part of saveSysInfo begins: the lists are one table now. *)
LEMMA IndexStep ==
  ASSUME TableInv, WriteIndexes
  PROVE  TableInv'
<1>1. /\ phase = "scan" /\ phase' = "info" /\ i > Len(sysinfos) /\ i' = 1
      /\ sys_idxs' = relocate
      /\ data_addr' = 4 * Len(sysinfos) + 40 * tableSize + 8
      /\ pos' = 8 + 4 * Len(sysinfos)
      /\ UNCHANGED <<calls, sysinfos, newsysinfos, newsysinfos1, infos, blobs>>
  BY DEF WriteIndexes, recording
<1>2. /\ sysinfos \in Seq(SyscallInfo) /\ i \in Nat \ {0} /\ Len(sysinfos) \in Nat
      /\ sys_idxs \in Seq(Nat) /\ Len(newsysinfos) \in Nat /\ Len(newsysinfos1) \in Nat
  BY <1>1 DEF TableInv, RecordInv, TypeOK
<1>3. i - 1 = Len(sysinfos)
  BY <1>1, <1>2 DEF TableInv, ScanInv
<1>4. /\ ListInv(sysinfos, Plain, newsysinfos, sys_idxs, Len(sysinfos), 0)
      /\ ListInv(sysinfos, WithData, newsysinfos1, sys_idxs, Len(sysinfos), 0)
  BY <1>1, <1>3 DEF TableInv, ScanInv
<1>5. Len(sys_idxs) = Len(sysinfos) /\ DOMAIN sys_idxs = 1..Len(sysinfos)
  BY <1>2, <1>4 DEF ListInv
<1>6. /\ relocate \in Seq(Nat) /\ Len(relocate) = Len(sysinfos)
      /\ \A n \in 1..Len(sysinfos) :
           /\ n \in Plain => relocate[n] = 0 + sys_idxs[n]
           /\ n \in WithData => relocate[n] = Len(newsysinfos) + sys_idxs[n]
  <2>1. \A n \in 1..Len(sysinfos) : sys_idxs[n] \in Nat
    BY <1>2, <1>5
  <2>2. \A n \in 1..Len(sysinfos) :
          /\ n \in Plain => relocate[n] = 0 + sys_idxs[n]
          /\ n \in WithData => relocate[n] = Len(newsysinfos) + sys_idxs[n]
    BY <1>2, <1>5, <2>1 DEF relocate, Plain, WithData
  <2>3. relocate \in [1..Len(sysinfos) -> Nat]
    BY <1>2, <1>5, <2>1 DEF relocate
  <2>4. QED
    BY <1>2, <2>2, <2>3
<1>7. Plain' = Plain /\ WithData' = WithData
  BY <1>1 DEF Plain, WithData
<1>8. ListInv(sysinfos, Plain, newsysinfos, relocate, Len(sysinfos), 0)
  BY <1>2, <1>4, <1>6, Relocated
<1>9. ListInv(sysinfos, WithData, newsysinfos1, relocate, Len(sysinfos), Len(newsysinfos))
  BY <1>2, <1>4, <1>6, Relocated
<1>10. TypeOK'
  <2>1. data_addr' \in Nat /\ pos' \in Nat /\ i' \in Nat \ {0}
    BY <1>1, <1>2 DEF tableSize
  <2>2. QED
    BY <1>1, <1>6, <2>1 DEF TableInv, RecordInv, TypeOK
<1>11. RecordInv'
  BY <1>1, <1>10 DEF TableInv, RecordInv
<1>12. ScanInv'
  BY <1>1, <1>7, <1>8, <1>9 DEF ScanInv
<1>13. QED
  BY <1>11, <1>12 DEF TableInv

(* The phases behind the construction of the table. *)
Late == {"info", "info1", "data", "done"}

(* The loops that write the entries and the bytes leave the table alone. *)
LEMMA WriteStep ==
  ASSUME TableInv, phase \in Late, phase' \in Late, UNCHANGED <<recording, scanning>>,
         i' \in Nat \ {0}, data_addr' \in Nat, pos' \in Nat
  PROVE  TableInv'
<1>1. UNCHANGED <<calls, sysinfos, sys_idxs, newsysinfos, newsysinfos1>>
  BY DEF recording, scanning
<1>2. RecordInv'
  BY <1>1 DEF Late, TableInv, RecordInv, TypeOK
<1>3. Plain' = Plain /\ WithData' = WithData
  BY <1>1 DEF Plain, WithData
<1>4. ScanInv'
  BY <1>1, <1>3 DEF Late, TableInv, ScanInv
<1>5. QED
  BY <1>2, <1>4 DEF TableInv

-----------------------------------------------------------------------------
(* The layout of the section.  The k-th entry with bytes, the offset that  *)
(* is stored in it, the offset behind its bytes, and what is written there.*)
dataInfo(k) == sysinfos[newsysinfos1[k]]
Off(k) == infos[Len(newsysinfos) + k].data_offset
End(k) == Off(k) + Len(dataInfo(k).data) + 8
blob(k) == [at |-> Off(k), bufaddr |-> dataInfo(k).bufaddr, data |-> dataInfo(k).data]

(* Where the bytes begin. *)
base == 4 * Len(sysinfos) + 40 * (Len(newsysinfos) + Len(newsysinfos1)) + 8

(* The first m entries without bytes have been written. *)
PlainEntries(m) ==
  \A k \in 1..m : infos[k] = entry(sysinfos[newsysinfos[k]], invalid_addr)

(* The first m entries with bytes have been written: their offsets leave   *)
(* room for the bytes of the ones before, and next is where the bytes of   *)
(* the next one will go.                                                   *)
DataEntries(m, next) ==
  /\ \A k \in 1..m : /\ infos[Len(newsysinfos) + k] = entry(dataInfo(k), Off(k))
                     /\ Off(k) \in Nat /\ Off(k) < next
                     /\ k = 1 => Off(k) = base
                     /\ k = m => next = End(k)
  /\ \A k \in 1..m : k + 1 \in 1..m => Off(k + 1) = End(k)
  /\ \A j, k \in 1..m : j < k => Off(j) < Off(k)
  /\ m = 0 => next = base

Entry == [pc : Nat \ {0}, num : Nat, size : Nat, p0 : Nat, ret : Nat,
          hasret : BOOLEAN, data_offset : Int]

FileInv ==
  LET L0 == Len(newsysinfos)
      L1 == Len(newsysinfos1) IN
  /\ phase = "info" =>
       /\ Len(infos) = i - 1 /\ i - 1 <= L0 /\ PlainEntries(i - 1)
       /\ data_addr = base /\ pos = 8 + 4 * Len(sysinfos) + 40 * (i - 1)
       /\ blobs = {}
  /\ phase = "info1" =>
       /\ Len(infos) = L0 + (i - 1) /\ i - 1 <= L1 /\ PlainEntries(L0)
       /\ DataEntries(i - 1, data_addr)
       /\ pos = 8 + 4 * Len(sysinfos) + 40 * (L0 + (i - 1))
       /\ blobs = {}
  /\ phase \in {"data", "done"} =>
       /\ Len(infos) = L0 + L1 /\ i - 1 <= L1 /\ PlainEntries(L0)
       /\ DataEntries(L1, data_addr)
       /\ i <= L1 => pos = Off(i)
       /\ blobs = {blob(k) : k \in 1..(i - 1)}
  /\ phase = "done" => i - 1 = L1
  /\ infos \in Seq(Entry)

(* An entry is well typed. *)
LEMMA EntryType ==
  ASSUME NEW s \in SyscallInfo, NEW o \in Int
  PROVE  entry(s, o) \in Entry /\ entry(s, o).data_offset = o
<1>1. Len(s.data) \in Nat
  BY DEF SyscallInfo
<1>2. QED
  BY <1>1 DEF entry, Entry, SyscallInfo

(* What the steps of the last loops know of the table. *)
LEMMA LateFacts ==
  ASSUME TableInv
  PROVE  /\ Len(newsysinfos) \in Nat /\ Len(newsysinfos1) \in Nat /\ Len(sysinfos) \in Nat
         /\ \A k \in 1..Len(newsysinfos) : sysinfos[newsysinfos[k]] \in SyscallInfo
         /\ \A k \in 1..Len(newsysinfos1) :
              dataInfo(k) \in SyscallInfo /\ Len(dataInfo(k).data) \in Nat
         /\ i \in Nat \ {0} /\ data_addr \in Nat /\ pos \in Nat /\ base \in Nat
<1>1. /\ sysinfos \in Seq(SyscallInfo) /\ newsysinfos \in Seq(DOMAIN sysinfos)
      /\ newsysinfos1 \in Seq(DOMAIN sysinfos)
      /\ i \in Nat \ {0} /\ data_addr \in Nat /\ pos \in Nat
  BY DEF TableInv, RecordInv, TypeOK
<1>2. Len(newsysinfos) \in Nat /\ Len(newsysinfos1) \in Nat /\ Len(sysinfos) \in Nat
  BY <1>1
<1>3. \A k \in 1..Len(newsysinfos) : sysinfos[newsysinfos[k]] \in SyscallInfo
  BY <1>1
<1>4. \A k \in 1..Len(newsysinfos1) : dataInfo(k) \in SyscallInfo
  BY <1>1 DEF dataInfo
<1>5. \A s \in SyscallInfo : Len(s.data) \in Nat
  BY DEF SyscallInfo
<1>6. base \in Nat
  BY <1>2 DEF base
<1>7. QED
  BY <1>1, <1>2, <1>3, <1>4, <1>5, <1>6

(* The indices are written. *)
LEMMA FileIndexes ==
  ASSUME TableInv, FileInv, WriteIndexes
  PROVE  FileInv'
<1>1. /\ phase = "scan" /\ phase' = "info" /\ i' = 1
      /\ data_addr' = 4 * Len(sysinfos) + 40 * tableSize + 8
      /\ pos' = 8 + 4 * Len(sysinfos)
      /\ UNCHANGED <<sysinfos, newsysinfos, newsysinfos1, infos, blobs>>
  BY DEF WriteIndexes, recording
<1>2. infos = <<>> /\ blobs = {}
  BY <1>1 DEF TableInv, RecordInv
<1>3. Len(newsysinfos) \in Nat /\ Len(sysinfos) \in Nat
  BY LateFacts
<1>4. /\ Len(infos') = i' - 1 /\ i' - 1 <= Len(newsysinfos') /\ i' - 1 = 0
      /\ pos' = 8 + 4 * Len(sysinfos') + 40 * (i' - 1)
  BY <1>1, <1>2, <1>3
<1>5. PlainEntries(i - 1)'
  BY <1>4 DEF PlainEntries
<1>6. data_addr' = base'
  BY <1>1 DEF base, tableSize
<1>7. QED
  BY <1>1, <1>2, <1>4, <1>5, <1>6 DEF FileInv

(* An entry without bytes is written. *)
LEMMA FileInfo ==
  ASSUME TableInv, FileInv, WriteInfo
  PROVE  TableInv' /\ FileInv'
<1> DEFINE e == entry(sysinfos[newsysinfos[i]], invalid_addr)
<1>1. /\ phase = "info" /\ phase' = "info" /\ i' = i + 1 /\ i <= Len(newsysinfos)
      /\ infos' = Append(infos, e) /\ pos' = pos + 40
      /\ UNCHANGED <<recording, scanning, data_addr, blobs>>
      /\ UNCHANGED <<sysinfos, newsysinfos, newsysinfos1>>
  BY DEF WriteInfo, recording, scanning
<1>2. /\ Len(newsysinfos) \in Nat /\ Len(sysinfos) \in Nat /\ i \in Nat \ {0} /\ pos \in Nat
      /\ data_addr \in Nat /\ i \in 1..Len(newsysinfos)
  BY <1>1, LateFacts
<1>3. TableInv'
  BY <1>1, <1>2, WriteStep DEF Late
<1>4. /\ Len(infos) = i - 1 /\ PlainEntries(i - 1) /\ infos \in Seq(Entry)
      /\ data_addr = base /\ pos = 8 + 4 * Len(sysinfos) + 40 * (i - 1) /\ blobs = {}
  BY <1>1 DEF FileInv
<1>5. e \in Entry
  BY <1>2, LateFacts, EntryType DEF invalid_addr
<1> HIDE DEF e
<1>6. /\ infos' \in Seq(Entry) /\ Len(infos') = i /\ infos'[i] = e
      /\ \A k \in 1..(i - 1) : infos'[k] = infos[k]
  <2>1. /\ infos' \in Seq(Entry) /\ Len(infos') = (i - 1) + 1 /\ infos'[(i - 1) + 1] = e
        /\ \A k \in 1..(i - 1) : infos'[k] = infos[k]
    BY <1>1, <1>4, <1>5, AppendProperties
  <2>2. (i - 1) + 1 = i
    BY <1>2
  <2>3. QED
    BY <2>1, <2>2
<1>7. PlainEntries(i - 1)'
  <2>1. \A k \in 1..(i' - 1) : infos'[k] = entry(sysinfos[newsysinfos[k]], invalid_addr)
    <3>1. \A k \in 1..(i' - 1) : k \in 1..(i - 1) \/ k = i
      BY <1>1, <1>2
    <3>2. QED
      BY <1>4, <1>6, <3>1 DEF PlainEntries, e
  <2>2. QED
    BY <1>1, <2>1 DEF PlainEntries, invalid_addr, entry
<1>8. data_addr' = base'
  BY <1>1, <1>4 DEF base
<1>9. /\ Len(infos') = i' - 1 /\ i' - 1 <= Len(newsysinfos')
      /\ pos' = 8 + 4 * Len(sysinfos') + 40 * (i' - 1)
  BY <1>1, <1>2, <1>4, <1>6
<1>10. FileInv'
  BY <1>1, <1>4, <1>6, <1>7, <1>8, <1>9 DEF FileInv, Entry
<1>11. QED
  BY <1>3, <1>10

(* The loop over the entries with bytes begins. *)
LEMMA FileInfo1Start ==
  ASSUME TableInv, FileInv, StartInfo1
  PROVE  TableInv' /\ FileInv'
<1>1. /\ phase = "info" /\ phase' = "info1" /\ i' = 1 /\ i > Len(newsysinfos)
      /\ UNCHANGED <<recording, scanning, data_addr, pos, infos, blobs>>
      /\ UNCHANGED <<sysinfos, newsysinfos, newsysinfos1>>
  BY DEF StartInfo1, recording, scanning, writing
<1>2. /\ Len(newsysinfos) \in Nat /\ Len(newsysinfos1) \in Nat /\ Len(sysinfos) \in Nat
      /\ i \in Nat \ {0} /\ pos \in Nat /\ data_addr \in Nat
  BY <1>1, LateFacts
<1>3. TableInv'
  BY <1>1, <1>2, WriteStep DEF Late
<1>4. /\ Len(infos) = i - 1 /\ i - 1 <= Len(newsysinfos) /\ PlainEntries(i - 1)
      /\ infos \in Seq(Entry)
      /\ data_addr = base /\ pos = 8 + 4 * Len(sysinfos) + 40 * (i - 1) /\ blobs = {}
  BY <1>1 DEF FileInv
<1>5. i - 1 = Len(newsysinfos)
  BY <1>1, <1>2, <1>4
<1>6. PlainEntries(Len(newsysinfos))'
  BY <1>1, <1>4, <1>5 DEF PlainEntries, entry, invalid_addr
<1>7. i' - 1 = 0 /\ Len(newsysinfos) + 0 = Len(newsysinfos)
  BY <1>1, <1>2
<1>8. data_addr' = base'
  BY <1>1, <1>4 DEF base
<1>9. DataEntries(i - 1, data_addr)'
  BY <1>7, <1>8 DEF DataEntries
<1>10. /\ Len(infos') = Len(newsysinfos') + (i' - 1) /\ i' - 1 <= Len(newsysinfos1')
       /\ pos' = 8 + 4 * Len(sysinfos') + 40 * (Len(newsysinfos') + (i' - 1))
  BY <1>1, <1>2, <1>4, <1>5, <1>7
<1>11. FileInv'
  BY <1>1, <1>4, <1>6, <1>9, <1>10 DEF FileInv, Entry
<1>12. QED
  BY <1>3, <1>11

(* An entry with bytes is written: its bytes will go behind those of the   *)
(* entries before it.                                                      *)
LEMMA FileInfo1 ==
  ASSUME TableInv, FileInv, WriteInfo1
  PROVE  TableInv' /\ FileInv'
<1> DEFINE L0 == Len(newsysinfos)
           e == entry(dataInfo(i), data_addr)
<1>1. /\ phase = "info1" /\ phase' = "info1" /\ i' = i + 1 /\ i <= Len(newsysinfos1)
      /\ infos' = Append(infos, e) /\ pos' = pos + 40
      /\ data_addr' = data_addr + Len(dataInfo(i).data) + 8
      /\ UNCHANGED <<recording, scanning, blobs>>
      /\ UNCHANGED <<sysinfos, newsysinfos, newsysinfos1>>
  BY DEF WriteInfo1, recording, scanning, dataInfo, nextData, bufaddrSize
<1>2. /\ L0 \in Nat /\ Len(newsysinfos1) \in Nat /\ Len(sysinfos) \in Nat
      /\ i \in Nat \ {0} /\ pos \in Nat /\ base \in Nat
      /\ data_addr \in Nat /\ i \in 1..Len(newsysinfos1)
      /\ dataInfo(i) \in SyscallInfo /\ Len(dataInfo(i).data) \in Nat
  BY <1>1, LateFacts, SMTT(30)
<1>3. TableInv'
  <2>1. i' \in Nat \ {0} /\ data_addr' \in Nat /\ pos' \in Nat
    BY <1>1, <1>2
  <2>2. QED
    BY <1>1, <2>1, WriteStep DEF Late
<1>4. /\ Len(infos) = L0 + (i - 1) /\ PlainEntries(L0) /\ infos \in Seq(Entry)
      /\ DataEntries(i - 1, data_addr)
      /\ pos = 8 + 4 * Len(sysinfos) + 40 * (L0 + (i - 1)) /\ blobs = {}
  BY <1>1 DEF FileInv
<1>5. e \in Entry /\ e.data_offset = data_addr
  BY <1>2, EntryType
<1> HIDE DEF e, L0
<1>6. /\ infos' \in Seq(Entry) /\ Len(infos') = L0 + i /\ infos'[L0 + i] = e
      /\ \A k \in 1..(L0 + (i - 1)) : infos'[k] = infos[k]
  <2>1. /\ infos' \in Seq(Entry) /\ Len(infos') = (L0 + (i - 1)) + 1
        /\ infos'[(L0 + (i - 1)) + 1] = e
        /\ \A k \in 1..(L0 + (i - 1)) : infos'[k] = infos[k]
    BY <1>1, <1>4, <1>5, AppendProperties
  <2>2. (L0 + (i - 1)) + 1 = L0 + i
    BY <1>2
  <2>3. QED
    BY <2>1, <2>2
<1>7. PlainEntries(Len(newsysinfos))'
  <2>1. \A k \in 1..L0 : infos'[k] = infos[k]
    BY <1>2, <1>6
  <2>2. QED
    BY <1>1, <1>4, <2>1 DEF PlainEntries, entry, invalid_addr, L0
<1> DEFINE NOff(k) == infos'[L0 + k].data_offset
           NEnd(k) == NOff(k) + Len(dataInfo(k).data) + 8
<1> HIDE DEF NOff, NEnd
<1>8. \A k \in 1..(i - 1) : /\ infos'[L0 + k] = infos[L0 + k] /\ NOff(k) = Off(k)
                            /\ NEnd(k) = End(k)
  <2>1. \A k \in 1..(i - 1) : L0 + k \in 1..(L0 + (i - 1))
    BY <1>2
  <2>2. QED
    BY <1>6, <2>1 DEF Off, End, L0, NOff, NEnd
<1>9. NOff(i) = data_addr /\ NEnd(i) = data_addr'
  BY <1>1, <1>5, <1>6 DEF NOff, NEnd
<1>10. base' = base
  BY <1>1 DEF base
<1>11. i' - 1 = i /\ \A k \in 1..i : k \in 1..(i - 1) \/ k = i
  BY <1>1, <1>2
<1>12. /\ \A k \in 1..(i - 1) : /\ infos[L0 + k] = entry(dataInfo(k), Off(k))
                                /\ Off(k) \in Nat /\ Off(k) < data_addr
                                /\ k = 1 => Off(k) = base
                                /\ k = i - 1 => data_addr = End(k)
       /\ \A k \in 1..(i - 1) : k + 1 \in 1..(i - 1) => Off(k + 1) = End(k)
       /\ \A j, k \in 1..(i - 1) : j < k => Off(j) < Off(k)
       /\ i - 1 = 0 => data_addr = base
  BY <1>4 DEF DataEntries, L0
<1>13. data_addr < data_addr' /\ data_addr' \in Nat
  BY <1>1, <1>2
<1>14. ASSUME NEW k \in 1..i
       PROVE  /\ infos'[L0 + k] = entry(dataInfo(k), NOff(k))
              /\ NOff(k) \in Nat /\ NOff(k) < data_addr'
              /\ k = 1 => NOff(k) = base
              /\ k = i => data_addr' = NEnd(k)
  <2>1. CASE k = i
    BY <1>2, <1>5, <1>6, <1>9, <1>12, <1>13, <2>1 DEF e
  <2>2. CASE k \in 1..(i - 1)
    <3>1. k # i
      BY <1>2, <2>2
    <3>2. /\ infos'[L0 + k] = infos[L0 + k] /\ NOff(k) = Off(k)
          /\ infos[L0 + k] = entry(dataInfo(k), Off(k))
          /\ Off(k) \in Nat /\ Off(k) < data_addr
          /\ k = 1 => Off(k) = base
      BY <1>8, <1>12, <2>2
    <3>3. Off(k) < data_addr'
      BY <1>2, <1>13, <3>2
    <3>4. QED
      BY <3>1, <3>2, <3>3
  <2>3. QED
    BY <1>11, <2>1, <2>2
<1>15. ASSUME NEW k \in 1..i, k + 1 \in 1..i
       PROVE  NOff(k + 1) = NEnd(k)
  <2>1. k \in 1..(i - 1)
    BY <1>2, <1>15
  <2>2. CASE k + 1 = i
    <3>1. k = i - 1
      BY <1>2, <2>2
    <3>2. NOff(k + 1) = data_addr
      BY <1>9, <2>2
    <3>3. data_addr = End(k) /\ NEnd(k) = End(k)
      BY <1>8, <1>12, <2>1, <3>1
    <3>4. QED
      BY <3>2, <3>3
  <2>3. CASE k + 1 \in 1..(i - 1)
    <3>1. NOff(k + 1) = Off(k + 1)
      BY <1>8, <2>3
    <3>2. QED
      BY <1>8, <1>12, <2>1, <2>3, <3>1
  <2>4. QED
    BY <1>11, <1>15, <2>2, <2>3
<1>16. ASSUME NEW j \in 1..i, NEW k \in 1..i, j < k
       PROVE  NOff(j) < NOff(k)
  <2>1. j \in 1..(i - 1)
    BY <1>2, <1>16
  <2>2. CASE k = i
    <3>1. NOff(j) = Off(j) /\ Off(j) < data_addr
      BY <1>8, <1>12, <2>1
    <3>2. QED
      BY <1>9, <2>2, <3>1
  <2>3. CASE k \in 1..(i - 1)
    BY <1>8, <1>12, <1>16, <2>1, <2>3
  <2>4. QED
    BY <1>11, <2>2, <2>3
<1>17. DataEntries(i - 1, data_addr)'
  <2>1. ASSUME NEW k
        PROVE  /\ dataInfo(k)' = dataInfo(k) /\ Off(k)' = NOff(k) /\ End(k)' = NEnd(k)
    BY <1>1 DEF dataInfo, Off, End, L0, NOff, NEnd
  <2>2. ASSUME NEW k \in 1..(i' - 1)
        PROVE  /\ infos'[Len(newsysinfos') + k] = entry(dataInfo(k)', Off(k)')
               /\ Off(k)' \in Nat /\ Off(k)' < data_addr'
               /\ k = 1 => Off(k)' = base'
               /\ k = i' - 1 => data_addr' = End(k)'
    BY <1>1, <1>10, <1>11, <1>14, <2>1 DEF L0
  <2>3. i' - 1 # 0
    BY <1>2, <1>11
  <2>4. ASSUME NEW k \in 1..(i' - 1), k + 1 \in 1..(i' - 1)
        PROVE  Off(k + 1)' = End(k)'
    BY <1>11, <1>15, <2>1, <2>4
  <2>5. ASSUME NEW j \in 1..(i' - 1), NEW k \in 1..(i' - 1), j < k
        PROVE  Off(j)' < Off(k)'
    BY <1>11, <1>16, <2>1, <2>5
  <2>6. QED
    BY <2>2, <2>3, <2>4, <2>5 DEF DataEntries, entry
<1>18. /\ Len(infos') = Len(newsysinfos') + (i' - 1) /\ i' - 1 <= Len(newsysinfos1')
       /\ pos' = 8 + 4 * Len(sysinfos') + 40 * (Len(newsysinfos') + (i' - 1))
  <2>1. /\ sysinfos' = sysinfos /\ newsysinfos' = newsysinfos /\ newsysinfos1' = newsysinfos1
        /\ pos' = pos + 40
    BY <1>1
  <2>2. Len(infos') = L0 + i /\ i <= Len(newsysinfos1)
    BY <1>2, <1>6
  <2>3. L0 \in Nat /\ Len(sysinfos) \in Nat
    BY <1>2 DEF L0
  <2>4. pos + 40 = 8 + 4 * Len(sysinfos) + 40 * (L0 + i)
    BY <1>2, <1>4, <2>3
  <2>5. QED
    BY <1>11, <2>1, <2>2, <2>4 DEF L0
<1>19. FileInv'
  BY <1>1, <1>4, <1>6, <1>7, <1>17, <1>18 DEF FileInv, Entry
<1>20. QED
  BY <1>3, <1>19

(* The finished entries stay as they are. *)
LEMMA EntriesKept ==
  ASSUME UNCHANGED <<sysinfos, newsysinfos, newsysinfos1, infos, data_addr>>,
         PlainEntries(Len(newsysinfos)), DataEntries(Len(newsysinfos1), data_addr)
  PROVE  /\ PlainEntries(Len(newsysinfos))' /\ DataEntries(Len(newsysinfos1), data_addr)'
         /\ \A k : Off(k)' = Off(k) /\ blob(k)' = blob(k)
<1>1. PlainEntries(Len(newsysinfos))'
  BY DEF PlainEntries, entry, invalid_addr
<1>2. DataEntries(Len(newsysinfos1), data_addr)'
  BY DEF DataEntries, Off, End, dataInfo, entry, base
<1>3. ASSUME NEW k PROVE Off(k)' = Off(k) /\ blob(k)' = blob(k)
  BY DEF Off, blob, dataInfo
<1>4. QED
  BY <1>1, <1>2, <1>3

(* The table is complete; the first bytes go where its first entry with    *)
(* bytes says.                                                             *)
LEMMA FileDataStart ==
  ASSUME TableInv, FileInv, StartData
  PROVE  TableInv' /\ FileInv'
<1>1. /\ phase = "info1" /\ phase' = "data" /\ i' = 1 /\ i > Len(newsysinfos1)
      /\ UNCHANGED <<recording, scanning, data_addr, pos, infos, blobs>>
      /\ UNCHANGED <<sysinfos, newsysinfos, newsysinfos1>>
  BY DEF StartData, recording, scanning, writing
<1>2. /\ Len(newsysinfos) \in Nat /\ Len(newsysinfos1) \in Nat /\ Len(sysinfos) \in Nat
      /\ i \in Nat \ {0} /\ pos \in Nat /\ data_addr \in Nat
  BY <1>1, LateFacts
<1>3. TableInv'
  BY <1>1, <1>2, WriteStep DEF Late
<1>4. /\ Len(infos) = Len(newsysinfos) + (i - 1) /\ i - 1 <= Len(newsysinfos1)
      /\ PlainEntries(Len(newsysinfos)) /\ DataEntries(i - 1, data_addr)
      /\ pos = 8 + 4 * Len(sysinfos) + 40 * (Len(newsysinfos) + (i - 1))
      /\ blobs = {} /\ infos \in Seq(Entry)
  BY <1>1 DEF FileInv
<1>5. i - 1 = Len(newsysinfos1)
  BY <1>1, <1>2, <1>4
<1>6. DataEntries(Len(newsysinfos1), data_addr)
  BY <1>4, <1>5
<1>7. /\ PlainEntries(Len(newsysinfos))' /\ DataEntries(Len(newsysinfos1), data_addr)'
      /\ \A k : Off(k)' = Off(k) /\ blob(k)' = blob(k)
  BY <1>1, <1>4, <1>6, EntriesKept
<1>8. i' <= Len(newsysinfos1') => pos' = Off(i)'
  <2> SUFFICES ASSUME 1 <= Len(newsysinfos1) PROVE pos' = Off(i)'
    BY <1>1
  <2>1. pos = base
    BY <1>2, <1>4, <1>5 DEF base
  <2>2. 1 \in 1..Len(newsysinfos1)
    BY <1>2
  <2>3. Off(1) = base
    BY <1>6, <2>2 DEF DataEntries
  <2>4. Off(i)' = Off(1)
    BY <1>1 DEF Off
  <2>5. QED
    BY <1>1, <2>1, <2>3, <2>4
<1>9. blobs' = {blob(k) : k \in 1..(i - 1)}'
  <2>1. 1..(i' - 1) = {}
    BY <1>1
  <2>2. QED
    BY <1>1, <1>4, <2>1
<1>10. Len(infos') = Len(newsysinfos') + Len(newsysinfos1') /\ i' - 1 <= Len(newsysinfos1')
  BY <1>1, <1>2, <1>4, <1>5
<1>11. FileInv'
  BY <1>1, <1>4, <1>7, <1>8, <1>9, <1>10 DEF FileInv, Entry
<1>12. QED
  BY <1>3, <1>11

(* The bytes of one entry are written, at the offset stored in the entry,  *)
(* and those of the next one will follow.                                  *)
LEMMA FileData ==
  ASSUME TableInv, FileInv, WriteData
  PROVE  TableInv' /\ FileInv'
<1> DEFINE L1 == Len(newsysinfos1)
           size == Len(dataInfo(i).data)
<1>1. /\ phase = "data" /\ phase' = "data" /\ i' = i + 1 /\ i <= L1
      /\ blobs' = blobs \cup
           {[at |-> pos, bufaddr |-> dataInfo(i).bufaddr, data |-> dataInfo(i).data]}
      /\ pos' = pos + 8 + size
      /\ UNCHANGED <<recording, scanning, data_addr, infos>>
      /\ UNCHANGED <<sysinfos, newsysinfos, newsysinfos1>>
  BY DEF WriteData, recording, scanning, dataInfo, bufaddrSize
<1>2. /\ Len(newsysinfos) \in Nat /\ L1 \in Nat
      /\ i \in Nat \ {0} /\ pos \in Nat /\ data_addr \in Nat /\ i \in 1..L1
      /\ size \in Nat
  BY <1>1, LateFacts
<1> HIDE DEF size
<1>3. TableInv'
  <2>1. i' \in Nat \ {0} /\ data_addr' \in Nat /\ pos' \in Nat
    BY <1>1, <1>2
  <2>2. QED
    BY <1>1, <2>1, WriteStep DEF Late
<1>4. /\ Len(infos) = Len(newsysinfos) + L1 /\ PlainEntries(Len(newsysinfos))
      /\ DataEntries(L1, data_addr) /\ infos \in Seq(Entry)
      /\ pos = Off(i) /\ blobs = {blob(k) : k \in 1..(i - 1)}
  BY <1>1 DEF FileInv
<1>5. /\ PlainEntries(Len(newsysinfos))' /\ DataEntries(Len(newsysinfos1), data_addr)'
      /\ \A k : Off(k)' = Off(k) /\ blob(k)' = blob(k)
  BY <1>1, <1>4, EntriesKept
<1>6. blobs' = blobs \cup {blob(i)}
  BY <1>1, <1>4 DEF blob
<1>7. blobs' = {blob(k) : k \in 1..i}
  <2>1. 1..i = (1..(i - 1)) \cup {i}
    BY <1>2
  <2>2. QED
    BY <1>4, <1>6, <2>1
<1>8. i' - 1 = i
  BY <1>1, <1>2
<1>9. blobs' = {blob(k) : k \in 1..(i - 1)}'
  BY <1>1, <1>7, <1>8 DEF blob, Off, dataInfo
<1>10. i' <= Len(newsysinfos1') => pos' = Off(i)'
  <2> SUFFICES ASSUME i + 1 <= L1 PROVE pos' = Off(i)'
    BY <1>1
  <2>1. i + 1 \in 1..L1
    BY <1>2
  <2>2. Off(i + 1) = End(i)
    BY <1>2, <1>4, <2>1 DEF DataEntries
  <2>3. Off(i)' = Off(i + 1)
    BY <1>1 DEF Off
  <2>4. Off(i) \in Nat
    BY <1>2, <1>4
  <2>5. End(i) = Off(i) + size + 8
    BY DEF End, size
  <2>6. pos' = End(i)
    BY <1>1, <1>2, <1>4, <2>4, <2>5
  <2>7. QED
    BY <2>2, <2>3, <2>6
<1>11. Len(infos') = Len(newsysinfos') + Len(newsysinfos1') /\ i' - 1 <= Len(newsysinfos1')
  BY <1>1, <1>2, <1>4, <1>8
<1>12. FileInv'
  BY <1>1, <1>4, <1>5, <1>9, <1>10, <1>11 DEF FileInv, Entry
<1>13. QED
  BY <1>3, <1>12

(* The section is complete. *)
LEMMA FileEnd ==
  ASSUME TableInv, FileInv, EndSave
  PROVE  TableInv' /\ FileInv'
<1>1. /\ phase = "data" /\ phase' = "done" /\ i > Len(newsysinfos1)
      /\ UNCHANGED <<recording, scanning, i, data_addr, pos, infos, blobs>>
      /\ UNCHANGED <<sysinfos, newsysinfos, newsysinfos1>>
  BY DEF EndSave, recording, scanning, writing
<1>2. /\ Len(newsysinfos1) \in Nat /\ i \in Nat \ {0} /\ pos \in Nat /\ data_addr \in Nat
  BY <1>1, LateFacts
<1>3. TableInv'
  BY <1>1, <1>2, WriteStep DEF Late
<1>4. /\ Len(infos) = Len(newsysinfos) + Len(newsysinfos1) /\ i - 1 <= Len(newsysinfos1)
      /\ PlainEntries(Len(newsysinfos)) /\ DataEntries(Len(newsysinfos1), data_addr)
      /\ infos \in Seq(Entry) /\ blobs = {blob(k) : k \in 1..(i - 1)}
  BY <1>1 DEF FileInv
<1>5. PlainEntries(Len(newsysinfos))' /\ DataEntries(Len(newsysinfos1), data_addr)'
  BY <1>1, <1>4, EntriesKept
<1>6. blobs' = {blob(k) : k \in 1..(i - 1)}'
  BY <1>1, <1>4 DEF blob, Off, dataInfo
<1>7. i' - 1 = Len(newsysinfos1')
  BY <1>1, <1>2, <1>4
<1>8. ~(i' <= Len(newsysinfos1'))
  BY <1>1, <1>2
<1>9. FileInv'
  BY <1>1, <1>4, <1>5, <1>6, <1>7, <1>8 DEF FileInv, Entry
<1>10. QED
  BY <1>3, <1>9

-----------------------------------------------------------------------------
(* The inductive invariant of the section: the recorded calls are those of *)
(* the slice, every call has the index of an entry that is the same call,  *)
(* and the offsets and positions agree.                                    *)
SectionInv == TableInv /\ FileInv

(* Nothing is written while the calls are recorded and scanned. *)
LEMMA FileEarly ==
  ASSUME TableInv, FileInv, phase \in {"record", "scan"}, phase' \in {"record", "scan"},
         UNCHANGED writing
  PROVE  FileInv'
<1>1. infos' = <<>> /\ <<>> \in Seq(Entry)
  BY DEF writing, TableInv, RecordInv
<1>2. QED
  BY <1>1 DEF FileInv, Entry

(* Every step keeps it. *)
LEMMA SectionStep ==
  ASSUME SectionInv, [Next]_vars
  PROVE  SectionInv'
<1>1. ASSUME NEW c \in Calls, RecordCall(c) PROVE SectionInv'
  <2>1. phase = "record" /\ phase' = "record" /\ UNCHANGED writing
    BY <1>1 DEF RecordCall
  <2>2. QED
    BY <1>1, <2>1, RecordStep, FileEarly DEF SectionInv
<1>2. CASE StartSave
  <2>1. phase = "record" /\ phase' = "scan" /\ UNCHANGED writing
    BY <1>2 DEF StartSave
  <2>2. QED
    BY <1>2, <2>1, StartStep, FileEarly DEF SectionInv
<1>3. CASE Scan
  <2>1. phase = "scan" /\ phase' = "scan" /\ UNCHANGED writing
    BY <1>3 DEF Scan
  <2>2. QED
    BY <1>3, <2>1, ScanStep, FileEarly DEF SectionInv
<1>4. CASE WriteIndexes
  BY <1>4, IndexStep, FileIndexes DEF SectionInv
<1>5. CASE WriteInfo
  BY <1>5, FileInfo DEF SectionInv
<1>6. CASE StartInfo1
  BY <1>6, FileInfo1Start DEF SectionInv
<1>7. CASE WriteInfo1
  BY <1>7, FileInfo1 DEF SectionInv
<1>8. CASE StartData
  BY <1>8, FileDataStart DEF SectionInv
<1>9. CASE WriteData
  BY <1>9, FileData DEF SectionInv
<1>10. CASE EndSave
  BY <1>10, FileEnd DEF SectionInv
<1>11. CASE UNCHANGED vars
  <2>1. UNCHANGED <<phase, calls, sysinfos, i, sys_idxs, newsysinfos, newsysinfos1,
                    infos, data_addr, pos, blobs>>
    BY <1>11 DEF vars
  <2>2. TableInv'
    BY <2>1 DEF SectionInv, TableInv, RecordInv, ScanInv, TypeOK, Plain, WithData
  <2>3. FileInv'
    <3>1. /\ PlainEntries(i - 1) => PlainEntries(i - 1)'
          /\ PlainEntries(Len(newsysinfos)) => PlainEntries(Len(newsysinfos))'
      BY <2>1 DEF PlainEntries, entry, invalid_addr
    <3>2. DataEntries(i - 1, data_addr) => DataEntries(i - 1, data_addr)'
      BY <2>1 DEF DataEntries, Off, End, dataInfo, entry, base
    <3>3. DataEntries(Len(newsysinfos1), data_addr) => DataEntries(Len(newsysinfos1), data_addr)'
      BY <2>1 DEF DataEntries, Off, End, dataInfo, entry, base
    <3>4. /\ {blob(k) : k \in 1..(i - 1)}' = {blob(k) : k \in 1..(i - 1)}
          /\ base' = base /\ Off(i)' = Off(i)
      BY <2>1 DEF blob, Off, dataInfo, base
    <3>5. QED
      BY <2>1, <3>1, <3>2, <3>3, <3>4 DEF SectionInv, FileInv, Entry
  <2>4. QED
    BY <2>2, <2>3 DEF SectionInv
<1>12. QED
  BY <1>1, <1>2, <1>3, <1>4, <1>5, <1>6, <1>7, <1>8, <1>9, <1>10, <1>11
  DEF Next, saveSysInfo

(* It holds before the first call. *)
LEMMA SectionInit ==
  ASSUME Init
  PROVE  SectionInv
<1>1. \A S : <<>> \in Seq(S)
  OBVIOUS
<1>2. TypeOK
  BY <1>1 DEF Init, TypeOK
<1>3. RecordInv
  BY <1>2 DEF Init, RecordInv
<1>4. ScanInv /\ FileInv
  BY <1>1 DEF Init, ScanInv, FileInv
<1>5. QED
  BY <1>3, <1>4 DEF SectionInv, TableInv

(* saveSysInfo keeps the section in order at every step. *)
THEOREM SectionCorrect == Spec => []SectionInv
<1>1. Init => SectionInv
  BY SectionInit
<1>2. SectionInv /\ [Next]_vars => SectionInv'
  BY SectionStep
<1>3. QED
  BY <1>1, <1>2, PTL DEF Spec

(* No index leaves the table, no position is negative.                     *)
THEOREM TypeCorrect == Spec => []TypeOK
<1>1. SectionInv => TypeOK
  BY DEF SectionInv, TableInv, RecordInv
<1>2. QED
  BY <1>1, SectionCorrect, PTL

-----------------------------------------------------------------------------
(* The loader finds exactly the bytes of the k-th entry with bytes.        *)
LEMMA BlobFound ==
  ASSUME SectionInv, phase = "done", NEW k \in 1..Len(newsysinfos1)
  PROVE  LET e == infos[Len(newsysinfos) + k] IN
         /\ e = entry(dataInfo(k), Off(k)) /\ Off(k) \in Nat
         /\ blobAt(e) = {[bufaddr |-> dataInfo(k).bufaddr, data |-> dataInfo(k).data]}
<1> DEFINE L1 == Len(newsysinfos1)
           e == infos[Len(newsysinfos) + k]
<1>1. L1 \in Nat /\ DataEntries(L1, data_addr) /\ i - 1 = L1
      /\ blobs = {blob(j) : j \in 1..(i - 1)}
  BY LateFacts DEF SectionInv, FileInv
<1>2. e = entry(dataInfo(k), Off(k)) /\ Off(k) \in Nat
  BY <1>1 DEF DataEntries
<1>3. e.data_offset = Off(k) /\ e.size = Len(dataInfo(k).data)
  BY <1>2 DEF entry
<1>4. \A j \in 1..L1 : Off(j) = Off(k) => j = k
  <2>1. \A j \in 1..L1 : Off(j) \in Nat
    BY <1>1 DEF DataEntries
  <2>2. \A j \in 1..L1 : j < k => Off(j) < Off(k)
    BY <1>1 DEF DataEntries
  <2>3. \A j \in 1..L1 : k < j => Off(k) < Off(j)
    BY <1>1 DEF DataEntries
  <2>4. QED
    BY <1>1, <2>1, <2>2, <2>3
<1> HIDE DEF e, L1
<1>5. {x \in blobs : x.at = e.data_offset /\ Len(x.data) = e.size} = {blob(k)}
  <2>1. blob(k) \in blobs /\ blob(k).at = Off(k) /\ blob(k).data = dataInfo(k).data
    BY <1>1 DEF blob, L1
  <2>2. ASSUME NEW x \in blobs, x.at = Off(k) PROVE x = blob(k)
    <3>1. PICK j \in 1..L1 : x = blob(j)
      BY <1>1
    <3>2. blob(j).at = Off(j)
      BY DEF blob
    <3>3. QED
      BY <1>4, <2>2, <3>1, <3>2
  <2>3. QED
    BY <1>3, <2>1, <2>2
<1>6. blobAt(e) = {[bufaddr |-> b.bufaddr, data |-> b.data] : b \in {blob(k)}}
  BY <1>5 DEF blobAt
<1>7. blob(k).bufaddr = dataInfo(k).bufaddr /\ blob(k).data = dataInfo(k).data
  BY DEF blob
<1>8. blobAt(e) = {[bufaddr |-> dataInfo(k).bufaddr, data |-> dataInfo(k).data]}
  BY <1>6, <1>7
<1>9. QED
  BY <1>2, <1>8 DEF e

(* The entry that the loader uses for the n-th call, by kind. *)
LEMMA PlainLookup ==
  ASSUME SectionInv, phase = "done", NEW n \in Plain
  PROVE  \E s \in SyscallInfo :
           /\ isSameSyscall(sysinfos[n], s) /\ s.data = <<>>
           /\ sys_idxs[n] + 1 \in 1..Len(infos) /\ lookup(n) = entry(s, invalid_addr)
<1>1. ListInv(sysinfos, Plain, newsysinfos, sys_idxs, Len(sysinfos), 0)
  BY DEF SectionInv, TableInv, ScanInv
<1>2. n \in 1..Len(sysinfos)
  BY DEF Plain
<1>3. PICK c \in 1..Len(newsysinfos) :
        sys_idxs[n] = 0 + c - 1 /\ isSameSyscall(sysinfos[n], sysinfos[newsysinfos[c]])
  BY <1>1, <1>2 DEF ListInv
<1>4. newsysinfos[c] \in Plain
  BY <1>1 DEF ListInv
<1>5. /\ Len(newsysinfos) \in Nat /\ Len(newsysinfos1) \in Nat
      /\ sysinfos[newsysinfos[c]] \in SyscallInfo
  BY LateFacts DEF SectionInv
<1>6. Len(infos) = Len(newsysinfos) + Len(newsysinfos1) /\ PlainEntries(Len(newsysinfos))
  BY DEF SectionInv, FileInv
<1>7. sys_idxs[n] + 1 = c /\ c \in 1..Len(infos)
  BY <1>3, <1>5, <1>6
<1>8. lookup(n) = entry(sysinfos[newsysinfos[c]], invalid_addr)
  BY <1>6, <1>7 DEF lookup, PlainEntries
<1>9. sysinfos[newsysinfos[c]].data = <<>>
  BY <1>4 DEF Plain
<1>10. QED
  BY <1>3, <1>5, <1>7, <1>8, <1>9

(* See PlainLookup. *)
LEMMA DataLookup ==
  ASSUME SectionInv, phase = "done", NEW n \in WithData
  PROVE  \E s \in SyscallInfo, o \in Nat :
           /\ isSameSyscall(sysinfos[n], s)
           /\ sys_idxs[n] + 1 \in 1..Len(infos) /\ lookup(n) = entry(s, o)
           /\ blobAt(lookup(n)) = {[bufaddr |-> s.bufaddr, data |-> s.data]}
<1>1. ListInv(sysinfos, WithData, newsysinfos1, sys_idxs, Len(sysinfos), Len(newsysinfos))
  BY DEF SectionInv, TableInv, ScanInv
<1>2. n \in 1..Len(sysinfos)
  BY DEF WithData
<1>3. PICK c \in 1..Len(newsysinfos1) :
        /\ sys_idxs[n] = Len(newsysinfos) + c - 1
        /\ isSameSyscall(sysinfos[n], sysinfos[newsysinfos1[c]])
  BY <1>1, <1>2 DEF ListInv
<1>4. /\ Len(newsysinfos) \in Nat /\ Len(newsysinfos1) \in Nat
      /\ dataInfo(c) \in SyscallInfo
  BY LateFacts DEF SectionInv
<1>5. Len(infos) = Len(newsysinfos) + Len(newsysinfos1)
  BY DEF SectionInv, FileInv
<1>6. sys_idxs[n] + 1 = Len(newsysinfos) + c /\ Len(newsysinfos) + c \in 1..Len(infos)
  BY <1>3, <1>4, <1>5
<1>7. lookup(n) = infos[Len(newsysinfos) + c]
  BY <1>6 DEF lookup
<1>8. /\ lookup(n) = entry(dataInfo(c), Off(c)) /\ Off(c) \in Nat
      /\ blobAt(lookup(n)) = {[bufaddr |-> dataInfo(c).bufaddr, data |-> dataInfo(c).data]}
  BY <1>7, BlobFound
<1>9. isSameSyscall(sysinfos[n], dataInfo(c))
  BY <1>3 DEF dataInfo
<1>10. QED
  BY <1>4, <1>6, <1>8, <1>9

(* The loader recognises every call, also one that is to be retried. *)
LEMMA LookupCall ==
  ASSUME SectionInv, phase = "done", NEW n \in 1..Len(calls)
  PROVE  /\ sys_idxs[n] + 1 \in DOMAIN infos
         /\ lookup(n).pc = calls[n].pc /\ lookup(n).num = calls[n].num
<1>1. /\ calls[n] \in Calls /\ sysinfos[n] = syscall(calls[n]) /\ n \in 1..Len(sysinfos)
      /\ DOMAIN infos = 1..Len(infos)
  BY DEF SectionInv, TableInv, RecordInv, TypeOK, FileInv
<1>2. sysinfos[n].pc = calls[n].pc /\ sysinfos[n].num = calls[n].num
  BY <1>1, SyscallFields
<1>3. \E s \in SyscallInfo, o \in Int :
        /\ isSameSyscall(sysinfos[n], s)
        /\ sys_idxs[n] + 1 \in 1..Len(infos) /\ lookup(n) = entry(s, o)
  <2>1. CASE n \in Plain
    BY <2>1, PlainLookup DEF invalid_addr
  <2>2. CASE n \in WithData
    BY <2>2, DataLookup
  <2>3. QED
    BY <1>1, <2>1, <2>2 DEF Plain, WithData
<1>4. QED
  BY <1>1, <1>2, <1>3 DEF isSameSyscall, entry

(* A call that is not to be retried leaves a0 and memory in the loader as  *)
(* it left them in the recorder.                                           *)
LEMMA RoundTripCall ==
  ASSUME SectionInv, phase = "done", NEW n \in DOMAIN calls, calls[n].return # "retry"
  PROVE  /\ sys_idxs[n] + 1 \in DOMAIN infos
         /\ lookup(n).pc = calls[n].pc
         /\ lookup(n).num = calls[n].num
         /\ a0(lookup(n)) = a0After(calls[n])
         /\ memWrite(lookup(n)) = {memWritten(calls[n])}
<1> DEFINE c == calls[n]
           s == sysinfos[n]
<1>1. /\ c \in Calls /\ s = syscall(c) /\ n \in 1..Len(sysinfos)
      /\ DOMAIN infos = 1..Len(infos)
  BY DEF SectionInv, TableInv, RecordInv, TypeOK, FileInv
<1>2. /\ s.pc = c.pc /\ s.num = c.num /\ s.p0 = c.p0 /\ s.ret = c.ret
      /\ s.bufaddr = c.bufaddr /\ s.data = c.data
      /\ s.hasret = (c.return # "suppressed")
  BY <1>1, SyscallFields
<1>3. s.hasret => c.return = "value"
  BY <1>1, <1>2, CallAssumption
<1>4. ~s.hasret => c.return = "suppressed"
  BY <1>2
<1> HIDE DEF c, s
<1>5. ASSUME NEW t \in SyscallInfo, NEW o \in Int, isSameSyscall(s, t), lookup(n) = entry(t, o)
      PROVE  /\ lookup(n).pc = c.pc /\ lookup(n).num = c.num
             /\ lookup(n).data_offset = o
             /\ a0(lookup(n)) = a0After(c)
  <2>1. s.pc = t.pc /\ s.num = t.num /\ s.p0 = t.p0 /\ s.ret = t.ret
    BY <1>5 DEF isSameSyscall
  <2>2. /\ lookup(n).pc = t.pc /\ lookup(n).num = t.num /\ lookup(n).p0 = t.p0
        /\ lookup(n).ret = t.ret /\ lookup(n).hasret = t.hasret /\ lookup(n).data_offset = o
    BY <1>5 DEF entry
  <2>3. lookup(n).hasret = s.hasret
    BY <1>5, <2>2 DEF isSameSyscall
  <2>4. a0(lookup(n)) = a0After(c)
    <3>1. CASE s.hasret
      <4>1. a0(lookup(n)) = lookup(n).ret /\ a0After(c) = c.ret
        BY <1>3, <2>3, <3>1, Zenon DEF a0, a0After
      <4>2. QED
        BY <1>2, <2>1, <2>2, <4>1
    <3>2. CASE ~s.hasret
      <4>1. c.return # "value"
        BY <1>4, <3>2
      <4>2. a0(lookup(n)) = lookup(n).p0 /\ a0After(c) = c.p0
        BY <2>3, <3>2, <4>1, Zenon DEF a0, a0After
      <4>3. QED
        BY <1>2, <2>1, <2>2, <4>2
    <3>3. QED
      BY <3>1, <3>2
  <2>5. QED
    BY <1>2, <2>1, <2>2, <2>4
<1>6. CASE s.data = <<>>
  <2>1. n \in Plain
    BY <1>1, <1>6 DEF Plain, s
  <2>2. PICK t \in SyscallInfo :
          /\ isSameSyscall(s, t) /\ t.data = <<>>
          /\ sys_idxs[n] + 1 \in 1..Len(infos) /\ lookup(n) = entry(t, invalid_addr)
    BY <2>1, PlainLookup DEF s
  <2>3. /\ lookup(n).pc = c.pc /\ lookup(n).num = c.num
        /\ lookup(n).data_offset = invalid_addr /\ a0(lookup(n)) = a0After(c)
    BY <1>5, <2>2 DEF invalid_addr
  <2>4. memWrite(lookup(n)) = {NoWrite}
    BY <2>3 DEF memWrite
  <2>5. memWritten(c) = NoWrite
    BY <1>2, <1>6 DEF memWritten
  <2>6. QED
    BY <1>1, <2>2, <2>3, <2>4, <2>5 DEF c
<1>7. CASE s.data # <<>>
  <2>1. n \in WithData
    BY <1>1, <1>7 DEF WithData, s
  <2>2. PICK t \in SyscallInfo, o \in Nat :
          /\ isSameSyscall(s, t)
          /\ sys_idxs[n] + 1 \in 1..Len(infos) /\ lookup(n) = entry(t, o)
          /\ blobAt(lookup(n)) = {[bufaddr |-> t.bufaddr, data |-> t.data]}
    BY <2>1, DataLookup DEF s
  <2>3. /\ lookup(n).pc = c.pc /\ lookup(n).num = c.num
        /\ lookup(n).data_offset = o /\ a0(lookup(n)) = a0After(c)
    BY <1>5, <2>2
  <2>4. t.bufaddr = c.bufaddr /\ t.data = c.data
    BY <1>2, <1>7, <2>2 DEF isSameSyscall
  <2>5. o # invalid_addr
    BY DEF invalid_addr
  <2> DEFINE b == [bufaddr |-> c.bufaddr, data |-> c.data]
  <2>6. blobAt(lookup(n)) = {b}
    BY <2>2, <2>4
  <2>7. memWrite(lookup(n)) = {IF x.bufaddr = 0 THEN NoWrite ELSE x : x \in {b}}
    BY <2>3, <2>5, <2>6, Zenon DEF memWrite
  <2>8. memWritten(c) = IF b.bufaddr = 0 THEN NoWrite ELSE b
    BY <1>2, <1>7 DEF memWritten
  <2>9. memWrite(lookup(n)) = {memWritten(c)}
    BY <2>7, <2>8
  <2>10. QED
    BY <1>1, <2>2, <2>3, <2>9 DEF c
<1>8. QED
  BY <1>6, <1>7

(* doSyscall reports a call that is to be retried as one that returned     *)
(* zero, so a retried call does not come back as it was.                   *)
NoRetry == \A c \in Calls : c.return # "retry"

(* A finished section serves every call. *)
LEMMA SectionRoundTrip ==
  ASSUME NoRetry, SectionInv
  PROVE  RoundTrip
<1> SUFFICES ASSUME phase = "done", NEW n \in DOMAIN calls
             PROVE  /\ sys_idxs[n] + 1 \in DOMAIN infos
                    /\ lookup(n).pc = calls[n].pc
                    /\ lookup(n).num = calls[n].num
                    /\ a0(lookup(n)) = a0After(calls[n])
                    /\ memWrite(lookup(n)) = {memWritten(calls[n])}
  BY DEF RoundTrip
<1>1. calls[n] \in Calls
  BY DEF SectionInv, TableInv, RecordInv, TypeOK
<1>2. QED
  BY <1>1, RoundTripCall DEF NoRetry

(* Every system call of the slice, in turn, leaves a0 and memory in the    *)
(* loader as it left them in the recorder, for every set of calls without  *)
(* retries: sharing entries, moving them behind one another and computing  *)
(* offsets before the bytes are written lose nothing.                      *)
THEOREM FileRoundTrip == NoRetry /\ Spec => []RoundTrip
<1> SUFFICES ASSUME NoRetry PROVE Spec => []RoundTrip
  OBVIOUS
<1>1. SectionInv => RoundTrip
  BY SectionRoundTrip
<1>2. QED
  BY <1>1, SectionCorrect, PTL

(* Two entries that the loader could not tell apart would be the same call.*)
LEMMA PlainDistinct ==
  ASSUME SectionInv, phase = "done",
         NEW j \in 1..Len(newsysinfos), NEW k \in 1..Len(newsysinfos), j < k
  PROVE  [infos[j] EXCEPT !.data_offset = 0] # [infos[k] EXCEPT !.data_offset = 0]
<1> DEFINE s == sysinfos[newsysinfos[j]]
           t == sysinfos[newsysinfos[k]]
<1>1. ListInv(sysinfos, Plain, newsysinfos, sys_idxs, Len(sysinfos), 0)
  BY DEF SectionInv, TableInv, ScanInv
<1>2. ~isSameSyscall(t, s)
  BY <1>1 DEF ListInv
<1>3. newsysinfos[j] \in Plain /\ newsysinfos[k] \in Plain
  BY <1>1 DEF ListInv
<1>4. s.data = <<>> /\ t.data = <<>>
  BY <1>3 DEF Plain
<1>5. infos[j] = entry(s, invalid_addr) /\ infos[k] = entry(t, invalid_addr)
  BY DEF SectionInv, FileInv, PlainEntries
<1> HIDE DEF s, t
<1>6. ~(s.pc = t.pc /\ s.num = t.num /\ s.hasret = t.hasret /\ s.ret = t.ret /\ s.p0 = t.p0)
  BY <1>2, <1>4 DEF isSameSyscall
<1> DEFINE a == [infos[j] EXCEPT !.data_offset = 0]
           b == [infos[k] EXCEPT !.data_offset = 0]
<1>7. /\ a.pc = s.pc /\ a.num = s.num /\ a.hasret = s.hasret /\ a.ret = s.ret /\ a.p0 = s.p0
      /\ b.pc = t.pc /\ b.num = t.num /\ b.hasret = t.hasret /\ b.ret = t.ret /\ b.p0 = t.p0
  BY <1>5 DEF entry
<1> HIDE DEF a, b
<1>8. a # b
  BY <1>6, <1>7, Zenon
<1>9. QED
  BY <1>8 DEF a, b

(* See PlainDistinct; entries with bytes also differ in their bytes. *)
LEMMA DataDistinct ==
  ASSUME SectionInv, phase = "done",
         NEW j \in 1..Len(newsysinfos1), NEW k \in 1..Len(newsysinfos1), j < k
  PROVE  LET e == infos[Len(newsysinfos) + j]
             f == infos[Len(newsysinfos) + k] IN
         \/ [e EXCEPT !.data_offset = 0] # [f EXCEPT !.data_offset = 0]
         \/ blobAt(e) # blobAt(f)
<1> DEFINE e == infos[Len(newsysinfos) + j]
           f == infos[Len(newsysinfos) + k]
           s == dataInfo(j)
           t == dataInfo(k)
<1>1. ListInv(sysinfos, WithData, newsysinfos1, sys_idxs, Len(sysinfos), Len(newsysinfos))
  BY DEF SectionInv, TableInv, ScanInv
<1>2. ~isSameSyscall(t, s)
  BY <1>1 DEF ListInv, dataInfo
<1>3. /\ e = entry(s, Off(j)) /\ f = entry(t, Off(k))
      /\ blobAt(e) = {[bufaddr |-> s.bufaddr, data |-> s.data]}
      /\ blobAt(f) = {[bufaddr |-> t.bufaddr, data |-> t.data]}
  BY BlobFound
<1> HIDE DEF s, t, e, f
<1>4. CASE s.bufaddr = t.bufaddr /\ s.data = t.data
  <2>1. ~(s.pc = t.pc /\ s.num = t.num /\ s.hasret = t.hasret /\ s.ret = t.ret /\ s.p0 = t.p0)
    BY <1>2, <1>4 DEF isSameSyscall
  <2> DEFINE a == [e EXCEPT !.data_offset = 0]
             b == [f EXCEPT !.data_offset = 0]
  <2>2. /\ a.pc = s.pc /\ a.num = s.num /\ a.hasret = s.hasret /\ a.ret = s.ret /\ a.p0 = s.p0
        /\ b.pc = t.pc /\ b.num = t.num /\ b.hasret = t.hasret /\ b.ret = t.ret /\ b.p0 = t.p0
    BY <1>3 DEF entry
  <2> HIDE DEF a, b
  <2>3. a # b
    BY <2>1, <2>2, Zenon
  <2>4. QED
    BY <2>3 DEF a, b, e, f
<1>5. CASE ~(s.bufaddr = t.bufaddr /\ s.data = t.data)
  <2>1. [bufaddr |-> s.bufaddr, data |-> s.data] # [bufaddr |-> t.bufaddr, data |-> t.data]
    BY <1>5
  <2>2. blobAt(e) # blobAt(f)
    BY <1>3, <2>1
  <2>3. QED
    BY <2>2 DEF e, f
<1>6. QED
  BY <1>4, <1>5

(* An entry without bytes is not one with bytes. *)
LEMMA KindsDistinct ==
  ASSUME SectionInv, phase = "done",
         NEW j \in 1..Len(newsysinfos), NEW k \in 1..Len(newsysinfos1)
  PROVE  [infos[j] EXCEPT !.data_offset = 0]
           # [infos[Len(newsysinfos) + k] EXCEPT !.data_offset = 0]
<1> DEFINE s == sysinfos[newsysinfos[j]]
           t == dataInfo(k)
           f == infos[Len(newsysinfos) + k]
<1>1. /\ ListInv(sysinfos, Plain, newsysinfos, sys_idxs, Len(sysinfos), 0)
      /\ ListInv(sysinfos, WithData, newsysinfos1, sys_idxs, Len(sysinfos), Len(newsysinfos))
  BY DEF SectionInv, TableInv, ScanInv
<1>2. newsysinfos[j] \in Plain /\ newsysinfos1[k] \in WithData
  BY <1>1 DEF ListInv
<1>3. s.data = <<>> /\ t.data # <<>> /\ t \in SyscallInfo
  BY <1>2, LateFacts DEF Plain, WithData, dataInfo, SectionInv
<1>4. infos[j] = entry(s, invalid_addr) /\ f = entry(t, Off(k))
  BY BlobFound DEF SectionInv, FileInv, PlainEntries
<1> HIDE DEF s, t, f
<1>5. Len(s.data) = 0 /\ Len(t.data) # 0
  BY <1>3 DEF SyscallInfo
<1>6. /\ [infos[j] EXCEPT !.data_offset = 0].size = Len(s.data)
      /\ [f EXCEPT !.data_offset = 0].size = Len(t.data)
  BY <1>4 DEF entry
<1>7. [infos[j] EXCEPT !.data_offset = 0] # [f EXCEPT !.data_offset = 0]
  BY <1>5, <1>6
<1>8. QED
  BY <1>7 DEF f

(* A finished section has no entry too many. *)
LEMMA SectionMinimal ==
  ASSUME SectionInv
  PROVE  NoDuplicates
<1> SUFFICES ASSUME phase = "done" PROVE
      /\ \A j, k \in DOMAIN infos : j # k =>
           \/ [infos[j] EXCEPT !.data_offset = 0] # [infos[k] EXCEPT !.data_offset = 0]
           \/ blobAt(infos[j]) # blobAt(infos[k])
      /\ \A k \in DOMAIN infos : \E n \in DOMAIN calls : sys_idxs[n] + 1 = k
  BY DEF NoDuplicates
<1> DEFINE L0 == Len(newsysinfos)
           L1 == Len(newsysinfos1)
           Differ(j, k) ==
             \/ [infos[j] EXCEPT !.data_offset = 0] # [infos[k] EXCEPT !.data_offset = 0]
             \/ blobAt(infos[j]) # blobAt(infos[k])
<1>1. /\ L0 \in Nat /\ L1 \in Nat /\ infos \in Seq(Entry) /\ Len(infos) = L0 + L1
      /\ DOMAIN infos = 1..(L0 + L1)
  BY LateFacts DEF SectionInv, FileInv
<1>2. \A k \in 1..(L0 + L1) :
        k \in 1..L0 \/ (k - L0 \in 1..L1 /\ L0 + (k - L0) = k)
  BY <1>1
<1>3. ASSUME NEW j \in DOMAIN infos, NEW k \in DOMAIN infos, j < k
      PROVE  Differ(j, k)
  <2>1. CASE k \in 1..L0
    <3>1. j \in 1..L0
      BY <1>1, <1>3, <2>1
    <3>2. QED
      BY <1>3, <2>1, <3>1, PlainDistinct
  <2>2. CASE k - L0 \in 1..L1 /\ L0 + (k - L0) = k /\ j \in 1..L0
    <3>1. [infos[j] EXCEPT !.data_offset = 0]
            # [infos[L0 + (k - L0)] EXCEPT !.data_offset = 0]
      BY <2>2, KindsDistinct
    <3>2. QED
      BY <2>2, <3>1
  <2>3. CASE /\ k - L0 \in 1..L1 /\ L0 + (k - L0) = k
             /\ j - L0 \in 1..L1 /\ L0 + (j - L0) = j
    <3>1. j - L0 < k - L0
      BY <1>1, <1>3
    <3>2. Differ(L0 + (j - L0), L0 + (k - L0))
      BY <2>3, <3>1, DataDistinct
    <3>3. QED
      BY <2>3, <3>2
  <2>4. QED
    BY <1>1, <1>2, <2>1, <2>2, <2>3
<1>4. ASSUME NEW j \in DOMAIN infos, NEW k \in DOMAIN infos, j # k
      PROVE  Differ(j, k)
  <2>1. j < k \/ k < j
    BY <1>1, <1>4
  <2>2. Differ(k, j) => Differ(j, k)
    BY Zenon
  <2>3. QED
    BY <1>3, <2>1, <2>2
<1>5. ASSUME NEW k \in DOMAIN infos
      PROVE  \E n \in DOMAIN calls : sys_idxs[n] + 1 = k
  <2>1. /\ ListInv(sysinfos, Plain, newsysinfos, sys_idxs, Len(sysinfos), 0)
        /\ ListInv(sysinfos, WithData, newsysinfos1, sys_idxs, Len(sysinfos), L0)
    BY DEF SectionInv, TableInv, ScanInv
  <2>2. DOMAIN calls = 1..Len(sysinfos)
    BY DEF SectionInv, TableInv, RecordInv, TypeOK
  <2>3. CASE k \in 1..L0
    <3>1. newsysinfos[k] \in 1..Len(sysinfos) /\ sys_idxs[newsysinfos[k]] = 0 + k - 1
      BY <2>1, <2>3 DEF ListInv
    <3>2. (0 + k - 1) + 1 = k
      BY <1>1, <2>3
    <3>3. QED
      BY <2>2, <3>1, <3>2
  <2>4. CASE k - L0 \in 1..L1 /\ L0 + (k - L0) = k
    <3> DEFINE c == k - L0
    <3>1. newsysinfos1[c] \in 1..Len(sysinfos) /\ sys_idxs[newsysinfos1[c]] = L0 + c - 1
      BY <2>1, <2>4 DEF ListInv
    <3>2. (L0 + c - 1) + 1 = k
      BY <1>1, <2>4
    <3>3. QED
      BY <2>2, <3>1, <3>2
  <2>5. QED
    BY <1>1, <1>2, <2>3, <2>4
<1>6. QED
  BY <1>4, <1>5

(* Equal calls share one entry of the table, and every entry serves some   *)
(* call of the slice: the table is as small as it can be.                  *)
THEOREM TableMinimal == Spec => []NoDuplicates
<1>1. SectionInv => NoDuplicates
  BY SectionMinimal
<1>2. QED
  BY <1>1, SectionCorrect, PTL

-----------------------------------------------------------------------------
(* The recorder and the loader drive saveSysInfo as SysTable describes.    *)
LEMMA SectionFollows ==
  ASSUME SectionInv, [SliceNext]_allvars
  PROVE  SectionInv'
<1>1. [Next]_vars
  BY DEF SliceNext, RecordInst, RecordSyscall, CloseSlice, SaveSlice, Loader, read_ckptinfo,
         RunInst, takeoverSyscall, Next, allvars
<1>2. QED
  BY <1>1, SectionStep

(* See SectionFollows. *)
THEOREM SliceSectionCorrect == SliceSpec => []SectionInv
<1>1. SliceInit => SectionInv
  BY SectionInit DEF SliceInit
<1>2. SectionInv /\ [SliceNext]_allvars => SectionInv'
  BY SectionFollows
<1>3. QED
  BY <1>1, <1>2, PTL DEF SliceSpec

(* The section of calls of the checkpoint is right in the composed system  *)
(* as well.                                                                *)
THEOREM SliceRoundTrip == NoRetry /\ SliceSpec => []RoundTrip
<1> SUFFICES ASSUME NoRetry PROVE SliceSpec => []RoundTrip
  OBVIOUS
<1>1. SectionInv => RoundTrip
  BY SectionRoundTrip
<1>2. QED
  BY <1>1, SliceSectionCorrect, PTL

(* See SliceRoundTrip. *)
THEOREM SliceTableMinimal == SliceSpec => []NoDuplicates
<1>1. SectionInv => NoDuplicates
  BY SectionMinimal
<1>2. QED
  BY <1>1, SliceSectionCorrect, PTL

-----------------------------------------------------------------------------
(* The addresses of events. *)
Pcs == Insts \cup {c.pc : c \in Calls}

(* The recorded slice: the calls occur in order, each of them once, at     *)
(* their addresses, and what follows a call is behind it.                  *)
EventInv ==
  /\ slice \in Seq([pc : Pcs, call : Nat])
  /\ \A n \in 1..Len(slice) :
       /\ slice[n].call = 0 => slice[n].pc \in Insts
       /\ slice[n].call # 0 => /\ slice[n].call \in 1..Len(calls)
                              /\ slice[n].pc = calls[slice[n].call].pc
  /\ \A m, n \in 1..Len(slice) :
       m < n /\ slice[m].call # 0 /\ slice[n].call # 0 => slice[m].call < slice[n].call
  /\ \A j \in 1..Len(calls) : \E n \in 1..Len(slice) : slice[n].call = j
  /\ \A n \in 1..Len(slice) :
       n < Len(slice) /\ slice[n].call # 0 => slice[n + 1].pc = slice[n].pc + 4

(* The exit instruction, once the slice is closed. *)
ExitInv ==
  /\ phase = "record" => exit_pc = NoPc
  /\ phase # "record" =>
       exit_pc \in Insts \ sinceLastCall /\ follows(exit_pc)

(* The loader before it starts. *)
OffInv ==
  /\ phase # "done" => status = "off"
  /\ status = "off" =>
       pc = NoPc /\ replaced = {} /\ nowcallnum = 0 /\ log = <<>>

LoaderType ==
  /\ status \in {"off", "run", "over", "stray", "wrongnum"}
  /\ pc \in Nat
  /\ replaced \subseteq {c.pc : c \in Calls} \cup {exit_pc}
  /\ nowcallnum \in 0..Len(calls)
  /\ jal \in [{Midpoint[a] : a \in DOMAIN Midpoint} -> Nat]
  /\ \E S : log \in Seq(S)

(* Facts about addresses. *)
LEMMA PcFacts ==
  /\ Pcs \subseteq Nat \ {0} /\ Pcs \subseteq DOMAIN Midpoint
  /\ \A c \in Calls : c.pc \in Pcs /\ c.pc \notin Insts /\ c.pc # NoPc
  /\ Insts \subseteq Pcs /\ NoPc \notin Insts
<1>1. \A c \in Calls : c.pc \in Nat \ {0}
  BY CallAssumption
<1>2. QED
  BY <1>1, SliceAssumption DEF Pcs, NoPc

(* One more instruction of the slice. *)
LEMMA EventInst ==
  ASSUME EventInv, NEW a \in Insts, RecordInst(a)
  PROVE  EventInv'
<1> DEFINE L == Len(slice)
           e == [pc |-> a, call |-> 0]
<1>1. slice' = Append(slice, e) /\ follows(a) /\ calls' = calls
  BY DEF RecordInst, vars
<1>2. slice \in Seq([pc : Pcs, call : Nat]) /\ L \in Nat
  BY DEF EventInv
<1>3. e \in [pc : Pcs, call : Nat] /\ e.pc = a /\ e.call = 0
  BY PcFacts
<1> HIDE DEF e
<1>4. /\ slice' \in Seq([pc : Pcs, call : Nat]) /\ Len(slice') = L + 1
      /\ \A n \in 1..L : slice'[n] = slice[n]
      /\ slice'[L + 1] = e
  BY <1>1, <1>2, <1>3, AppendProperties
<1> HIDE DEF L
<1>5. \A n \in 1..(L + 1) : n \in 1..L \/ n = L + 1
  BY <1>2
<1>6. ASSUME NEW n \in 1..Len(slice')
      PROVE  /\ slice'[n].call = 0 => slice'[n].pc \in Insts
             /\ slice'[n].call # 0 => /\ slice'[n].call \in 1..Len(calls')
                                     /\ slice'[n].pc = calls'[slice'[n].call].pc
  BY <1>1, <1>3, <1>4, <1>5 DEF EventInv, L
<1>7. ASSUME NEW m \in 1..Len(slice'), NEW n \in 1..Len(slice'),
             m < n, slice'[m].call # 0, slice'[n].call # 0
      PROVE  slice'[m].call < slice'[n].call
  <2>1. m \in 1..L /\ n \in 1..L
    BY <1>3, <1>4, <1>5, <1>7
  <2>2. QED
    BY <1>4, <1>7, <2>1 DEF EventInv, L
<1>8. ASSUME NEW j \in 1..Len(calls')
      PROVE  \E n \in 1..Len(slice') : slice'[n].call = j
  <2>1. PICK n \in 1..L : slice[n].call = j
    BY <1>1 DEF EventInv, L
  <2>2. n \in 1..(L + 1) /\ slice'[n] = slice[n]
    BY <1>2, <1>4
  <2>3. QED
    BY <1>4, <2>1, <2>2
<1>9. ASSUME NEW n \in 1..Len(slice'), n < Len(slice'), slice'[n].call # 0
      PROVE  slice'[n + 1].pc = slice'[n].pc + 4
  <2>1. n \in 1..L /\ slice[n].call # 0 /\ slice'[n] = slice[n]
    BY <1>2, <1>4, <1>9
  <2>2. CASE n = L
    <3>1. slice # <<>>
      BY <1>2, <2>1 DEF L
    <3>2. a = slice[L].pc + 4
      BY <1>1, <2>1, <2>2, <3>1 DEF follows, L
    <3>3. QED
      BY <1>3, <1>4, <2>1, <2>2, <3>2
  <2>3. CASE n < L
    <3>1. slice[n + 1].pc = slice[n].pc + 4
      BY <2>1, <2>3 DEF EventInv, L
    <3>2. n + 1 \in 1..L
      BY <1>2, <2>1, <2>3
    <3>3. QED
      BY <1>4, <2>1, <3>1, <3>2
  <2>4. QED
    BY <1>2, <2>1, <2>2, <2>3
<1>10. QED
  BY <1>4, <1>6, <1>7, <1>8, <1>9 DEF EventInv, Pcs

(* One more call. *)
LEMMA EventCall ==
  ASSUME EventInv, calls \in Seq(Calls), NEW c \in Calls, RecordSyscall(c)
  PROVE  EventInv'
<1> DEFINE L == Len(slice)
           C == Len(calls)
           e == [pc |-> c.pc, call |-> C + 1]
<1>1. slice' = Append(slice, e) /\ follows(c.pc) /\ calls' = Append(calls, c)
  BY DEF RecordSyscall, RecordCall
<1>2. slice \in Seq([pc : Pcs, call : Nat]) /\ L \in Nat /\ C \in Nat
  BY DEF EventInv
<1>3. e \in [pc : Pcs, call : Nat] /\ e.pc = c.pc /\ e.call = C + 1
  BY <1>2, PcFacts
<1> HIDE DEF e
<1>4. /\ slice' \in Seq([pc : Pcs, call : Nat]) /\ Len(slice') = L + 1
      /\ \A n \in 1..L : slice'[n] = slice[n]
      /\ slice'[L + 1] = e
  BY <1>1, <1>2, <1>3, AppendProperties
<1>5. /\ Len(calls') = C + 1 /\ calls'[C + 1] = c
      /\ \A j \in 1..C : calls'[j] = calls[j]
  BY <1>1, AppendProperties
<1> HIDE DEF L, C
<1>6. \A n \in 1..(L + 1) : n \in 1..L \/ n = L + 1
  BY <1>2
<1>7. \A n \in 1..L : slice[n].call # 0 => slice[n].call \in 1..C
  BY DEF EventInv, L, C
<1>8. ASSUME NEW n \in 1..Len(slice')
      PROVE  /\ slice'[n].call = 0 => slice'[n].pc \in Insts
             /\ slice'[n].call # 0 => /\ slice'[n].call \in 1..Len(calls')
                                     /\ slice'[n].pc = calls'[slice'[n].call].pc
  <2>1. CASE n = L + 1
    BY <1>2, <1>3, <1>4, <1>5, <2>1
  <2>2. CASE n \in 1..L
    <3>1. slice'[n] = slice[n] /\ (slice[n].call = 0 => slice[n].pc \in Insts)
      BY <1>4, <2>2 DEF EventInv, L
    <3>2. ASSUME slice[n].call # 0
          PROVE  slice[n].call \in 1..(C + 1) /\ slice[n].pc = calls'[slice[n].call].pc
      <4>1. slice[n].call \in 1..C /\ slice[n].pc = calls[slice[n].call].pc
        BY <2>2, <3>2 DEF EventInv, L, C
      <4>2. QED
        BY <1>2, <1>5, <4>1
    <3>3. QED
      BY <1>5, <3>1, <3>2
  <2>3. QED
    BY <1>4, <1>6, <2>1, <2>2
<1>9. ASSUME NEW m \in 1..Len(slice'), NEW n \in 1..Len(slice'),
             m < n, slice'[m].call # 0, slice'[n].call # 0
      PROVE  slice'[m].call < slice'[n].call
  <2>1. m \in 1..L
    BY <1>2, <1>4, <1>9
  <2>2. CASE n = L + 1
    <3>1. slice'[m].call \in 1..C
      BY <1>4, <1>7, <1>9, <2>1
    <3>2. slice'[n].call = C + 1
      BY <1>3, <1>4, <2>2
    <3>3. QED
      BY <1>2, <3>1, <3>2
  <2>3. CASE n \in 1..L
    BY <1>4, <1>9, <2>1, <2>3 DEF EventInv, L
  <2>4. QED
    BY <1>4, <1>6, <2>2, <2>3
<1>10. ASSUME NEW j \in 1..Len(calls')
       PROVE  \E n \in 1..Len(slice') : slice'[n].call = j
  <2>1. CASE j = C + 1
    <3>1. L + 1 \in 1..(L + 1)
      BY <1>2
    <3>2. QED
      BY <1>3, <1>4, <2>1, <3>1
  <2>2. CASE j \in 1..C
    <3>1. PICK n \in 1..L : slice[n].call = j
      BY <2>2 DEF EventInv, L, C
    <3>2. n \in 1..(L + 1) /\ slice'[n] = slice[n]
      BY <1>2, <1>4
    <3>3. QED
      BY <1>4, <3>1, <3>2
  <2>3. j = C + 1 \/ j \in 1..C
    BY <1>2, <1>5
  <2>4. QED
    BY <2>1, <2>2, <2>3
<1>11. ASSUME NEW n \in 1..Len(slice'), n < Len(slice'), slice'[n].call # 0
       PROVE  slice'[n + 1].pc = slice'[n].pc + 4
  <2>1. n \in 1..L /\ slice[n].call # 0 /\ slice'[n] = slice[n]
    BY <1>2, <1>4, <1>11
  <2>2. CASE n = L
    <3>1. slice # <<>>
      BY <1>2, <2>1 DEF L
    <3>2. c.pc = slice[L].pc + 4
      BY <1>1, <2>1, <2>2, <3>1 DEF follows, L
    <3>3. QED
      BY <1>3, <1>4, <2>1, <2>2, <3>2
  <2>3. CASE n < L
    <3>1. slice[n + 1].pc = slice[n].pc + 4
      BY <2>1, <2>3 DEF EventInv, L
    <3>2. n + 1 \in 1..L
      BY <1>2, <2>1, <2>3
    <3>3. QED
      BY <1>4, <2>1, <3>1, <3>2
  <2>4. QED
    BY <1>2, <2>1, <2>2, <2>3
<1>12. QED
  BY <1>4, <1>8, <1>9, <1>10, <1>11 DEF EventInv, Pcs

-----------------------------------------------------------------------------
(* The ecalls of the slice. *)
Ecalls == {calls[j].pc : j \in 1..Len(calls)}

(* processJmp replaces exactly the ecalls of the slice. *)
LEMMA EcallsReplaced ==
  ASSUME SectionInv, phase = "done"
  PROVE  processJmp = Ecalls
<1>1. \A n \in 1..Len(calls) : sys_idxs[n] + 1 \in DOMAIN infos /\ lookup(n).pc = calls[n].pc
  BY LookupCall
<1>2. \A k \in DOMAIN infos : \E n \in DOMAIN calls : sys_idxs[n] + 1 = k
  BY SectionMinimal DEF NoDuplicates
<1>3. DOMAIN calls = 1..Len(calls) /\ DOMAIN sys_idxs = 1..Len(calls)
      /\ DOMAIN infos = 1..Len(infos) /\ Len(infos) \in Nat
  BY DEF SectionInv, TableInv, RecordInv, TypeOK, ScanInv, ListInv, FileInv
<1>4. \A k \in DOMAIN infos : k <= k
  BY <1>3
<1>5. \A k \in DOMAIN infos : \E n \in 1..Len(calls) : k = sys_idxs[n] + 1 /\ infos[k].pc = calls[n].pc
  BY <1>1, <1>2, <1>3 DEF lookup
<1>6. processJmp \subseteq Ecalls
  BY <1>5 DEF processJmp, Ecalls
<1>7. ASSUME NEW n \in 1..Len(calls)
      PROVE  calls[n].pc \in processJmp
  <2>1. sys_idxs[n] + 1 \in {j \in DOMAIN infos : \E m \in DOMAIN sys_idxs : j <= sys_idxs[m] + 1}
    BY <1>1, <1>3, <1>4
  <2>2. infos[sys_idxs[n] + 1].pc = calls[n].pc
    BY <1>1 DEF lookup
  <2>3. QED
    BY <2>1, <2>2 DEF processJmp
<1>8. QED
  BY <1>6, <1>7 DEF Ecalls

(* While the replay runs it is where the slice was: the program continues  *)
(* at the next recorded event, the calls among the executed events are     *)
(* those that have been served, and the jumps that the loader has planted  *)
(* are those of the ecalls and, after the last call, of the exit           *)
(* instruction.                                                            *)
RunInv ==
  /\ Len(log) <= Len(slice)
  /\ pc = successor(Len(log))
  /\ \A n \in 1..Len(slice) : slice[n].call # 0 =>
       (n <= Len(log) <=> slice[n].call <= nowcallnum)
  /\ Ecalls \subseteq replaced
  /\ replaced \subseteq Ecalls \cup {exit_pc}
  /\ exit_pc \in replaced => nowcallnum = Len(calls)
  /\ nowcallnum = Len(calls) => exit_pc \in replaced

ReplayInv ==
  /\ SectionInv
  /\ EventInv
  /\ ExitInv
  /\ OffInv
  /\ LoaderType
  /\ status = "run" => RunInv
  /\ ReplayEndsAtExit

(* What a step of the loader knows. *)
LEMMA ClosedFacts ==
  ASSUME ReplayInv, phase = "done"
  PROVE  /\ Len(slice) \in Nat /\ Len(calls) \in Nat /\ totalcallnum = Len(calls)
         /\ slice \in Seq([pc : Pcs, call : Nat]) /\ calls \in Seq(Calls)
         /\ \A n \in 1..Len(slice) : slice[n].pc \in Pcs /\ slice[n].call \in Nat
         /\ Ecalls \subseteq {c.pc : c \in Calls}
         /\ exit_pc \in Insts
         /\ exit_pc \notin Ecalls /\ Ecalls \cap Insts = {}
         /\ Len(log) \in Nat /\ nowcallnum \in 0..Len(calls)
         /\ SectionInv /\ EventInv /\ ExitInv /\ LoaderType
<1>1. SectionInv /\ EventInv /\ ExitInv /\ LoaderType
  BY DEF ReplayInv
<1>2. slice \in Seq([pc : Pcs, call : Nat]) /\ calls \in Seq(Calls) /\ Len(sys_idxs) = Len(calls)
  BY <1>1 DEF EventInv, SectionInv, TableInv, RecordInv, TypeOK, ScanInv, ListInv
<1>3. Len(slice) \in Nat /\ Len(calls) \in Nat
  BY <1>2
<1>4. \A n \in 1..Len(slice) : slice[n].pc \in Pcs /\ slice[n].call \in Nat
  <2>1. \A n \in 1..Len(slice) : slice[n] \in [pc : Pcs, call : Nat]
    BY <1>2, ElementOfSeq
  <2>2. \A e \in [pc : Pcs, call : Nat] : e.pc \in Pcs /\ e.call \in Nat
    OBVIOUS
  <2>3. QED
    BY <2>1, <2>2
<1>5. \A j \in 1..Len(calls) : calls[j] \in Calls
  BY <1>2
<1>6. Ecalls \subseteq {c.pc : c \in Calls}
  BY <1>5 DEF Ecalls
<1>7. exit_pc \in Insts
  BY <1>1 DEF ExitInv
<1>8. Ecalls \cap Insts = {}
  BY <1>6, PcFacts
<1>9. Len(log) \in Nat
  BY <1>1 DEF LoaderType
<1>10. QED
  BY <1>1, <1>2, <1>3, <1>4, <1>6, <1>7, <1>8, <1>9, SliceAssumption DEF totalcallnum, LoaderType

(* At the end of the slice every call has been served. *)
LEMMA AllServed ==
  ASSUME ReplayInv, phase = "done", RunInv, Len(log) = Len(slice)
  PROVE  nowcallnum = Len(calls)
<1>1. Len(calls) \in Nat /\ nowcallnum \in 0..Len(calls) /\ Len(slice) \in Nat
  BY ClosedFacts
<1>2. CASE Len(calls) = 0
  BY <1>1, <1>2
<1>3. CASE Len(calls) # 0
  <2>1. Len(calls) \in 1..Len(calls)
    BY <1>1, <1>3
  <2>2. PICK n \in 1..Len(slice) : slice[n].call = Len(calls)
    BY <2>1 DEF ReplayInv, EventInv
  <2>3. n <= Len(log)
    BY <1>1
  <2>4. Len(calls) <= nowcallnum
    BY <1>3, <2>2, <2>3 DEF RunInv
  <2>5. QED
    BY <1>1, <2>4
<1>4. QED
  BY <1>2, <1>3

(* An instruction that the loader has not overwritten is the next one of   *)
(* the slice.                                                              *)
LEMMA NextInst ==
  ASSUME ReplayInv, phase = "done", RunInv, pc \notin replaced
  PROVE  Len(log) < Len(slice) /\ inSlice /\ event.call = 0
<1>1. Len(log) \in Nat /\ Len(slice) \in Nat /\ Len(log) <= Len(slice)
  BY ClosedFacts DEF RunInv
<1>2. ASSUME Len(log) < Len(slice) PROVE inSlice /\ event.call = 0
  <2> DEFINE n == Len(log) + 1
  <2>1. n \in 1..Len(slice)
    BY <1>1, <1>2
  <2>2. pc = slice[n].pc
    BY <1>2 DEF RunInv, successor
  <2>3. slice[n].call = 0
    <3> SUFFICES ASSUME slice[n].call # 0 PROVE FALSE
      OBVIOUS
    <3>1. slice[n].call \in 1..Len(calls) /\ slice[n].pc = calls[slice[n].call].pc
      BY <2>1 DEF ReplayInv, EventInv
    <3>2. pc \in Ecalls
      BY <2>2, <3>1 DEF Ecalls
    <3>3. QED
      BY <3>2 DEF RunInv
  <2>4. QED
    BY <1>2, <2>2, <2>3 DEF inSlice, event
<1>3. ASSUME ~(Len(log) < Len(slice)) PROVE FALSE
  <2>1. Len(log) = Len(slice)
    BY <1>1, <1>3
  <2>2. pc = exit_pc
    BY <1>3 DEF RunInv, successor
  <2>3. exit_pc \in replaced
    BY <1>3, <2>1, AllServed DEF RunInv
  <2>4. QED
    BY <2>2, <2>3
<1>4. QED
  BY <1>2, <1>3

(* A jump into takeoverSyscall before the last call is served is the next  *)
(* call of the slice.                                                      *)
LEMMA NextCall ==
  ASSUME ReplayInv, phase = "done", RunInv, pc \in replaced, nowcallnum < Len(calls)
  PROVE  /\ Len(log) < Len(slice) /\ event.pc = pc /\ event.call = nowcallnum + 1
         /\ nowcallnum + 1 \in 1..Len(calls) /\ pc = calls[nowcallnum + 1].pc
         /\ rightNum /\ lookup(nowcallnum + 1).pc = pc
<1> DEFINE n == Len(log) + 1
           k == nowcallnum + 1
<1>1. /\ Len(log) \in Nat /\ Len(slice) \in Nat /\ Len(log) <= Len(slice)
      /\ nowcallnum \in 0..Len(calls) /\ Len(calls) \in Nat
  BY ClosedFacts DEF RunInv
<1>2. Len(log) # Len(slice)
  BY <1>1, AllServed
<1>3. Len(log) < Len(slice) /\ n \in 1..Len(slice)
  BY <1>1, <1>2
<1>4. pc = slice[n].pc
  BY <1>3 DEF RunInv, successor
<1>5. pc \in Ecalls
  BY <1>1 DEF RunInv
<1>6. slice[n].call # 0
  <2>1. pc \notin Insts
    BY <1>5, ClosedFacts
  <2>2. slice[n].call = 0 => slice[n].pc \in Insts
    BY <1>3 DEF ReplayInv, EventInv
  <2>3. QED
    BY <1>4, <2>1, <2>2
<1>7. slice[n].call \in 1..Len(calls) /\ slice[n].pc = calls[slice[n].call].pc
  BY <1>3, <1>6 DEF ReplayInv, EventInv
<1>8. ~(slice[n].call <= nowcallnum)
  <2>1. ~(n <= Len(log))
    BY <1>1
  <2>2. QED
    BY <1>3, <1>6, <2>1 DEF RunInv
<1>9. k \in 1..Len(calls)
  BY <1>1
<1>10. slice[n].call = k
  <2>1. PICK m \in 1..Len(slice) : slice[m].call = k
    BY <1>9 DEF ReplayInv, EventInv
  <2>2. ~(m <= Len(log))
    <3>1. slice[m].call # 0 /\ ~(slice[m].call <= nowcallnum)
      BY <1>1, <2>1
    <3>2. QED
      BY <3>1 DEF RunInv
  <2>3. m = n \/ n < m
    BY <1>1, <2>2
  <2>4. CASE n < m
    <3>1. slice[n].call < slice[m].call
      BY <1>3, <1>6, <1>9, <2>1, <2>4 DEF ReplayInv, EventInv
    <3>2. QED
      BY <1>1, <1>7, <1>8, <2>1, <3>1
  <2>5. QED
    BY <2>1, <2>3, <2>4
<1>11. lookup(k).pc = calls[k].pc /\ lookup(k).num = calls[k].num
  BY <1>9, LookupCall DEF ReplayInv
<1>12. event = slice[n]
  BY DEF event
<1>13. rightNum
  BY <1>3, <1>4, <1>6, <1>10, <1>11, <1>12 DEF rightNum, inSlice
<1>14. QED
  BY <1>3, <1>4, <1>7, <1>9, <1>10, <1>11, <1>12, <1>13

(* A jump into takeoverSyscall after the last call is the exit             *)
(* instruction, at the end of the slice: the exit instruction does not     *)
(* occur between the last call and the end.                                *)
LEMMA AtExit ==
  ASSUME ReplayInv, phase = "done", RunInv, pc \in replaced, nowcallnum >= Len(calls)
  PROVE  pc = exit_pc /\ Len(log) = Len(slice)
<1> DEFINE n == Len(log) + 1
<1>1. /\ Len(log) \in Nat /\ Len(slice) \in Nat /\ Len(log) <= Len(slice)
      /\ nowcallnum = Len(calls) /\ Len(calls) \in Nat
  BY ClosedFacts DEF RunInv
<1>2. ASSUME Len(log) < Len(slice) PROVE FALSE
  <2>1. n \in 1..Len(slice) /\ \A m \in n..Len(slice) : m \in 1..Len(slice) /\ ~(m <= Len(log))
    BY <1>1, <1>2
  <2>2. ASSUME NEW m \in n..Len(slice), slice[m].call # 0 PROVE FALSE
    <3>1. ~(slice[m].call <= nowcallnum)
      BY <2>1, <2>2 DEF RunInv
    <3>2. slice[m].call \in 1..Len(calls)
      BY <2>1, <2>2 DEF ReplayInv, EventInv
    <3>3. QED
      BY <1>1, <3>1, <3>2
  <2>3. slice[n].call = 0
    <3>1. n \in n..Len(slice)
      BY <1>1, <1>2
    <3>2. QED
      BY <2>2, <3>1
  <2>4. pc = slice[n].pc
    BY <1>2 DEF RunInv, successor
  <2>5. pc \in Insts
    BY <2>1, <2>3, <2>4 DEF ReplayInv, EventInv
  <2>6. pc = exit_pc
    BY <2>5, ClosedFacts DEF RunInv
  <2>7. pc \in sinceLastCall
    <3>1. DOMAIN slice = 1..Len(slice)
      BY ClosedFacts
    <3>2. n \in {m \in DOMAIN slice : \A k \in m..Len(slice) : slice[k].call = 0}
      BY <2>1, <2>2, <3>1
    <3>3. QED
      BY <2>4, <3>2 DEF sinceLastCall
  <2>8. QED
    BY <2>6, <2>7 DEF ReplayInv, ExitInv
<1>3. Len(log) = Len(slice)
  BY <1>1, <1>2
<1>4. pc = exit_pc
  BY <1>1, <1>3 DEF RunInv, successor
<1>5. QED
  BY <1>3, <1>4

-----------------------------------------------------------------------------
(* Before the loader starts, a step keeps its state as it is. *)
LEMMA LoaderOff ==
  ASSUME ReplayInv, UNCHANGED loader, status = "off", Len(calls') \in Nat
  PROVE  OffInv' /\ LoaderType' /\ (status = "run" => RunInv)'
         /\ ReplayEndsAtExit'
<1>1. UNCHANGED <<status, pc, replaced, nowcallnum, tempMemory, jal, log>>
  BY DEF loader
<1>2. pc = NoPc /\ replaced = {} /\ nowcallnum = 0 /\ log = <<>>
  BY DEF ReplayInv, OffInv
<1>3. nowcallnum' \in 0..Len(calls')
  BY <1>1, <1>2
<1>4. LoaderType'
  BY <1>1, <1>2, <1>3 DEF ReplayInv, LoaderType
<1>5. OffInv'
  BY <1>1, <1>2 DEF OffInv, NoPc
<1>6. (status = "run" => RunInv)'
  BY <1>1
<1>7. ReplayEndsAtExit'
  BY <1>1 DEF ReplayEndsAtExit
<1>8. QED
  BY <1>4, <1>5, <1>6, <1>7

(* An event is recorded. *)
LEMMA RecordKeeps ==
  ASSUME ReplayInv, \/ \E a \in Insts : RecordInst(a)
                    \/ \E c \in Calls : RecordSyscall(c)
  PROVE  ReplayInv'
<1>1. /\ phase = "record" /\ phase' = "record" /\ UNCHANGED <<exit_pc, loader>>
      /\ [SliceNext]_allvars
  BY DEF RecordInst, RecordSyscall, RecordCall, vars, SliceNext
<1>2. SectionInv'
  BY <1>1, SectionFollows DEF ReplayInv
<1>3. calls \in Seq(Calls) /\ Len(calls') \in Nat
  BY <1>2 DEF ReplayInv, SectionInv, TableInv, RecordInv, TypeOK
<1>4. EventInv'
  BY <1>3, EventInst, EventCall DEF ReplayInv
<1>5. ExitInv'
  BY <1>1 DEF ReplayInv, ExitInv, NoPc
<1>6. status = "off"
  BY <1>1 DEF ReplayInv, OffInv
<1>7. QED
  BY <1>1, <1>2, <1>3, <1>4, <1>5, <1>6, LoaderOff DEF ReplayInv

(* What follows from an unchanged slice. *)
LEMMA SliceKept ==
  ASSUME UNCHANGED <<slice, calls>>, EventInv
  PROVE  EventInv' /\ sinceLastCall' = sinceLastCall /\ \A a : follows(a)' = follows(a)
<1>1. EventInv'
  BY DEF EventInv, Pcs
<1>2. sinceLastCall' = sinceLastCall
  BY DEF sinceLastCall
<1>3. \A a : follows(a)' = follows(a)
  BY DEF follows
<1>4. QED
  BY <1>1, <1>2, <1>3

(* The slice is closed. *)
LEMMA CloseKeeps ==
  ASSUME ReplayInv, NEW a \in Insts, CloseSlice(a)
  PROVE  ReplayInv'
<1>1. /\ phase = "record" /\ phase' = "scan" /\ UNCHANGED <<slice, calls, loader>>
      /\ exit_pc' = a /\ [SliceNext]_allvars
  BY DEF CloseSlice, StartSave, recording, SliceNext
<1>2. SectionInv'
  BY <1>1, SectionFollows DEF ReplayInv
<1>3. Len(calls') \in Nat
  BY <1>2 DEF SectionInv, TableInv, RecordInv, TypeOK
<1>4. EventInv' /\ sinceLastCall' = sinceLastCall
  BY <1>1, SliceKept DEF ReplayInv
<1>5. a \notin sinceLastCall /\ follows(a)
  BY DEF CloseSlice
<1>6. follows(exit_pc)'
  BY <1>1, <1>5 DEF follows
<1>7. ExitInv'
  BY <1>1, <1>4, <1>5, <1>6 DEF ExitInv
<1>8. QED
  BY <1>1, <1>2, <1>3, <1>4, <1>7, LoaderOff DEF ReplayInv, OffInv

(* saveSysInfo runs. *)
LEMMA SaveKeeps ==
  ASSUME ReplayInv, SaveSlice
  PROVE  ReplayInv'
<1>1. /\ phase # "record" /\ phase # "done" /\ phase' # "record"
      /\ UNCHANGED <<slice, calls, exit_pc, loader>> /\ [SliceNext]_allvars
  BY DEF SaveSlice, saveSysInfo, Scan, WriteIndexes, WriteInfo, StartInfo1, WriteInfo1,
         StartData, WriteData, EndSave, recording, SliceNext
<1>2. SectionInv'
  BY <1>1, SectionFollows DEF ReplayInv
<1>3. Len(calls') \in Nat
  BY <1>2 DEF SectionInv, TableInv, RecordInv, TypeOK
<1>4. EventInv' /\ sinceLastCall' = sinceLastCall
  BY <1>1, SliceKept DEF ReplayInv
<1>5. follows(exit_pc) => follows(exit_pc)'
  BY <1>1 DEF follows
<1>6. ExitInv'
  BY <1>1, <1>4, <1>5 DEF ReplayInv, ExitInv, NoPc
<1>7. status = "off"
  BY <1>1 DEF ReplayInv, OffInv
<1>8. QED
  BY <1>1, <1>2, <1>3, <1>4, <1>6, <1>7, LoaderOff DEF ReplayInv

(* A step of the loader leaves the checkpoint alone. *)
LEMMA LoaderKeeps ==
  ASSUME ReplayInv, phase = "done", UNCHANGED <<vars, slice, exit_pc>>
  PROVE  /\ SectionInv' /\ EventInv' /\ ExitInv' /\ Ecalls' = Ecalls
         /\ \A n : successor(n)' = successor(n)
         /\ phase' = "done" /\ UNCHANGED <<calls, slice, exit_pc>>
<1>1. [Next]_vars /\ UNCHANGED <<calls, slice, exit_pc, phase>>
  BY DEF vars
<1>2. SectionInv'
  BY <1>1, SectionStep DEF ReplayInv
<1>3. EventInv' /\ sinceLastCall' = sinceLastCall
  BY <1>1, SliceKept DEF ReplayInv
<1>4. follows(exit_pc) => follows(exit_pc)'
  BY <1>1 DEF follows
<1>5. ExitInv'
  BY <1>1, <1>3, <1>4 DEF ReplayInv, ExitInv, NoPc
<1>6. Ecalls' = Ecalls
  BY <1>1 DEF Ecalls
<1>7. \A n : successor(n)' = successor(n)
  BY <1>1 DEF successor
<1>8. QED
  BY <1>1, <1>2, <1>3, <1>5, <1>6, <1>7

(* The loader jumps through the trampoline that it has just written. *)
LEMMA Jump ==
  ASSUME LoaderType, NEW a \in Pcs, NEW target \in Nat, updateJmpInst(a, target)
  PROVE  /\ jal' \in [{Midpoint[b] : b \in DOMAIN Midpoint} -> Nat]
         /\ jal'[tempMemory'] = target
<1>1. a \in DOMAIN Midpoint
  BY PcFacts
<1>2. Midpoint[a] \in {Midpoint[b] : b \in DOMAIN Midpoint}
  BY <1>1
<1>3. jal \in [{Midpoint[b] : b \in DOMAIN Midpoint} -> Nat]
  BY DEF LoaderType
<1>4. QED
  BY <1>2, <1>3 DEF updateJmpInst

(* The loader starts the slice. *)
LEMMA StartKeeps ==
  ASSUME ReplayInv, read_ckptinfo
  PROVE  ReplayInv'
<1> DEFINE first == successor(0)
<1>1. /\ phase = "done" /\ status = "off" /\ status' = "run"
      /\ UNCHANGED <<vars, slice, exit_pc>> /\ nowcallnum' = nowcallnum /\ log' = log
      /\ updateJmpInst(first, first) /\ pc' = jal'[tempMemory']
      /\ replaced' = processJmp \cup
                       (IF totalcallnum = 0 /\ exit_pc # NoPc THEN {exit_pc} ELSE {})
  BY DEF read_ckptinfo
<1>2. /\ SectionInv' /\ EventInv' /\ ExitInv' /\ Ecalls' = Ecalls
      /\ \A n : successor(n)' = successor(n)
      /\ phase' = "done" /\ UNCHANGED <<calls, slice, exit_pc>>
  BY <1>1, LoaderKeeps
<1>3. nowcallnum = 0 /\ log = <<>> /\ Len(log) = 0
  BY <1>1 DEF ReplayInv, OffInv
<1>4. /\ Len(slice) \in Nat /\ Len(calls) \in Nat /\ totalcallnum = Len(calls)
      /\ slice \in Seq([pc : Pcs, call : Nat])
      /\ \A n \in 1..Len(slice) : slice[n].pc \in Pcs /\ slice[n].call \in Nat
      /\ Ecalls \subseteq {c.pc : c \in Calls}
      /\ exit_pc \notin Ecalls
      /\ exit_pc \in Insts
      /\ LoaderType
  BY <1>1, ClosedFacts
<1>5. first \in Pcs /\ first \in Nat
  <2>1. CASE 0 < Len(slice)
    <3>1. first = slice[1].pc /\ 1 \in 1..Len(slice)
      BY <1>4, <2>1 DEF successor
    <3>2. QED
      BY <1>4, <3>1, PcFacts
  <2>2. CASE ~(0 < Len(slice))
    <3>1. first = exit_pc /\ slice = <<>>
      BY <1>4, <2>2 DEF successor
    <3>2. QED
      BY <1>4, <3>1, PcFacts
  <2>3. QED
    BY <2>1, <2>2
<1> HIDE DEF first
<1>6. /\ jal' \in [{Midpoint[b] : b \in DOMAIN Midpoint} -> Nat] /\ pc' = first
  BY <1>1, <1>4, <1>5, Jump
<1>7. processJmp = Ecalls
  BY <1>1, EcallsReplaced DEF ReplayInv
<1>8. /\ Ecalls \subseteq replaced' /\ replaced' \subseteq Ecalls \cup {exit_pc}
      /\ exit_pc \in replaced' => Len(calls) = 0
      /\ Len(calls) = 0 => exit_pc \in replaced'
  BY <1>1, <1>4, <1>7, PcFacts
<1>9. RunInv'
  <2>1. Len(log') <= Len(slice') /\ pc' = successor(Len(log))'
    BY <1>1, <1>2, <1>3, <1>4, <1>6 DEF first, successor
  <2>2. \A n \in 1..Len(slice') : slice'[n].call # 0 =>
          (n <= Len(log') <=> slice'[n].call <= nowcallnum')
    BY <1>1, <1>2, <1>3, <1>4
  <2>3. QED
    BY <1>1, <1>2, <1>3, <1>8, <2>1, <2>2 DEF RunInv
<1>10. LoaderType'
  BY <1>1, <1>2, <1>4, <1>5, <1>6, <1>8 DEF LoaderType
<1>11. OffInv'
  BY <1>1, <1>2 DEF OffInv
<1>12. ReplayEndsAtExit'
  BY <1>1 DEF ReplayEndsAtExit
<1>13. QED
  BY <1>2, <1>9, <1>10, <1>11, <1>12 DEF ReplayInv

(* The replay ends. *)
LEMMA EndKeeps ==
  ASSUME ReplayInv, phase = "done", UNCHANGED <<vars, slice, exit_pc>>,
         end("over"), pc = exit_pc, Len(log) = Len(slice)
  PROVE  ReplayInv'
<1>1. status' = "over" /\ UNCHANGED <<pc, replaced, nowcallnum, tempMemory, jal, log>>
  BY DEF end
<1>2. /\ SectionInv' /\ EventInv' /\ ExitInv'
      /\ phase' = "done" /\ UNCHANGED <<calls, slice, exit_pc>>
  BY LoaderKeeps
<1>3. LoaderType'
  BY <1>1, <1>2 DEF ReplayInv, LoaderType
<1>4. OffInv'
  BY <1>1, <1>2 DEF OffInv
<1>5. ReplayEndsAtExit'
  BY <1>1, <1>2 DEF ReplayEndsAtExit
<1>6. QED
  BY <1>1, <1>2, <1>3, <1>4, <1>5 DEF ReplayInv

(* The history grows. *)
LEMMA LogGrows ==
  ASSUME LoaderType, NEW e, log' = Append(log, e)
  PROVE  Len(log) \in Nat /\ Len(log') = Len(log) + 1 /\ \E S : log' \in Seq(S)
<1>1. PICK S : log \in Seq(S)
  BY DEF LoaderType
<1>2. log \in Seq(S \cup {e}) /\ e \in S \cup {e}
  BY <1>1
<1>3. log' \in Seq(S \cup {e}) /\ Len(log') = Len(log) + 1 /\ Len(log) \in Nat
  BY <1>2, AppendProperties
<1>4. QED
  BY <1>3

(* The program runs by itself. *)
LEMMA RunKeeps ==
  ASSUME ReplayInv, RunInst
  PROVE  ReplayInv'
<1>1. status = "run" /\ pc \notin replaced /\ UNCHANGED <<vars, slice, exit_pc>>
  BY DEF RunInst
<1>2. phase = "done" /\ RunInv
  BY <1>1 DEF ReplayInv, OffInv
<1>3. /\ SectionInv' /\ EventInv' /\ ExitInv' /\ Ecalls' = Ecalls
      /\ \A n : successor(n)' = successor(n)
      /\ phase' = "done" /\ UNCHANGED <<calls, slice, exit_pc>>
  BY <1>1, <1>2, LoaderKeeps
<1>4. /\ Len(log) \in Nat /\ Len(slice) \in Nat /\ LoaderType
      /\ \A n \in 1..Len(slice) : slice[n].pc \in Pcs /\ slice[n].call \in Nat
      /\ exit_pc \in Insts
  BY <1>2, ClosedFacts
<1>5. Len(log) < Len(slice) /\ inSlice /\ event.call = 0
  BY <1>1, <1>2, NextInst
<1>6. /\ log' = Append(log, [pc |-> pc]) /\ pc' = successor(Len(log) + 1)
      /\ UNCHANGED <<status, replaced, nowcallnum, tempMemory, jal>>
  BY <1>5 DEF RunInst
<1>7. Len(log') = Len(log) + 1 /\ \E S : log' \in Seq(S)
  BY <1>4, <1>6, LogGrows
<1>8. slice[Len(log) + 1].call = 0
  BY <1>5 DEF event
<1>9. ASSUME NEW n \in 1..Len(slice'), slice'[n].call # 0
      PROVE  n <= Len(log') <=> slice'[n].call <= nowcallnum'
  <2>1. n <= Len(log) <=> slice[n].call <= nowcallnum
    BY <1>2, <1>3, <1>9 DEF RunInv
  <2>2. n # Len(log) + 1
    BY <1>3, <1>8, <1>9
  <2>3. n <= Len(log') <=> n <= Len(log)
    BY <1>3, <1>4, <1>7, <2>2
  <2>4. QED
    BY <1>3, <1>6, <2>1, <2>3
<1>10. Len(log') <= Len(slice') /\ pc' = successor(Len(log))'
  BY <1>3, <1>4, <1>5, <1>6, <1>7 DEF successor
<1>11. RunInv'
  BY <1>2, <1>3, <1>6, <1>9, <1>10 DEF RunInv
<1>12. pc' \in Nat
  <2>1. CASE Len(log) + 1 < Len(slice)
    <3>1. (Len(log) + 1) + 1 \in 1..Len(slice)
      BY <1>4, <2>1
    <3>2. QED
      BY <1>4, <1>6, <2>1, <3>1, PcFacts DEF successor
  <2>2. CASE ~(Len(log) + 1 < Len(slice))
    BY <1>4, <1>6, <2>2, PcFacts DEF successor, NoPc
  <2>3. QED
    BY <2>1, <2>2
<1>13. LoaderType'
  BY <1>3, <1>4, <1>6, <1>7, <1>12 DEF LoaderType
<1>14. OffInv' /\ ReplayEndsAtExit'
  BY <1>1, <1>3, <1>6 DEF OffInv, ReplayEndsAtExit
<1>15. QED
  BY <1>3, <1>11, <1>13, <1>14 DEF ReplayInv

(* A call is served. *)
LEMMA ServeKeeps ==
  ASSUME ReplayInv, phase = "done", status = "run", pc \in replaced,
         nowcallnum < Len(calls), serve(lookup(nowcallnum + 1)),
         UNCHANGED <<vars, slice, exit_pc>>
  PROVE  ReplayInv'
<1> DEFINE k == nowcallnum + 1
           e == lookup(k)
           n == Len(log) + 1
<1>1. RunInv
  BY DEF ReplayInv
<1>2. /\ Len(log) < Len(slice) /\ event.pc = pc /\ event.call = k
      /\ k \in 1..Len(calls) /\ e.pc = pc /\ pc = calls[k].pc
  BY <1>1, NextCall
<1>3. /\ SectionInv' /\ EventInv' /\ ExitInv' /\ Ecalls' = Ecalls
      /\ \A j : successor(j)' = successor(j)
      /\ phase' = "done" /\ UNCHANGED <<calls, slice, exit_pc>>
  BY LoaderKeeps
<1>4. /\ Len(log) \in Nat /\ Len(slice) \in Nat /\ Len(calls) \in Nat /\ LoaderType
      /\ \A j \in 1..Len(slice) : slice[j].pc \in Pcs /\ slice[j].call \in Nat
      /\ totalcallnum = Len(calls) /\ nowcallnum \in 0..Len(calls)
      /\ Ecalls \subseteq {c.pc : c \in Calls} /\ exit_pc \notin Ecalls
  BY ClosedFacts
<1>5. /\ updateJmpInst(pc, pc + 4) /\ nowcallnum' = k
      /\ replaced' = (IF k = Len(calls) THEN replaced \cup {exit_pc} ELSE replaced)
      /\ log' = Append(log, [pc |-> pc, a0 |-> a0(e), mem |-> memWrite(e)])
      /\ pc' = jal'[tempMemory'] /\ UNCHANGED status
  BY <1>2, <1>4, Zenon DEF serve, lastCall
<1>6. n \in 1..Len(slice) /\ slice[n].call = k /\ slice[n].pc = pc /\ pc \in Pcs /\ pc \in Nat
  <2>1. n \in 1..Len(slice) /\ slice[n].call = k /\ slice[n].pc = pc
    BY <1>2, <1>4 DEF event
  <2>2. QED
    BY <1>4, <2>1, PcFacts
<1> HIDE DEF e
<1>7. /\ slice[n].call # 0
      /\ \A j, m \in 1..Len(slice) :
           j < m /\ slice[j].call # 0 /\ slice[m].call # 0 => slice[j].call < slice[m].call
      /\ \A j \in 1..Len(slice) :
           j < Len(slice) /\ slice[j].call # 0 => slice[j + 1].pc = slice[j].pc + 4
  <2>1. k # 0
    BY <1>2, <1>4
  <2>2. QED
    BY <1>6, <2>1 DEF ReplayInv, EventInv
<1>8. Len(log') = n /\ \E S : log' \in Seq(S)
  BY <1>4, <1>5, LogGrows
<1>9. /\ jal' \in [{Midpoint[b] : b \in DOMAIN Midpoint} -> Nat]
      /\ jal'[tempMemory'] = pc + 4
  <2>1. pc + 4 \in Nat
    BY <1>6
  <2>2. QED
    BY <1>4, <1>5, <1>6, <2>1, Jump
<1>10. LoaderType'
  <2>1. status' = "run" /\ pc' \in Nat
    BY <1>5, <1>6, <1>9
  <2>2. replaced' \subseteq {c.pc : c \in Calls} \cup {exit_pc'}
    BY <1>3, <1>4, <1>5 DEF LoaderType
  <2>3. nowcallnum' \in 0..Len(calls')
    BY <1>2, <1>3, <1>4, <1>5
  <2>4. QED
    BY <1>8, <1>9, <2>1, <2>2, <2>3 DEF LoaderType
<1>11. OffInv'
  BY <1>3, <1>5 DEF OffInv
<1>12. ReplayEndsAtExit'
  BY <1>5 DEF ReplayEndsAtExit
<1>13. RunInv'
  <2>1. pc' = pc + 4
    BY <1>5, <1>9
  <2>2. successor(n) = pc + 4
    <3>1. CASE n < Len(slice)
      <4>1. slice[n + 1].pc = slice[n].pc + 4
        BY <1>6, <1>7, <3>1
      <4>2. QED
        BY <1>6, <3>1, <4>1 DEF successor
    <3>2. CASE ~(n < Len(slice))
      <4>1. n = Len(slice) /\ slice # <<>> /\ slice[Len(slice)].call # 0
        BY <1>2, <1>4, <1>6, <3>2
      <4>2. exit_pc = slice[Len(slice)].pc + 4
        BY <4>1 DEF ReplayInv, ExitInv, follows
      <4>3. QED
        BY <1>6, <3>2, <4>1, <4>2 DEF successor
    <3>3. QED
      BY <3>1, <3>2
  <2>3. Len(log') <= Len(slice') /\ pc' = successor(Len(log))'
    BY <1>3, <1>4, <1>6, <1>8, <2>1, <2>2 DEF successor
  <2>4. ASSUME NEW j \in 1..Len(slice'), slice'[j].call # 0
        PROVE  j <= Len(log') <=> slice'[j].call <= nowcallnum'
    <3>1. j \in 1..Len(slice) /\ slice[j].call # 0 /\ slice'[j].call = slice[j].call
      BY <1>3, <2>4
    <3>2. j <= Len(log) <=> slice[j].call <= nowcallnum
      BY <1>1, <3>1 DEF RunInv
    <3>3. j < n => slice[j].call < k
      BY <1>6, <1>7, <3>1
    <3>4. n < j => k < slice[j].call
      BY <1>6, <1>7, <3>1
    <3>5. slice[j].call \in Nat
      BY <1>4, <3>1
    <3>6. j <= n <=> slice[j].call <= k
      <4>1. CASE j = n
        BY <1>4, <1>6, <4>1
      <4>2. CASE j < n
        BY <1>4, <3>1, <3>3, <3>5, <4>2
      <4>3. CASE n < j
        BY <1>4, <3>1, <3>4, <3>5, <4>3
      <4>4. QED
        BY <1>4, <3>1, <4>1, <4>2, <4>3
    <3>7. QED
      BY <1>5, <1>8, <3>1, <3>6
  <2>5. /\ Ecalls \subseteq replaced' /\ replaced' \subseteq Ecalls \cup {exit_pc}
        /\ exit_pc \in replaced' => k = Len(calls)
        /\ k = Len(calls) => exit_pc \in replaced'
    <3>1. nowcallnum # Len(calls)
      BY <1>4
    <3>2. exit_pc \notin replaced
      BY <1>1, <3>1 DEF RunInv
    <3>3. QED
      BY <1>1, <1>5, <3>2 DEF RunInv
  <2>6. QED
    BY <1>3, <1>5, <2>3, <2>4, <2>5 DEF RunInv
<1>14. QED
  BY <1>3, <1>10, <1>11, <1>12, <1>13 DEF ReplayInv

(* takeoverSyscall: serve the next call, or end at the exit instruction. *)
LEMMA TakeoverKeeps ==
  ASSUME ReplayInv, takeoverSyscall
  PROVE  ReplayInv'
<1>1. status = "run" /\ pc \in replaced /\ UNCHANGED <<vars, slice, exit_pc>>
  BY DEF takeoverSyscall
<1>2. phase = "done" /\ RunInv
  BY <1>1 DEF ReplayInv, OffInv
<1>3. totalcallnum = Len(calls) /\ Len(calls) \in Nat /\ nowcallnum \in 0..Len(calls)
  BY <1>2, ClosedFacts
<1>4. CASE nowcallnum >= Len(calls)
  <2>1. end("over")
    BY <1>3, <1>4 DEF takeoverSyscall
  <2>2. pc = exit_pc /\ Len(log) = Len(slice)
    BY <1>1, <1>2, <1>4, AtExit
  <2>3. QED
    BY <1>1, <1>2, <2>1, <2>2, EndKeeps
<1>5. CASE ~(nowcallnum >= Len(calls))
  <2>1. nowcallnum < Len(calls)
    BY <1>3, <1>5
  <2>2. rightNum
    BY <1>1, <1>2, <2>1, NextCall
  <2>3. serve(lookup(nowcallnum + 1))
    BY <1>3, <1>5, <2>2, Zenon DEF takeoverSyscall
  <2>4. QED
    BY <1>1, <1>2, <2>1, <2>3, ServeKeeps
<1>6. QED
  BY <1>4, <1>5

-----------------------------------------------------------------------------
(* The inductive invariant holds before the first event ... *)
LEMMA ReplayStart ==
  ASSUME SliceInit
  PROVE  ReplayInv
<1>1. SectionInv
  BY SectionInit DEF SliceInit
<1>2. /\ phase = "record" /\ calls = <<>> /\ slice = <<>> /\ exit_pc = NoPc /\ status = "off"
      /\ pc = NoPc /\ replaced = {} /\ nowcallnum = 0 /\ log = <<>>
      /\ jal = [m \in {Midpoint[a] : a \in DOMAIN Midpoint} |-> NoPc]
  BY DEF SliceInit, Init
<1>3. EventInv
  BY <1>2 DEF EventInv
<1>4. ExitInv /\ OffInv
  BY <1>2 DEF ExitInv, OffInv
<1>5. LoaderType
  <2>1. \E S : log \in Seq(S)
    BY <1>2
  <2>2. QED
    BY <1>2, <2>1 DEF LoaderType, NoPc
<1>6. QED
  BY <1>1, <1>2, <1>3, <1>4, <1>5 DEF ReplayInv, ReplayEndsAtExit

(* ... and after every step. *)
LEMMA ReplayStep ==
  ASSUME ReplayInv, [SliceNext]_allvars
  PROVE  ReplayInv'
<1>1. CASE \/ \E a \in Insts : RecordInst(a)
           \/ \E c \in Calls : RecordSyscall(c)
  BY <1>1, RecordKeeps
<1>2. ASSUME NEW a \in Insts, CloseSlice(a) PROVE ReplayInv'
  BY <1>2, CloseKeeps
<1>3. CASE SaveSlice
  BY <1>3, SaveKeeps
<1>4. CASE read_ckptinfo
  BY <1>4, StartKeeps
<1>5. CASE RunInst
  BY <1>5, RunKeeps
<1>6. CASE takeoverSyscall
  BY <1>6, TakeoverKeeps
<1>7. CASE UNCHANGED allvars
  <2>1. /\ UNCHANGED <<phase, calls, slice, exit_pc, status, pc, replaced, nowcallnum,
                       tempMemory, jal, log>>
        /\ UNCHANGED vars
    BY <1>7 DEF allvars, vars, loader
  <2>2. SectionInv'
    BY <2>1, SectionStep DEF ReplayInv
  <2>3. EventInv' /\ sinceLastCall' = sinceLastCall
    BY <2>1, SliceKept DEF ReplayInv
  <2>4. follows(exit_pc) => follows(exit_pc)'
    BY <2>1 DEF follows
  <2>5. ExitInv'
    BY <2>1, <2>3, <2>4 DEF ReplayInv, ExitInv, NoPc
  <2>6. OffInv' /\ LoaderType'
    BY <2>1 DEF ReplayInv, OffInv, LoaderType, NoPc
  <2>7. RunInv => RunInv'
    BY <2>1 DEF RunInv, Ecalls, successor
  <2>8. ReplayEndsAtExit => ReplayEndsAtExit'
    BY <2>1 DEF ReplayEndsAtExit
  <2>9. QED
    BY <2>1, <2>2, <2>3, <2>5, <2>6, <2>7, <2>8 DEF ReplayInv
<1>8. QED
  BY <1>1, <1>2, <1>3, <1>4, <1>5, <1>6, <1>7 DEF SliceNext, Loader

(* While the replay runs it follows the recorded slice, whatever the slice *)
(* and however its calls share entries and trampolines.                    *)
THEOREM ReplayCorrect == SliceSpec => []ReplayInv
<1>1. SliceInit => ReplayInv
  BY ReplayStart
<1>2. ReplayInv /\ [SliceNext]_allvars => ReplayInv'
  BY ReplayStep
<1>3. QED
  BY <1>1, <1>2, PTL DEF SliceSpec

(* Type correctness: the loader overwrites nothing but ecalls and the exit *)
(* instruction.                                                            *)
THEOREM SliceTypeCorrect == SliceSpec => []SliceTypeOK
<1>1. ASSUME ReplayInv PROVE SliceTypeOK
  <2>1. TypeOK
    BY <1>1 DEF ReplayInv, SectionInv, TableInv, RecordInv
  <2>2. slice \in Seq([pc : Nat, call : Nat])
    <3>1. [pc : Pcs, call : Nat] \subseteq [pc : Nat, call : Nat]
      BY PcFacts
    <3>2. \A A, B : A \subseteq B => Seq(A) \subseteq Seq(B)
      OBVIOUS
    <3>3. slice \in Seq([pc : Pcs, call : Nat])
      BY <1>1 DEF ReplayInv, EventInv
    <3>4. QED
      BY <3>1, <3>2, <3>3, Zenon
  <2>3. exit_pc \in Insts \cup {NoPc}
    BY <1>1 DEF ReplayInv, ExitInv
  <2>4. QED
    BY <1>1, <2>1, <2>2, <2>3 DEF ReplayInv, LoaderType, SliceTypeOK
<1>2. QED
  BY <1>1, ReplayCorrect, PTL

(* The replay of every slice ends at the exit instruction, after every     *)
(* event of the slice and without meeting a call that it does not          *)
(* recognise.                                                              *)
THEOREM ReplayExits == SliceSpec => []ReplayEndsAtExit
<1>1. ReplayInv => ReplayEndsAtExit
  BY DEF ReplayInv
<1>2. QED
  BY <1>1, ReplayCorrect, PTL

-----------------------------------------------------------------------------
(* Recording, saving and replaying a slice takes the steps of SliceReplay. *)

(* The recorded events are a sequence as long as the slice. *)
LEMMA RecordedSeq ==
  ASSUME EventInv
  PROVE  /\ Len(slice) \in Nat /\ DOMAIN slice = 1..Len(slice)
         /\ DOMAIN recorded = 1..Len(slice) /\ Len(recorded) = Len(slice)
         /\ \A n \in 1..Len(slice) :
              recorded[n] = IF slice[n].call = 0 THEN [pc |-> slice[n].pc]
                            ELSE [pc |-> slice[n].pc, a0 |-> a0After(calls[slice[n].call]),
                                  mem |-> {memWritten(calls[slice[n].call])}]
<1>1. slice \in Seq([pc : Pcs, call : Nat])
  BY DEF EventInv
<1>2. Len(slice) \in Nat /\ DOMAIN slice = 1..Len(slice)
  BY <1>1
<1>3. DOMAIN recorded = 1..Len(slice)
  BY <1>2, Zenon DEF recorded
<1>4. Len(recorded) = Len(slice)
  BY <1>2, <1>3
<1>5. QED
  BY <1>2, <1>3, <1>4, Zenon DEF recorded

(* One more event is recorded behind those before. *)
LEMMA RecordImplements ==
  ASSUME ReplayInv, \/ \E a \in Insts : RecordInst(a)
                    \/ \E c \in Calls : RecordSyscall(c)
  PROVE  Abstract!Record
<1>1. phase = "record" /\ UNCHANGED loader
  BY DEF RecordInst, RecordSyscall, RecordCall
<1>2. status = "off" /\ status' = "off" /\ log' = log
  BY <1>1 DEF ReplayInv, OffInv, loader
<1>3. EventInv /\ EventInv'
  BY RecordKeeps DEF ReplayInv
<1>4. calls \in Seq(Calls) /\ slice \in Seq([pc : Pcs, call : Nat])
  BY DEF ReplayInv, SectionInv, TableInv, RecordInv, TypeOK, EventInv
<1>5. /\ Len(slice') = Len(slice) + 1 /\ Len(slice) \in Nat
      /\ \A n \in 1..Len(slice) : slice'[n] = slice[n]
      /\ \A j \in 1..Len(calls) : calls'[j] = calls[j]
  <2>1. CASE \E a \in Insts : RecordInst(a)
    <3>1. PICK a \in Insts : RecordInst(a)
      BY <2>1
    <3>2. slice' = Append(slice, [pc |-> a, call |-> 0]) /\ calls' = calls
      BY <3>1 DEF RecordInst, vars
    <3>3. [pc |-> a, call |-> 0] \in [pc : Pcs, call : Nat]
      BY PcFacts
    <3>4. QED
      BY <1>4, <3>2, <3>3, AppendProperties
  <2>2. CASE \E c \in Calls : RecordSyscall(c)
    <3>1. PICK c \in Calls : RecordSyscall(c)
      BY <2>2
    <3>2. slice' = Append(slice, [pc |-> c.pc, call |-> Len(calls) + 1])
          /\ calls' = Append(calls, c)
      BY <3>1 DEF RecordSyscall, RecordCall
    <3>3. [pc |-> c.pc, call |-> Len(calls) + 1] \in [pc : Pcs, call : Nat]
      BY <1>4, PcFacts
    <3>4. \A j \in 1..Len(calls) : calls'[j] = calls[j]
      BY <1>4, <3>2, AppendProperties
    <3>5. QED
      BY <1>4, <3>2, <3>3, <3>4, AppendProperties
  <2>3. QED
    BY <2>1, <2>2
<1>6. /\ Len(recorded) = Len(slice) /\ DOMAIN recorded = 1..Len(slice)
      /\ \A n \in 1..Len(slice) :
           recorded[n] = IF slice[n].call = 0 THEN [pc |-> slice[n].pc]
                         ELSE [pc |-> slice[n].pc, a0 |-> a0After(calls[slice[n].call]),
                               mem |-> {memWritten(calls[slice[n].call])}]
  BY <1>3, RecordedSeq
<1>7. /\ Len(recorded)' = Len(slice') /\ (DOMAIN recorded)' = 1..Len(slice')
      /\ \A n \in 1..Len(slice') :
           recorded'[n] = IF slice'[n].call = 0 THEN [pc |-> slice'[n].pc]
                          ELSE [pc |-> slice'[n].pc, a0 |-> a0After(calls'[slice'[n].call]),
                                mem |-> {memWritten(calls'[slice'[n].call])}]
  <2>1. slice' \in Seq([pc : Pcs, call : Nat])
    BY <1>3 DEF EventInv, Pcs
  <2>2. Len(slice') \in Nat /\ DOMAIN slice' = 1..Len(slice')
    BY <2>1
  <2>3. (DOMAIN recorded)' = 1..Len(slice')
    BY <2>2, Zenon DEF recorded
  <2>4. Len(recorded)' = Len(slice')
    BY <2>2, <2>3
  <2>5. QED
    BY <2>2, <2>3, <2>4, Zenon DEF recorded, a0After, memWritten, NoWrite
<1>8. ASSUME NEW n \in 1..Len(slice) PROVE recorded'[n] = recorded[n]
  <2>1. slice'[n] = slice[n] /\ n \in 1..Len(slice')
    BY <1>5
  <2>2. slice[n].call # 0 => calls'[slice[n].call] = calls[slice[n].call]
    BY <1>3, <1>5 DEF EventInv
  <2>3. QED
    BY <1>6, <1>7, <2>1, <2>2
<1>9. recorded = SubSeq(recorded', 1, Len(recorded))
  <2>1. SubSeq(recorded', 1, Len(recorded)) = [n \in 1..Len(slice) |-> recorded'[n]]
    BY <1>5, <1>6
  <2>2. recorded = [n \in 1..Len(slice) |-> recorded[n]]
    BY <1>6, Zenon DEF recorded
  <2>3. QED
    BY <1>8, <2>1, <2>2
<1>10. QED
  BY <1>2, <1>5, <1>6, <1>7, <1>9 DEF Abstract!Record

(* The recorded events stay as they are when the slice does. *)
LEMMA RecordedKept ==
  ASSUME UNCHANGED <<slice, calls>>
  PROVE  recorded' = recorded
  BY DEF recorded, a0After, memWritten, NoWrite

(* The program's own instruction is the next recorded event. *)
LEMMA RunImplements ==
  ASSUME ReplayInv, RunInst
  PROVE  Abstract!Replay
<1>1. status = "run" /\ pc \notin replaced /\ UNCHANGED <<vars, slice, exit_pc>>
  BY DEF RunInst
<1>2. phase = "done" /\ RunInv /\ EventInv
  BY <1>1 DEF ReplayInv, OffInv
<1>3. Len(log) < Len(slice) /\ inSlice /\ event.call = 0
  BY <1>1, <1>2, NextInst
<1>4. log' = Append(log, [pc |-> pc]) /\ UNCHANGED status
  BY <1>3 DEF RunInst
<1>5. Len(log) + 1 \in 1..Len(slice) /\ Len(recorded) = Len(slice)
  BY <1>2, <1>3, ClosedFacts, RecordedSeq
<1>6. recorded[Len(log) + 1] = [pc |-> pc]
  BY <1>2, <1>3, <1>5, RecordedSeq DEF event, inSlice
<1>7. recorded' = recorded
  BY <1>1, RecordedKept DEF vars
<1>8. QED
  BY <1>1, <1>3, <1>4, <1>5, <1>6, <1>7 DEF Abstract!Replay

(* takeoverSyscall does to a0 and to memory what the recorded call did, or *)
(* ends the replay after the last event.                                   *)
LEMMA TakeoverImplements ==
  ASSUME ReplayInv, NoRetry, takeoverSyscall
  PROVE  Abstract!Replay \/ Abstract!Finish
<1>1. status = "run" /\ pc \in replaced /\ UNCHANGED <<vars, slice, exit_pc>>
  BY DEF takeoverSyscall
<1>2. phase = "done" /\ RunInv /\ EventInv /\ SectionInv
  BY <1>1 DEF ReplayInv, OffInv
<1>3. /\ totalcallnum = Len(calls) /\ Len(calls) \in Nat /\ nowcallnum \in 0..Len(calls)
      /\ Len(log) \in Nat /\ exit_pc \in Insts /\ calls \in Seq(Calls)
  BY <1>2, ClosedFacts
<1>4. Len(recorded) = Len(slice) /\ recorded' = recorded
  BY <1>1, <1>2, RecordedSeq, RecordedKept DEF vars
<1>5. CASE nowcallnum >= Len(calls)
  <2>1. end("over")
    BY <1>3, <1>5 DEF takeoverSyscall
  <2>2. status' = "over" /\ log' = log
    BY <2>1 DEF end
  <2>3. Len(log) = Len(slice)
    BY <1>1, <1>2, <1>5, AtExit
  <2>4. Abstract!Finish
    BY <1>1, <1>4, <2>2, <2>3 DEF Abstract!Finish
  <2>5. QED
    BY <2>4
<1>6. CASE ~(nowcallnum >= Len(calls))
  <2> DEFINE k == nowcallnum + 1
             n == Len(log) + 1
             e == lookup(k)
  <2>1. nowcallnum < Len(calls)
    BY <1>3, <1>6
  <2>2. /\ rightNum /\ Len(log) < Len(slice) /\ event.pc = pc /\ event.call = k
        /\ k \in 1..Len(calls)
    BY <1>1, <1>2, <2>1, NextCall
  <2>3. serve(e)
    BY <1>3, <1>6, <2>2, Zenon DEF takeoverSyscall
  <2>4. log' = Append(log, [pc |-> pc, a0 |-> a0(e), mem |-> memWrite(e)])
    BY <2>3 DEF serve
  <2>5. status' = "run"
    BY <1>1, <2>3 DEF serve
  <2>6. a0(e) = a0After(calls[k]) /\ memWrite(e) = {memWritten(calls[k])}
    <3>1. k \in DOMAIN calls /\ calls[k].return # "retry"
      BY <1>3, <2>2 DEF NoRetry
    <3>2. QED
      BY <1>2, <3>1, RoundTripCall
  <2> HIDE DEF e
  <2>7. recorded[n] = [pc |-> pc, a0 |-> a0(e), mem |-> memWrite(e)]
    <3>1. n \in 1..Len(slice)
      BY <1>2, <1>3, <2>2, RecordedSeq
    <3>2. slice[n].pc = pc /\ slice[n].call = k /\ k # 0
      BY <1>3, <2>2 DEF event
    <3>3. recorded[n] = [pc |-> pc, a0 |-> a0After(calls[k]), mem |-> {memWritten(calls[k])}]
      BY <1>2, <3>1, <3>2, RecordedSeq
    <3>4. QED
      BY <2>6, <3>3
  <2>8. Abstract!Replay
    BY <1>1, <1>4, <2>2, <2>4, <2>5, <2>7 DEF Abstract!Replay
  <2>9. QED
    BY <2>8
<1>7. QED
  BY <1>5, <1>6

(* Recording, saving and replaying a slice takes the steps of SliceReplay  *)
(* and no others: the safety part of ImplementsSliceReplay, for every      *)
(* program without retried calls and every slice.                          *)
THEOREM ReplayImplements ==
  NoRetry /\ SliceSpec =>
    Abstract!Init /\ [][Abstract!Next]_(Abstract!vars)
<1> SUFFICES ASSUME NoRetry
             PROVE  SliceSpec => Abstract!Init /\ [][Abstract!Next]_(Abstract!vars)
  OBVIOUS
<1>1. SliceInit => Abstract!Init
  <2> SUFFICES ASSUME SliceInit PROVE Abstract!Init
    OBVIOUS
  <2>1. slice = <<>> /\ status = "off" /\ log = <<>>
    BY DEF SliceInit
  <2>2. EventInv
    BY ReplayStart DEF ReplayInv
  <2>3. DOMAIN recorded = 1..0
    BY <2>1, <2>2, RecordedSeq
  <2>4. recorded = <<>>
    BY <2>1, <2>3 DEF recorded
  <2>5. QED
    BY <2>1, <2>4 DEF Abstract!Init
<1>2. ASSUME ReplayInv, [SliceNext]_allvars
      PROVE  [Abstract!Next]_(Abstract!vars)
  <2>1. CASE \/ \E a \in Insts : RecordInst(a)
             \/ \E c \in Calls : RecordSyscall(c)
    BY <1>2, <2>1, RecordImplements DEF Abstract!Next
  <2>2. ASSUME UNCHANGED <<slice, calls, status, log>>
        PROVE  UNCHANGED Abstract!vars
    BY <2>2, RecordedKept DEF Abstract!vars
  <2>3. ASSUME NEW a \in Insts, CloseSlice(a) PROVE UNCHANGED Abstract!vars
    BY <2>2, <2>3 DEF CloseSlice, StartSave, recording, loader
  <2>4. CASE SaveSlice
    <3>1. UNCHANGED <<slice, calls, status, log>>
      BY <2>4 DEF SaveSlice, saveSysInfo, Scan, WriteIndexes, WriteInfo, StartInfo1, WriteInfo1,
                  StartData, WriteData, EndSave, recording, loader
    <3>2. QED
      BY <2>2, <3>1
  <2>5. CASE read_ckptinfo
    <3>1. status = "off" /\ status' = "run" /\ log' = log /\ UNCHANGED <<slice, calls>>
      BY <2>5 DEF read_ckptinfo, vars
    <3>2. Abstract!Start
      BY <3>1, RecordedKept DEF Abstract!Start
    <3>3. QED
      BY <3>2 DEF Abstract!Next
  <2>6. CASE RunInst
    BY <1>2, <2>6, RunImplements DEF Abstract!Next
  <2>7. CASE takeoverSyscall
    BY <1>2, <2>7, TakeoverImplements DEF Abstract!Next
  <2>8. CASE UNCHANGED allvars
    BY <2>2, <2>8 DEF allvars, vars, loader
  <2>9. QED
    BY <1>2, <2>1, <2>3, <2>4, <2>5, <2>6, <2>7, <2>8 DEF SliceNext, Loader
<1>3. QED
  BY <1>1, <1>2, ReplayCorrect, PTL DEF SliceSpec

=============================================================================
