-------------------------- MODULE FirstLoadsProofs --------------------------
(***************************************************************************)
(* The first loads are complete for every memory, every set of accesses    *)
(* and every length of the slice, as long as no access crosses a cache     *)
(* line or a block, no untouched page is filled from a file and no         *)
(* store-conditional fails on bytes the slice never accessed.              *)
(***************************************************************************)
EXTENDS FirstLoads, TLAPS

(* No access crosses a line or a block. *)
NoCrossing == \A x \in Accesses : frag(x) = 0 /\ len2(x) = 0

Tame == NoCrossing /\ FileBacked = {} /\ ~ScUnpaired

(* An access inside a block flags exactly its bytes, asks about all of     *)
(* them, and a load inside a line records the bytes it read.               *)
LEMMA Inside ==
  ASSUME NEW x \in Accesses, NoCrossing, TypeOK
  PROVE  /\ Bytes(x) \subseteq Addr
         /\ flagged(x) = Bytes(x)
         /\ \A F \in firsts(x) : F = Bytes(x) \ preAccess
         /\ \A d \in loadData(x) : \A b \in Bytes(x) : d[b] = mem[b]
<1>1. x.addr \in Int /\ x.size \in Int /\ Bytes(x) \subseteq Addr
  <2>1. x \in [op : Ops, addr : Addr, size : Nat \ {0}] /\ Bytes(x) \subseteq Addr
    BY MemAssumption
  <2>2. x.addr \in Addr /\ x.size \in Nat
    BY <2>1
  <2>3. \A a \in Addr : a \in Int
    BY MemAssumption
  <2>4. QED
    BY <2>1, <2>2, <2>3
<1>2. frag(x) = 0 /\ len2(x) = 0 /\ len1(x) = x.size
  BY <1>1 DEF NoCrossing, len1
<1>3. flagged(x) = Bytes(x)
  <2>1. addr1(x) \in Int
    BY <1>1, MemAssumption DEF addr1, base
  <2>2. addr1(x) .. (addr1(x) + 0 - 1) = {}
    BY <2>1
  <2>3. QED
    BY <1>2, <2>2 DEF flagged, Bytes
<1>4. \A F \in firsts(x) : F = Bytes(x) \ preAccess
  BY <1>2 DEF firsts, unassigned
<1>5. \A d \in loadData(x) : \A b \in Bytes(x) : d[b] = mem[b]
  <2>1. \A b \in Bytes(x) : b + frag(x) = b
    BY <1>1, <1>2 DEF Bytes
  <2>2. QED
    BY <2>1 DEF loadData
<1>6. QED
  BY <1>1, <1>3, <1>4, <1>5

(***************************************************************************)
(* The inductive invariant.  A flagged byte was read first or written, and *)
(* a byte read first is flagged and recorded once, with its initial value. *)
(* Bytes written by system calls only are not flagged: they may be         *)
(* recorded later with another value, which is harmless because they are   *)
(* not in needed.                                                          *)
(***************************************************************************)
SliceInv ==
  /\ needed \subseteq preAccess
  /\ preAccess \subseteq needed \cup written
  /\ \A a \in Addr \ written : mem[a] = mem0[a]
  /\ \A l \in loads : l[1] \in preAccess /\ (l[1] \in needed => l[2] = mem0[l[1]])
  /\ \A a \in needed : <<a, mem0[a]>> \in loads
  /\ \A a \in Addr : Page(a) \in absent => mem[a] = 0
  /\ FirstLoadsUnique

Inv == TypeOK /\ SliceInv

(* write(x) and touch(x) leave the bytes outside x alone. *)
LEMMA WriteFacts ==
  ASSUME TypeOK, NEW x \in Accesses, write(x)
  PROVE  /\ mem' \in [Addr -> Val]
         /\ written' = written \cup Bytes(x)
         /\ \A a \in Addr \ Bytes(x) : mem'[a] = mem[a]
<1>1. PICK d \in [Bytes(x) -> Val] :
        mem' = [a \in Addr |-> IF a \in Bytes(x) THEN d[a] ELSE mem[a]]
  BY DEF write
<1>2. QED
  BY <1>1 DEF write, TypeOK

(* A page that is still absent after touch(x) holds none of x's bytes. *)
LEMMA TouchFacts ==
  ASSUME NEW x \in Accesses, touch(x), absent \subseteq Nat
  PROVE  /\ absent' \subseteq absent
         /\ \A a \in Bytes(x) : Page(a) \notin absent'
  BY DEF touch

(* Recording a load or atomic whose data are the bytes in memory, and      *)
(* counting its bytes as read, keeps the part of the invariant about the   *)
(* records.                                                                *)
LEMMA RecordStep ==
  ASSUME Inv, NoCrossing, NEW x \in Accesses, NEW d, addload(x, d), read(x),
         \A b \in Bytes(x) : d[b] = mem[b], mem0' = mem0
  PROVE  /\ preAccess' = preAccess \cup Bytes(x)
         /\ needed' = needed \cup (Bytes(x) \ written)
         /\ loads' \subseteq Addr \X Val
         /\ needed' \subseteq preAccess'
         /\ \A l \in loads' : l[1] \in preAccess' /\ (l[1] \in needed' => l[2] = mem0[l[1]])
         /\ \A a \in needed' : <<a, mem0[a]>> \in loads'
         /\ FirstLoadsUnique'
<1>0. TypeOK /\ SliceInv
  BY DEF Inv
<1>1. /\ Bytes(x) \subseteq Addr
      /\ flagged(x) = Bytes(x)
      /\ \A F \in firsts(x) : F = Bytes(x) \ preAccess
  BY <1>0, Inside
<1>2. preAccess' = preAccess \cup Bytes(x)
  BY <1>1 DEF addload
<1>3. needed' = needed \cup (Bytes(x) \ written)
  BY DEF read
<1>4. loads' = loads \cup {<<b, mem[b]>> : b \in Bytes(x) \ preAccess}
  <2>1. PICK F \in firsts(x) : loads' = loads \cup {<<b, d[b]>> : b \in F}
    BY DEF addload
  <2>2. F = Bytes(x) \ preAccess
    BY <1>1
  <2>3. {<<b, d[b]>> : b \in Bytes(x) \ preAccess}
          = {<<b, mem[b]>> : b \in Bytes(x) \ preAccess}
    OBVIOUS
  <2>4. QED
    BY <2>1, <2>2, <2>3
<1>5. loads' \subseteq Addr \X Val
  BY <1>0, <1>1, <1>4 DEF TypeOK
<1>6. needed' \subseteq preAccess'
  BY <1>0, <1>2, <1>3 DEF SliceInv
<1>7. ASSUME NEW l \in loads'
      PROVE  l[1] \in preAccess' /\ (l[1] \in needed' => l[2] = mem0[l[1]])
  <2>1. CASE l \in loads
    <3>1. l[1] \in preAccess /\ (l[1] \in needed => l[2] = mem0[l[1]])
      BY <1>0, <2>1 DEF SliceInv
    <3>2. l[1] \in needed' => l[1] \in needed
      BY <1>0, <1>3, <3>1 DEF SliceInv
    <3>3. QED
      BY <1>2, <3>1, <3>2
  <2>2. CASE l \notin loads
    <3>1. PICK b \in Bytes(x) \ preAccess : l = <<b, mem[b]>>
      BY <1>4, <2>2
    <3>2. b \in needed' => b \notin written
      BY <1>0, <1>3, <3>1 DEF SliceInv
    <3>3. b \notin written => mem[b] = mem0[b]
      BY <1>0, <1>1, <3>1 DEF SliceInv
    <3>4. l[1] = b /\ l[2] = mem[b]
      BY <3>1
    <3>5. QED
      BY <1>2, <3>1, <3>2, <3>3, <3>4
  <2>3. QED
    BY <2>1, <2>2
<1>8. ASSUME NEW a \in needed' PROVE <<a, mem0[a]>> \in loads'
  <2>1. CASE a \in needed
    BY <1>0, <1>4, <2>1 DEF SliceInv
  <2>2. CASE a \notin needed
    <3>1. a \in Bytes(x) /\ a \notin written /\ a \notin preAccess
      BY <1>0, <1>3, <2>2 DEF SliceInv
    <3>2. mem[a] = mem0[a]
      BY <1>0, <1>1, <3>1 DEF SliceInv
    <3>3. QED
      BY <1>4, <3>1, <3>2
  <2>3. QED
    BY <2>1, <2>2
<1>9. ASSUME NEW l \in loads', NEW k \in loads', l[1] = k[1] PROVE l = k
  <2>1. \A m \in loads : m[1] \in preAccess
    BY <1>0 DEF SliceInv
  <2>2. \A m \in loads' \ loads : m[1] \notin preAccess /\ m = <<m[1], mem[m[1]]>>
    BY <1>4
  <2>3. CASE l \in loads /\ k \in loads
    BY <1>0, <1>9, <2>3 DEF SliceInv, FirstLoadsUnique
  <2>4. CASE ~(l \in loads /\ k \in loads)
    BY <1>9, <2>1, <2>2, <2>4
  <2>5. QED
    BY <2>3, <2>4
<1>10. QED
  BY <1>2, <1>3, <1>5, <1>6, <1>7, <1>8, <1>9 DEF FirstLoadsUnique

(* A load keeps the invariant. *)
LEMMA ReadMemStep ==
  ASSUME Inv, NoCrossing, NEW x \in Accesses, readMem(x), resv' \in Int
  PROVE  Inv'
<1>0. TypeOK /\ SliceInv /\ Bytes(x) \subseteq Addr
  BY Inside DEF Inv
<1>1. PICK d \in loadData(x) : addload(x, d)
  BY DEF readMem
<1>2. \A b \in Bytes(x) : d[b] = mem[b]
  BY <1>0, Inside
<1>3. read(x) /\ touch(x) /\ mem' = mem /\ mem0' = mem0 /\ written' = written
  BY DEF readMem
<1>4. /\ preAccess' = preAccess \cup Bytes(x)
      /\ needed' = needed \cup (Bytes(x) \ written)
      /\ loads' \subseteq Addr \X Val
      /\ needed' \subseteq preAccess'
      /\ \A l \in loads' : l[1] \in preAccess' /\ (l[1] \in needed' => l[2] = mem0[l[1]])
      /\ \A a \in needed' : <<a, mem0[a]>> \in loads'
      /\ FirstLoadsUnique'
  BY <1>1, <1>2, <1>3, RecordStep
<1>5. absent' \subseteq absent
  BY <1>0, <1>3, TouchFacts DEF TypeOK
<1>6. TypeOK'
  <2>1. Bytes(x) \subseteq Int
    BY DEF Bytes
  <2>2. QED
    BY <1>0, <1>3, <1>4, <1>5, <2>1 DEF TypeOK
<1>7. preAccess' \subseteq needed' \cup written'
  BY <1>0, <1>3, <1>4 DEF SliceInv
<1>8. \A a \in Addr \ written' : mem'[a] = mem0'[a]
  BY <1>0, <1>3 DEF SliceInv
<1>9. \A a \in Addr : Page(a) \in absent' => mem'[a] = 0
  BY <1>0, <1>3, <1>5 DEF SliceInv
<1>10. SliceInv'
  BY <1>3, <1>4, <1>7, <1>8, <1>9 DEF SliceInv, Page
<1>11. QED
  BY <1>6, <1>10 DEF Inv

(* Writing memory, with or without flagging the written bytes, keeps the   *)
(* invariant.                                                              *)
LEMMA WriteStep ==
  ASSUME Inv, NoCrossing, NEW x \in Accesses, write(x), touch(x),
         preAccess' \in {preAccess, preAccess \cup Bytes(x)},
         UNCHANGED <<loads, resv, mem0, needed>>
  PROVE  Inv'
<1>0. TypeOK /\ SliceInv /\ Bytes(x) \subseteq Addr
  BY Inside DEF Inv
<1>1. /\ mem' \in [Addr -> Val]
      /\ written' = written \cup Bytes(x)
      /\ \A a \in Addr \ Bytes(x) : mem'[a] = mem[a]
  BY <1>0, WriteFacts
<1>2. absent' \subseteq absent /\ \A a \in Bytes(x) : Page(a) \notin absent'
  BY <1>0, TouchFacts DEF TypeOK
<1>3. TypeOK'
  <2>1. Bytes(x) \subseteq Int
    BY DEF Bytes
  <2>2. QED
    BY <1>0, <1>1, <1>2, <2>1 DEF TypeOK
<1>4. needed' \subseteq preAccess' /\ preAccess' \subseteq needed' \cup written'
  BY <1>0, <1>1 DEF SliceInv
<1>5. \A a \in Addr \ written' : mem'[a] = mem0'[a]
  BY <1>0, <1>1 DEF SliceInv
<1>6. /\ \A l \in loads' : l[1] \in preAccess' /\ (l[1] \in needed' => l[2] = mem0'[l[1]])
      /\ \A a \in needed' : <<a, mem0'[a]>> \in loads'
      /\ FirstLoadsUnique'
  BY <1>0 DEF SliceInv, FirstLoadsUnique
<1>7. \A a \in Addr : Page(a) \in absent' => mem'[a] = 0
  BY <1>0, <1>1, <1>2 DEF SliceInv
<1>8. SliceInv'
  BY <1>4, <1>5, <1>6, <1>7 DEF SliceInv, Page
<1>9. QED
  BY <1>3, <1>8 DEF Inv

(* An atomic records the old bytes and writes: on an absent page the zeros *)
(* it records are what the page will hold.                                 *)
LEMMA AmoStep ==
  ASSUME Inv, NoCrossing, NEW x \in Accesses, Amo(x)
  PROVE  Inv'
<1>0. TypeOK /\ SliceInv /\ Bytes(x) \subseteq Addr
  BY Inside DEF Inv
<1>1. addload(x, amoData(x)) /\ read(x) /\ write(x) /\ touch(x)
      /\ mem0' = mem0 /\ resv' = resv
  BY DEF Amo
<1>2. \A b \in Bytes(x) : amoData(x)[b] = mem[b]
  BY <1>0 DEF amoData, SliceInv
<1>3. /\ preAccess' = preAccess \cup Bytes(x)
      /\ needed' = needed \cup (Bytes(x) \ written)
      /\ loads' \subseteq Addr \X Val
      /\ needed' \subseteq preAccess'
      /\ \A l \in loads' : l[1] \in preAccess' /\ (l[1] \in needed' => l[2] = mem0[l[1]])
      /\ \A a \in needed' : <<a, mem0[a]>> \in loads'
      /\ FirstLoadsUnique'
  BY <1>1, <1>2, RecordStep
<1>4. /\ mem' \in [Addr -> Val]
      /\ written' = written \cup Bytes(x)
      /\ \A a \in Addr \ Bytes(x) : mem'[a] = mem[a]
  BY <1>0, <1>1, WriteFacts
<1>5. absent' \subseteq absent /\ \A a \in Bytes(x) : Page(a) \notin absent'
  BY <1>0, <1>1, TouchFacts DEF TypeOK
<1>6. TypeOK'
  <2>1. Bytes(x) \subseteq Int
    BY DEF Bytes
  <2>2. QED
    BY <1>0, <1>1, <1>3, <1>4, <1>5, <2>1 DEF TypeOK
<1>7. preAccess' \subseteq needed' \cup written'
  BY <1>0, <1>3, <1>4 DEF SliceInv
<1>8. \A a \in Addr \ written' : mem'[a] = mem0'[a]
  BY <1>0, <1>1, <1>4 DEF SliceInv
<1>9. \A a \in Addr : Page(a) \in absent' => mem'[a] = 0
  BY <1>0, <1>4, <1>5 DEF SliceInv
<1>10. SliceInv'
  BY <1>1, <1>3, <1>7, <1>8, <1>9 DEF SliceInv, Page
<1>11. QED
  BY <1>6, <1>10 DEF Inv

(* A store-conditional that fails flags only bytes that are flagged. *)
LEMMA FailedScStep ==
  ASSUME Inv, Tame, NEW x \in Accesses, StoreCond(x), resv # Granule(x.addr)
  PROVE  Inv'
<1>0. TypeOK /\ SliceInv /\ flagged(x) = Bytes(x)
  BY Inside DEF Inv, Tame
<1>1. Bytes(x) \subseteq preAccess /\ mem' = mem /\ written' = written
  BY DEF StoreCond, Tame
<1>2. preAccess' = preAccess
  BY <1>0, <1>1 DEF StoreCond, addstore
<1>3. UNCHANGED <<loads, resv, mem0, needed>> /\ touch(x)
  BY DEF StoreCond
<1>4. absent' \subseteq absent
  BY <1>0, <1>3, TouchFacts DEF TypeOK
<1>5. TypeOK'
  BY <1>0, <1>1, <1>2, <1>3, <1>4 DEF TypeOK
<1>6. SliceInv'
  BY <1>0, <1>1, <1>2, <1>3, <1>4 DEF SliceInv, FirstLoadsUnique, Page
<1>7. QED
  BY <1>5, <1>6 DEF Inv

-----------------------------------------------------------------------------
(* The invariant of an open slice holds along every tame execution. *)
THEOREM SliceInvariant == Tame /\ Spec => []Inv
<1>1. Tame /\ Init => Inv
  <2> SUFFICES ASSUME Tame, Init PROVE Inv
    OBVIOUS
  <2>1. absent \subseteq Nat
    <3>1. \A a \in Addr : Page(a) \in Nat
      BY MemAssumption DEF Page
    <3>2. QED
      BY <3>1 DEF Init
  <2>2. TypeOK
    BY <2>1 DEF Init, TypeOK, NoResv
  <2>3. SliceInv
    BY DEF Init, SliceInv, FirstLoadsUnique, Tame
  <2>4. QED
    BY <2>2, <2>3 DEF Inv
<1>2. Tame /\ Inv /\ [Next]_vars => Inv'
  <2> SUFFICES ASSUME Tame, Inv, [Next]_vars PROVE Inv'
    OBVIOUS
  <2>0. NoCrossing /\ TypeOK
    BY DEF Tame, Inv
  <2>1. ASSUME NEW x \in Accesses, Load(x) PROVE Inv'
    <3>1. readMem(x) /\ resv' \in Int
      BY <2>0, <2>1 DEF Load, TypeOK
    <3>2. QED
      BY <2>0, <3>1, ReadMemStep
  <2>2. ASSUME NEW x \in Accesses, LoadReserved(x) PROVE Inv'
    <3>1. x.addr \in Nat
      <4>1. x \in [op : Ops, addr : Addr, size : Nat \ {0}]
        BY MemAssumption
      <4>2. \A a \in Addr : a \in Nat
        BY MemAssumption
      <4>3. QED
        BY <4>1, <4>2
    <3>2. readMem(x) /\ resv' \in Int
      BY <2>2, <3>1 DEF LoadReserved, Granule
    <3>3. QED
      BY <2>0, <3>2, ReadMemStep
  <2>3. ASSUME NEW x \in Accesses, Store(x) PROVE Inv'
    <3>1. preAccess' = preAccess \cup Bytes(x)
      BY <2>0, <2>3, Inside DEF Store, addstore
    <3>2. QED
      BY <2>0, <2>3, <3>1, WriteStep DEF Store
  <2>4. ASSUME NEW x \in Accesses, Amo(x) PROVE Inv'
    BY <2>0, <2>4, AmoStep
  <2>5. ASSUME NEW x \in Accesses, StoreCond(x) PROVE Inv'
    <3>1. preAccess' = preAccess \cup Bytes(x)
      BY <2>0, <2>5, Inside DEF StoreCond, addstore
    <3>2. CASE resv = Granule(x.addr)
      BY <2>0, <2>5, <3>1, <3>2, WriteStep DEF StoreCond
    <3>3. CASE resv # Granule(x.addr)
      BY <2>5, <3>3, FailedScStep
    <3>4. QED
      BY <3>2, <3>3
  <2>6. ASSUME NEW x \in Accesses, SyscallWrite(x) PROVE Inv'
    BY <2>0, <2>6, WriteStep DEF SyscallWrite
  <2>7. ASSUME UNCHANGED vars PROVE Inv'
    BY <2>7 DEF Inv, TypeOK, SliceInv, FirstLoadsUnique, Page, vars
  <2>8. QED
    BY <2>1, <2>2, <2>3, <2>4, <2>5, <2>6, <2>7 DEF Next
<1>3. Tame => []Tame
  <2>1. Tame => Tame'
    BY DEF Tame, NoCrossing, frag, len2, addr1, base
  <2>2. QED
    BY <2>1, PTL
<1>4. QED
  BY <1>1, <1>2, <1>3, PTL DEF Spec

(* The recorded first loads suffice to start the replay: every byte that   *)
(* the slice reads before writing it starts with its value at the start of *)
(* the slice.                                                              *)
THEOREM Complete == Tame /\ Spec => []FirstLoadsComplete
<1>1. Inv => FirstLoadsComplete
  <2> SUFFICES ASSUME SliceInv, NEW a \in needed
               PROVE  recorded(a) = {mem0[a]}
    BY DEF Inv, FirstLoadsComplete
  <2>1. \A l \in loads : l[1] = a => l[2] = mem0[a]
    BY DEF SliceInv
  <2>2. <<a, mem0[a]>> \in loads
    BY DEF SliceInv
  <2>3. mem0[a] \in recorded(a)
    <3>1. <<a, mem0[a]>> \in {k \in loads : k[1] = a}
      BY <2>2
    <3>2. <<a, mem0[a]>>[2] = mem0[a]
      OBVIOUS
    <3>3. QED
      BY <3>1, <3>2 DEF recorded
  <2>4. QED
    BY <2>1, <2>3 DEF recorded
<1>2. QED
  BY <1>1, SliceInvariant, PTL

(* No byte is recorded twice, so the order in which combine_loads sorts    *)
(* equal addresses does not matter.                                        *)
THEOREM Unique == Tame /\ Spec => []FirstLoadsUnique
<1>1. Inv => FirstLoadsUnique
  BY DEF Inv, SliceInv
<1>2. QED
  BY <1>1, SliceInvariant, PTL

=============================================================================
