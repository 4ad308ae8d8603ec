--------------------------- MODULE JmpPlanProofs ---------------------------
(***************************************************************************)
(* Proofs about the jumps that newreadckpt plans, for every checkpoint as  *)
(* the recorder writes it and every number of ranges and calls.            *)
(***************************************************************************)
EXTENDS JmpPlan, WellFoundedInduction, SequenceTheorems, TLAPS

(* The end of a range or gap. *)
endOf(g) == g.addr + g.size

(* What the recorder writes: code ranges made of whole pages, in the order *)
(* of their addresses, that span less than an int can hold (2 GiB), and    *)
(* addresses of instructions in them.                                      *)
WellFormed(x) ==
  /\ \A n \in 1..Len(x.text) : x.text[n].addr % 64 = 0 /\ x.text[n].size % 64 = 0
  /\ \A m, n \in 1..Len(x.text) : m < n => endOf(x.text[m]) <= x.text[n].addr
  /\ \A m, n \in 1..Len(x.text) : endOf(x.text[n]) - x.text[m].addr <= IntMax
  /\ \A a \in x.pcs : a % 2 = 0 /\ \E n \in 1..Len(x.text) :
                                     x.text[n].addr <= a /\ a < endOf(x.text[n])

WellFormedInputs == \A x \in Inputs : WellFormed(x)

-----------------------------------------------------------------------------
(* Quotient and remainder. *)
LEMMA Quotient ==
  ASSUME NEW u \in Nat \ {0}, NEW o \in Nat
  PROVE  /\ o \div u \in Nat /\ (o \div u) * u <= o /\ o < (o \div u) * u + u
         /\ o % u \in Nat /\ o % u < u
  OBVIOUS

(* Offsets of a jal: even numbers of 21 bits. *)
IsOffset(o) == o < 2097152 /\ o % 2 = 0

(* The fields of an offset, as createJAL cuts them. *)
HasFields(o, v1, v11, v12, v20) ==
  /\ v1 \in 0..1023 /\ v11 \in 0..1 /\ v12 \in 0..255 /\ v20 \in 0..1
  /\ bits(o, 2, 1024) = v1 /\ bits(o, 2048, 2) = v11
  /\ bits(o, 4096, 256) = v12 /\ bits(o, 1048576, 2) = v20
  /\ o = v20 * 1048576 + v12 * 4096 + v11 * 2048 + v1 * 2

(* An even offset of 21 bits is made of its fields. *)
LEMMA Fields ==
  ASSUME NEW o \in Nat, IsOffset(o)
  PROVE  \E v1, v11, v12, v20 \in Nat : HasFields(o, v1, v11, v12, v20)
<1>0. o < 2097152 /\ o % 2 = 0
  BY SMT DEF IsOffset
<1> DEFINE q1 == o \div 2
           q11 == o \div 2048
           q12 == o \div 4096
           q20 == o \div 1048576
<1>1. /\ bits(o, 2, 1024) = q1 % 1024 /\ bits(o, 2048, 2) = q11 % 2
      /\ bits(o, 4096, 256) = q12 % 256 /\ bits(o, 1048576, 2) = q20 % 2
  BY SMT DEF bits
<1>2. /\ q1 \in Nat /\ q1 * 2 <= o /\ o < q1 * 2 + 2
      /\ q11 \in Nat /\ q11 * 2048 <= o /\ o < q11 * 2048 + 2048
      /\ q12 \in Nat /\ q12 * 4096 <= o /\ o < q12 * 4096 + 4096
      /\ q20 \in Nat /\ q20 * 1048576 <= o /\ o < q20 * 1048576 + 1048576
  BY Quotient, SMT
<1> HIDE DEF q1, q11, q12, q20
<1>3. o = q1 * 2
  BY <1>0, <1>2, SMT
<1>4. /\ q1 - q11 * 1024 \in 0..1023 /\ q11 - q12 * 2 \in 0..1
      /\ q12 - q20 * 256 \in 0..255 /\ q20 \in 0..1
  BY <1>0, <1>2, SMT
<1>5. q1 % 1024 = q1 - q11 * 1024 /\ q11 % 2 = q11 - q12 * 2
  BY <1>2, <1>4, SMT
<1>6. q12 % 256 = q12 - q20 * 256 /\ q20 % 2 = q20
  BY <1>2, <1>4, SMT
<1> DEFINE v1 == q1 - q11 * 1024
           v11 == q11 - q12 * 2
           v12 == q12 - q20 * 256
<1>7. o = q20 * 1048576 + v12 * 4096 + v11 * 2048 + v1 * 2
  BY <1>2, <1>3, SMT
<1>8. v1 \in 0..1023 /\ v11 \in 0..1 /\ v12 \in 0..255
  BY <1>4, SMT
<1>9. /\ bits(o, 2, 1024) = v1 /\ bits(o, 2048, 2) = v11
      /\ bits(o, 4096, 256) = v12 /\ bits(o, 1048576, 2) = q20
  BY <1>1, <1>5, <1>6, SMT
<1> HIDE DEF v1, v11, v12
<1>10. HasFields(o, v1, v11, v12, q20)
  BY <1>4, <1>7, <1>8, <1>9, SMT DEF HasFields
<1>11. v1 \in Nat /\ v11 \in Nat /\ v12 \in Nat /\ q20 \in Nat
  BY <1>2, <1>8, SMT
<1>12. QED
  BY <1>10, <1>11, SMT

(* The processor finds the fields in the immediate bits. *)
LEMMA FieldsBack ==
  ASSUME NEW o \in Nat, NEW v1 \in Nat, NEW v11 \in Nat, NEW v12 \in Nat, NEW v20 \in Nat,
         HasFields(o, v1, v11, v12, v20)
  PROVE  offsetOf(immOf(o)) = IF o < 1048576 THEN o ELSE o - 2097152
<1> DEFINE w == immOf(o)
<1>1. /\ v1 \in 0..1023 /\ v11 \in 0..1 /\ v12 \in 0..255 /\ v20 \in 0..1
      /\ o = v20 * 1048576 + v12 * 4096 + v11 * 2048 + v1 * 2
      /\ w = v12 + v11 * 256 + v1 * 512 + v20 * 524288
  BY SMT DEF HasFields, immOf
<1> HIDE DEF w
<1>2. w \div 512 = v1 + v20 * 1024 /\ w \div 256 = v11 + v1 * 2 + v20 * 2048
  BY <1>1, SMT
<1>3. w \div 1 = w /\ w \div 524288 = v20
  BY <1>1, SMT
<1>4. (v1 + v20 * 1024) % 1024 = v1 /\ (v11 + v1 * 2 + v20 * 2048) % 2 = v11
  BY <1>1, SMT
<1>5. w % 256 = v12 /\ v20 % 2 = v20
  BY <1>1, SMT
<1>6. /\ bits(w, 512, 1024) = v1 /\ bits(w, 256, 2) = v11
      /\ bits(w, 1, 256) = v12 /\ bits(w, 524288, 2) = v20
  BY <1>2, <1>3, <1>4, <1>5, SMT DEF bits
<1>7. offsetOf(w) = v1 * 2 + v11 * 2048 + v12 * 4096 - v20 * 1048576
  BY <1>6, SMT DEF offsetOf
<1>8. CASE v20 = 0
  BY <1>1, <1>7, <1>8, SMT DEF w
<1>9. CASE v20 = 1
  BY <1>1, <1>7, <1>9, SMT DEF w
<1>10. QED
  BY <1>1, <1>8, <1>9, SMT

(* The immediate bits of a jal say its whole offset. *)
LEMMA OffsetBack ==
  ASSUME NEW o \in Nat, IsOffset(o)
  PROVE  offsetOf(immOf(o)) = IF o < 1048576 THEN o ELSE o - 2097152
<1>1. PICK v1 \in Nat, v11 \in Nat, v12 \in Nat, v20 \in Nat : HasFields(o, v1, v11, v12, v20)
  BY Fields
<1>2. QED
  BY <1>1, FieldsBack, SMT

(* A jal reaches every even offset of 21 bits. *)
LEMMA JalLands ==
  ASSUME NEW from \in Int, NEW to \in Int, (to - from) % 2 = 0,
         0 - 1048576 <= to - from, to - from < 1048576
  PROVE  execJAL(from, createJAL(from, to)) = to
<1> DEFINE d == to - from
           o == d % 2097152
<1>1. d \in Int /\ from + d = to /\ d % 2 = 0 /\ 0 - 1048576 <= d /\ d < 1048576
  BY SMT
<1>2. createJAL(from, to) = immOf(o)
  BY SMT DEF createJAL
<1> HIDE DEF d
<1>3. o = IF d < 0 THEN d + 2097152 ELSE d
  BY <1>1, SMT
<1>4. (d + 2097152) % 2 = 0
  BY <1>1, SMT
<1> HIDE DEF o
<1>5. o \in Nat /\ IsOffset(o)
  BY <1>1, <1>3, <1>4, SMT DEF IsOffset
<1>6. offsetOf(immOf(o)) = IF o < 1048576 THEN o ELSE o - 2097152
  BY <1>5, OffsetBack, SMT
<1>7. offsetOf(immOf(o)) = d
  BY <1>1, <1>3, <1>6, SMT
<1>8. QED
  BY <1>1, <1>2, <1>7, SMT DEF execJAL

(* A difference that an int holds is kept. *)
LEMMA IntKept ==
  ASSUME NEW x \in Nat, x < IntMax
  PROVE  toInt(x) = x
<1>1. IntMax \in Nat \ {0}
  BY InputAssumption
<1>2. x % (2 * IntMax) = x
  <2> DEFINE u == 2 * IntMax
  <2>1. u \in Nat \ {0} /\ x < u
    BY <1>1
  <2> HIDE DEF u
  <2>2. x % u = x
    BY <2>1
  <2>3. QED
    BY <2>2 DEF u
<1>3. QED
  BY <1>2 DEF toInt

-----------------------------------------------------------------------------
RangeType == [addr : Nat, size : Nat \ {0}]

(* g is the gap behind code range m. *)
IsGap(x, g, m) ==
  /\ g \in RangeType
  /\ m \in 1..Len(x.text) /\ m + 1 \in 1..Len(x.text)
  /\ g.addr = endOf(x.text[m]) /\ endOf(g) = x.text[m + 1].addr

(* The code ranges of a checkpoint. *)
LEMMA TextFacts ==
  ASSUME NEW x \in Inputs
  PROVE  /\ Len(x.text) \in Nat /\ x.pcs \subseteq Nat /\ IntMax \in Nat \ {0}
         /\ \A n \in 1..Len(x.text) : /\ x.text[n] \in RangeType
                                      /\ x.text[n].addr \in Nat /\ x.text[n].size \in Nat \ {0}
<1>1. x.text \in Seq(RangeType) /\ x.pcs \subseteq Nat /\ IntMax \in Nat \ {0}
  BY InputAssumption DEF RangeType
<1>2. Len(x.text) \in Nat /\ \A n \in 1..Len(x.text) : x.text[n] \in RangeType
  BY <1>1, ElementOfSeq, LenProperties
<1>3. QED
  BY <1>1, <1>2 DEF RangeType

(* Multiples of 64. *)
LEMMA Units ==
  ASSUME NEW a \in Nat, NEW n \in Nat, NEW b \in Nat, NEW c \in Nat, NEW k \in Nat \ {0},
         a % 64 = 0, n % 64 = 0, b % 64 = 0, c = a + n, c + k = b
  PROVE  c % 64 = 0 /\ k % 64 = 0 /\ k >= 64
<1>1. c % 64 = 0
  OBVIOUS
<1>2. k % 64 = 0
  BY <1>1
<1>3. QED
  BY <1>1, <1>2

(* A gap is a whole number of 64-byte units. *)
LEMMA GapUnits ==
  ASSUME NEW x \in Inputs, WellFormed(x), NEW g, NEW m, IsGap(x, g, m)
  PROVE  /\ g.addr \in Nat /\ g.size \in Nat /\ g.addr % 64 = 0 /\ g.size % 64 = 0
         /\ g.size >= 64
<1> DEFINE a == x.text[m].addr
           n == x.text[m].size
           b == x.text[m + 1].addr
<1>1. /\ g.addr \in Nat /\ g.size \in Nat \ {0} /\ m \in 1..Len(x.text) /\ m + 1 \in 1..Len(x.text)
      /\ g.addr = a + n /\ g.addr + g.size = b
  BY DEF IsGap, RangeType, endOf
<1>2. /\ a \in Nat /\ n \in Nat /\ b \in Nat
      /\ a % 64 = 0 /\ n % 64 = 0 /\ b % 64 = 0
  BY <1>1, TextFacts DEF WellFormed
<1> HIDE DEF a, n, b
<1>3. QED
  BY <1>1, <1>2, Units, SMTT(30)

(* No address to reach lies in a gap, and the distance that findMidPoints  *)
(* stores in an int is the real one.                                       *)
LEMMA GapDistance ==
  ASSUME NEW x \in Inputs, WellFormed(x), NEW g, NEW m, IsGap(x, g, m), NEW a \in x.pcs
  PROVE  /\ a \in Nat /\ a % 2 = 0
         /\ a < g.addr => /\ distance(a, g) = g.addr + 64 - a
                          /\ midpointIn(a, g) = g.addr
         /\ ~(a < g.addr) => /\ endOf(g) <= a
                             /\ distance(a, g) = a - (g.addr + g.size - 64)
                             /\ midpointIn(a, g) = g.addr + g.size - 64
<1> DEFINE T == x.text
           G == g.addr
           Z == g.size
<1>1. PICK n \in 1..Len(T) : T[n].addr <= a /\ a < T[n].addr + T[n].size
  BY DEF WellFormed, endOf
<1> DEFINE ma == T[m].addr
           ms == T[m].size
           ka == T[m + 1].addr
           ks == T[m + 1].size
           na == T[n].addr
           ns == T[n].size
<1>2. /\ G \in Nat /\ Z \in Nat /\ m \in 1..Len(T) /\ m + 1 \in 1..Len(T)
      /\ G = ma + ms /\ G + Z = ka
  BY DEF IsGap, RangeType, endOf
<1>3. G \in Nat /\ Z \in Nat /\ Z >= 64
  BY <1>2, GapUnits
<1>4. a \in Nat /\ a % 2 = 0 /\ IntMax \in Nat \ {0}
  BY TextFacts DEF WellFormed
<1>5. /\ ma \in Nat /\ ms \in Nat \ {0} /\ ka \in Nat /\ ks \in Nat \ {0}
      /\ na \in Nat /\ ns \in Nat \ {0}
  BY <1>2, TextFacts
<1>6. /\ n < m => na + ns <= ma
      /\ m + 1 < n => ka + ks <= na
      /\ (ka + ks) - na <= IntMax /\ (na + ns) - ma <= IntMax
  BY <1>2 DEF WellFormed, endOf
<1>7. /\ na <= a /\ a < na + ns
      /\ (n = m => na = ma /\ ns = ms) /\ (n = m + 1 => na = ka)
  BY <1>1
<1>8. m \in Nat /\ n \in Nat
  BY <1>2
<1>9. /\ a < G => distance(a, g) = toInt(G + 64 - a) /\ midpointIn(a, g) = G
      /\ ~(a < G) => /\ distance(a, g) = toInt(a - (G + Z - 64))
                     /\ midpointIn(a, g) = G + Z - 64
  BY DEF distance, midpointIn, freemem
<1> HIDE DEF T, G, Z, ma, ms, ka, ks, na, ns
<1>10. CASE a < G
  <2> DEFINE d == G + 64 - a
  <2>1. d \in Nat /\ d < IntMax
    BY <1>2, <1>3, <1>4, <1>5, <1>6, <1>7, <1>10
  <2> HIDE DEF d
  <2>2. toInt(d) = d
    BY <2>1, IntKept
  <2>3. QED
    BY <1>4, <1>9, <1>10, <2>2 DEF d, G
<1>11. CASE ~(a < G)
  <2> DEFINE d == a - (G + Z - 64)
  <2>1. m + 1 <= n
    BY <1>2, <1>4, <1>5, <1>6, <1>7, <1>8, <1>11
  <2>2. ka <= na
    BY <1>5, <1>6, <1>7, <1>8, <2>1
  <2>3. G + Z <= a
    BY <1>2, <1>3, <1>4, <1>5, <1>7, <2>2
  <2>4. d \in Nat /\ d < IntMax
    BY <1>2, <1>3, <1>4, <1>5, <1>6, <1>7, <2>3
  <2> HIDE DEF d
  <2>5. toInt(d) = d
    BY <2>4, IntKept
  <2>6. QED
    BY <1>4, <1>9, <1>11, <2>3, <2>5 DEF d, endOf, G, Z
<1>12. QED
  BY <1>10, <1>11 DEF G

(* Three jumps over a midpoint in reach land.                              *)
LEMMA ReachLands ==
  ASSUME NEW x \in Inputs, WellFormed(x), NEW g, NEW m, IsGap(x, g, m), NEW a \in x.pcs,
         inReach(a, g), NEW p, p = midpointIn(a, g)
  PROVE  /\ execJAL(a, createJAL(a, p)) = p
         /\ execJAL(p + 32 + 12, createJAL(p + 32 + 12, a + 4)) = a + 4
         /\ execJAL(p + 32 + 12, createJAL(p + 32 + 12, a)) = a
<1>1. /\ g.addr \in Nat /\ g.size \in Nat /\ g.addr % 64 = 0 /\ g.size % 64 = 0 /\ g.size >= 64
  BY GapUnits
<1>2. /\ a \in Nat /\ a % 2 = 0
      /\ a < g.addr => distance(a, g) = g.addr + 64 - a /\ p = g.addr
      /\ ~(a < g.addr) => /\ g.addr + g.size <= a
                          /\ distance(a, g) = a - (g.addr + g.size - 64)
                          /\ p = g.addr + g.size - 64
  BY GapDistance DEF endOf
<1>3. distance(a, g) <= 1048560
  BY SMT DEF inReach, MaxJALOffset
<1>4. p \in Int /\ p % 2 = 0
  BY <1>1, <1>2, SMT
<1>5. 0 - 1048560 <= p - a /\ p - a <= 1048496
  BY <1>1, <1>2, <1>3, SMT
<1> DEFINE q == p + 32 + 12
<1>6. q \in Int /\ q = p + 44
  BY <1>4, SMT
<1> HIDE DEF q
<1>7. execJAL(a, createJAL(a, p)) = p
  <2>1. (p - a) % 2 = 0 /\ 0 - 1048576 <= p - a /\ p - a < 1048576
    BY <1>2, <1>4, <1>5, SMT
  <2>2. QED
    BY <1>2, <1>4, <2>1, JalLands, SMT
<1>8. execJAL(q, createJAL(q, a + 4)) = a + 4
  <2>1. ((a + 4) - q) % 2 = 0 /\ 0 - 1048576 <= (a + 4) - q /\ (a + 4) - q < 1048576
    BY <1>2, <1>4, <1>5, <1>6, SMT
  <2>2. QED
    BY <1>2, <1>6, <2>1, JalLands, SMT
<1>9. execJAL(q, createJAL(q, a)) = a
  <2>1. (a - q) % 2 = 0 /\ 0 - 1048576 <= a - q /\ a - q < 1048576
    BY <1>2, <1>4, <1>5, <1>6, SMT
  <2>2. QED
    BY <1>2, <1>6, <2>1, JalLands, SMT
<1>10. QED
  BY <1>7, <1>8, <1>9, SMT DEF q

-----------------------------------------------------------------------------
(* getRangeInfo: the gaps found so far lie between the code ranges visited *)
(* so far, in their order.                                                 *)
GapsInv ==
  /\ input \in Inputs
  /\ i \in Nat /\ i >= 2
  /\ freeRanges \in Seq(RangeType)
  /\ \A k \in 1..Len(freeRanges) :
       \E m \in Nat : IsGap(input, freeRanges[k], m) /\ m + 2 <= i
  /\ \A k, l \in 1..Len(freeRanges) : k < l => endOf(freeRanges[k]) <= freeRanges[l].addr

(* findMidPoints: a midpoint lies in a gap in reach of its address, and no *)
(* address that is left has a use for a gap that was passed.               *)
PlanInv ==
  /\ todo \subseteq input.pcs
  /\ r \in 1..(Len(freeRanges) + 1)
  /\ status = "gaps" => r = 1 /\ DOMAIN midpoint = {}
  /\ \A a \in DOMAIN midpoint :
       /\ a \in input.pcs
       /\ \E n \in 1..Len(freeRanges) :
            inReach(a, freeRanges[n]) /\ midpoint[a] = midpointIn(a, freeRanges[n])
  /\ \A n \in 1..Len(freeRanges) : n < r =>
       \A a \in todo : ~(a < freeRanges[n].addr) /\ ~inReach(a, freeRanges[n])
  /\ GiveUpOnlyIfHopeless

(* A gap is collected. *)
LEMMA GapStep ==
  ASSUME WellFormedInputs, GapsInv, getRangeInfo
  PROVE  GapsInv'
<1> DEFINE T == input.text
           L == Len(freeRanges)
<1>1. /\ i <= Len(T) /\ i' = i + 1 /\ input' = input
      /\ freeRanges' = IF gap.size > 0 THEN Append(freeRanges, gap) ELSE freeRanges
  BY DEF getRangeInfo
<1>2. /\ input \in Inputs /\ WellFormed(input) /\ i \in Nat /\ i >= 2 /\ freeRanges \in Seq(RangeType)
      /\ \A k \in 1..L : \E m \in Nat : IsGap(input, freeRanges[k], m) /\ m + 2 <= i
      /\ \A k, l \in 1..L : k < l => endOf(freeRanges[k]) <= freeRanges[l].addr
  BY DEF GapsInv, WellFormedInputs
<1>3. L \in Nat /\ Len(T) \in Nat
  BY <1>2, TextFacts, LenProperties
<1>4. \A k \in 1..L : \E m \in Nat : IsGap(input, freeRanges[k], m) /\ m + 2 <= i + 1
  BY <1>2
<1>5. CASE ~(gap.size > 0)
  BY <1>1, <1>2, <1>4, <1>5 DEF GapsInv
<1>6. CASE gap.size > 0
  <2> DEFINE g == gap
             f == Append(freeRanges, g)
             b == T[i - 1]
  <2>1. i - 1 \in 1..Len(T) /\ i \in 1..Len(T) /\ (i - 1) + 1 = i /\ i - 1 \in Nat
    BY <1>1, <1>2, <1>3
  <2>2. b.addr \in Nat /\ b.size \in Nat \ {0} /\ T[i].addr \in Nat
    BY <1>2, <2>1, TextFacts
  <2>3. /\ g = [addr |-> b.addr + b.size, size |-> T[i].addr - (b.addr + b.size)]
        /\ g.addr = b.addr + b.size /\ g.size = T[i].addr - (b.addr + b.size) /\ g.size > 0
    BY <1>6 DEF gap
  <2>4. g \in RangeType
    <3> DEFINE z == T[i].addr - (b.addr + b.size)
               y == b.addr + b.size
    <3>1. y \in Nat /\ z \in Nat \ {0}
      BY <2>2, <2>3
    <3>2. g = [addr |-> y, size |-> z]
      BY <2>3
    <3> HIDE DEF y, z, g
    <3>3. QED
      BY <3>1, <3>2 DEF RangeType
  <2>5. IsGap(input, g, i - 1) /\ (i - 1) + 2 <= i + 1
    <3>1. g.addr + g.size = T[i].addr
      BY <2>2, <2>3
    <3>2. QED
      BY <1>2, <2>1, <2>3, <2>4, <3>1 DEF IsGap, endOf
  <2> HIDE DEF g
  <2>6. /\ f \in Seq(RangeType) /\ Len(f) = L + 1 /\ f[L + 1] = g
        /\ \A k \in 1..L : f[k] = freeRanges[k]
    BY <1>2, <2>4, AppendProperties
  <2> HIDE DEF f
  <2>7. \A k \in 1..(L + 1) : k \in 1..L \/ k = L + 1
    BY <1>3
  <2>8. ASSUME NEW k \in 1..L PROVE endOf(freeRanges[k]) <= g.addr
    <3>1. PICK m \in Nat : IsGap(input, freeRanges[k], m) /\ m + 2 <= i
      BY <1>2
    <3>2. endOf(freeRanges[k]) = T[m + 1].addr /\ m + 1 \in 1..Len(T) /\ m + 1 <= i - 1
      BY <1>2, <3>1 DEF IsGap
    <3>3. m + 1 < i - 1 => endOf(T[m + 1]) <= b.addr
      BY <1>2, <2>1, <3>2 DEF WellFormed
    <3>4. T[m + 1].addr \in Nat /\ T[m + 1].size \in Nat
      BY <1>2, <3>2, TextFacts
    <3>5. m + 1 < i - 1 => T[m + 1].addr + T[m + 1].size <= b.addr
      BY <3>3 DEF endOf
    <3>6. m + 1 = i - 1 => T[m + 1].addr = b.addr
      OBVIOUS
    <3> DEFINE ta == T[m + 1].addr
               ts == T[m + 1].size
               ba == b.addr
               bs == b.size
    <3>7. /\ ta \in Nat /\ ts \in Nat /\ ba \in Nat /\ bs \in Nat
          /\ m + 1 < i - 1 => ta + ts <= ba
          /\ m + 1 = i - 1 => ta = ba
          /\ m + 1 <= i - 1 /\ endOf(freeRanges[k]) = ta /\ g.addr = ba + bs
      BY <2>2, <2>3, <3>2, <3>4, <3>5, <3>6
    <3> HIDE DEF ta, ts, ba, bs
    <3>8. i \in Nat /\ m \in Nat /\ (m + 1 < i - 1 \/ m + 1 = i - 1)
      BY <1>2, <3>2
    <3>9. ta <= ba
      BY <3>7, <3>8
    <3>10. ta <= ba + bs
      BY <3>7, <3>9
    <3>11. QED
      BY <3>7, <3>10
  <2>9. ASSUME NEW k \in 1..(L + 1)
        PROVE  \E m \in Nat : IsGap(input, f[k], m) /\ m + 2 <= i + 1
    BY <1>4, <2>1, <2>5, <2>6, <2>7
  <2>10. ASSUME NEW k \in 1..(L + 1), NEW l \in 1..(L + 1), k < l
         PROVE  endOf(f[k]) <= f[l].addr
    <3>1. k \in 1..L
      BY <1>3, <2>10
    <3>2. CASE l \in 1..L
      BY <1>2, <2>6, <2>10, <3>1, <3>2
    <3>3. CASE l = L + 1
      BY <2>6, <2>8, <3>1, <3>3
    <3>4. QED
      BY <2>7, <3>2, <3>3
  <2>11. freeRanges' = f
    BY <1>1, <1>6 DEF f, g
  <2>12. input' \in Inputs /\ i' \in Nat /\ i' >= 2 /\ freeRanges' \in Seq(RangeType)
    BY <1>1, <1>2, <2>6, <2>11
  <2>13. \A k \in 1..Len(freeRanges') :
           \E m \in Nat : IsGap(input', freeRanges'[k], m) /\ m + 2 <= i'
    <3>1. \A k \in 1..(L + 1) : \E m \in Nat : IsGap(input, f[k], m) /\ m + 2 <= i + 1
      BY <2>9
    <3>2. QED
      BY <1>1, <2>6, <2>11, <3>1, Zenon
  <2>14. \A k, l \in 1..Len(freeRanges') :
           k < l => endOf(freeRanges'[k]) <= freeRanges'[l].addr
    <3>1. \A k, l \in 1..(L + 1) : k < l => endOf(f[k]) <= f[l].addr
      BY <2>10
    <3>2. QED
      BY <2>6, <2>11, <3>1, Zenon
  <2>15. QED
    BY <2>12, <2>13, <2>14, Zenon DEF GapsInv
<1>7. QED
  BY <1>5, <1>6

(* What is known of the gaps while midpoints are looked for. *)
LEMMA FreeFacts ==
  ASSUME WellFormedInputs, GapsInv
  PROVE  /\ Len(freeRanges) \in Nat /\ DOMAIN freeRanges = 1..Len(freeRanges)
         /\ input \in Inputs /\ WellFormed(input) /\ input.pcs \subseteq Nat
         /\ \A n \in 1..Len(freeRanges) :
              /\ freeRanges[n].addr \in Nat /\ freeRanges[n].size \in Nat
              /\ \E m \in Nat : IsGap(input, freeRanges[n], m)
         /\ \A k, n \in 1..Len(freeRanges) : k < n =>
              freeRanges[k].addr + freeRanges[k].size <= freeRanges[n].addr
<1>1. input \in Inputs /\ WellFormed(input) /\ input.pcs \subseteq Nat /\ freeRanges \in Seq(RangeType)
  BY TextFacts DEF GapsInv, WellFormedInputs
<1>2. Len(freeRanges) \in Nat /\ DOMAIN freeRanges = 1..Len(freeRanges)
      /\ \A n \in 1..Len(freeRanges) : freeRanges[n] \in RangeType
  BY <1>1, LenProperties, ElementOfSeq
<1>3. \A n \in 1..Len(freeRanges) : freeRanges[n].addr \in Nat /\ freeRanges[n].size \in Nat
  BY <1>2 DEF RangeType
<1>4. QED
  BY <1>1, <1>2, <1>3 DEF GapsInv, endOf

(* A nonempty set of natural numbers has a least element: there is a next  *)
(* address to plan.                                                        *)
LEMMA LeastNat ==
  ASSUME NEW S \in SUBSET Nat, S # {}
  PROVE  \E m \in S : \A n \in S : m <= n
<1> DEFINE R == OpToRel(<, Nat)
<1>1. IsWellFoundedOn(R, Nat)
  BY NatLessThanWellFounded
<1>2. \A m, n \in Nat : n < m => <<n, m>> \in R
  BY DEF OpToRel
<1> HIDE DEF R
<1>3. PICK m \in S : \A n \in S : ~(<<n, m>> \in R)
  BY <1>1, WFMin
<1>4. \A n \in S : ~(n < m)
  BY <1>2, <1>3
<1>5. QED
  BY <1>4

(* The address that is planned next. *)
LEMMA PcFacts ==
  ASSUME todo \subseteq Nat, todo # {}
  PROVE  pc \in todo /\ \A b \in todo : pc <= b
<1>1. \E a \in todo : \A b \in todo : a <= b
  BY LeastNat
<1>2. QED
  BY <1>1 DEF pc

(* An address behind one that could not reach a gap cannot reach it.       *)
LEMMA FartherBehind ==
  ASSUME NEW x \in Inputs, WellFormed(x), NEW g, NEW m, IsGap(x, g, m),
         NEW a \in x.pcs, NEW b \in x.pcs, a <= b, ~(a < g.addr), ~inReach(a, g)
  PROVE  ~(b < g.addr) /\ ~inReach(b, g)
<1>1. g.addr \in Nat /\ g.size \in Nat
  BY GapUnits
<1>2. a \in Nat /\ b \in Nat /\ distance(a, g) = a - (g.addr + g.size - 64)
  BY GapDistance
<1>3. ~(b < g.addr)
  BY <1>1, <1>2
<1>4. distance(b, g) = b - (g.addr + g.size - 64)
  BY <1>3, GapDistance
<1> DEFINE d == distance(a, g)
           e == distance(b, g)
<1>5. d \in Int /\ e \in Int /\ d <= e
  BY <1>1, <1>2, <1>4
<1> HIDE DEF d, e
<1>6. ~(d <= MaxJALOffset)
  BY DEF inReach, d
<1>7. MaxJALOffset \in Int
  BY SMT DEF MaxJALOffset
<1>8. ~(e <= MaxJALOffset)
  BY <1>5, <1>6, <1>7
<1>9. QED
  BY <1>3, <1>8 DEF inReach, e

(* An address that cannot reach a gap above it cannot reach a later one.   *)
LEMMA FartherAhead ==
  ASSUME NEW x \in Inputs, WellFormed(x), NEW g, NEW m, IsGap(x, g, m),
         NEW h, NEW n, IsGap(x, h, n), g.addr + g.size <= h.addr,
         NEW a \in x.pcs, a < g.addr, ~inReach(a, g)
  PROVE  ~inReach(a, h)
<1>1. g.addr \in Nat /\ g.size \in Nat /\ h.addr \in Nat
  BY GapUnits
<1>2. a \in Nat /\ distance(a, g) = g.addr + 64 - a
  BY GapDistance
<1>3. a < h.addr
  BY <1>1, <1>2
<1>4. distance(a, h) = h.addr + 64 - a
  BY <1>3, GapDistance
<1> DEFINE d == distance(a, g)
           e == distance(a, h)
<1>5. d \in Int /\ e \in Int /\ d <= e
  BY <1>1, <1>2, <1>4
<1> HIDE DEF d, e
<1>6. ~(d <= MaxJALOffset)
  BY DEF inReach, d
<1>7. MaxJALOffset \in Int
  BY SMT DEF MaxJALOffset
<1>8. ~(e <= MaxJALOffset)
  BY <1>5, <1>6, <1>7
<1>9. QED
  BY <1>8 DEF inReach, e

(* The invariant holds at the start. *)
LEMMA PlanInit ==
  Init => GapsInv /\ PlanInv
<1> SUFFICES ASSUME Init PROVE GapsInv /\ PlanInv
  OBVIOUS
<1>1. freeRanges = <<>> /\ freeRanges \in Seq(RangeType) /\ Len(freeRanges) = 0
  BY EmptySeq DEF Init
<1>2. QED
  BY <1>1 DEF Init, GapsInv, PlanInv, GiveUpOnlyIfHopeless

(* Every step keeps it. *)
LEMMA PlanStep ==
  ASSUME WellFormedInputs, GapsInv, PlanInv, [Next]_vars
  PROVE  GapsInv' /\ PlanInv'
<1> DEFINE L == Len(freeRanges)
           F == freeRanges
<1>0. /\ L \in Nat /\ DOMAIN F = 1..L
      /\ input \in Inputs /\ WellFormed(input) /\ input.pcs \subseteq Nat
      /\ \A n \in 1..L : /\ F[n].addr \in Nat /\ F[n].size \in Nat
                         /\ \E m \in Nat : IsGap(input, F[n], m)
      /\ \A k, n \in 1..L : k < n => F[k].addr + F[k].size <= F[n].addr
  BY FreeFacts
<1>1. todo \subseteq input.pcs /\ r \in 1..(L + 1)
  BY DEF PlanInv
<1>2. ASSUME UNCHANGED <<input, i, freeRanges>> PROVE GapsInv'
  BY <1>2 DEF GapsInv
<1>3. CASE getRangeInfo
  <2>1. /\ status = "gaps" /\ status' = "gaps" /\ input' = input
        /\ UNCHANGED <<todo, r, midpoint>>
    BY <1>3 DEF getRangeInfo
  <2>2. GapsInv'
    BY <1>3, GapStep
  <2>3. Len(freeRanges') \in Nat
    BY <2>2, LenProperties DEF GapsInv
  <2>4. QED
    BY <2>1, <2>2, <2>3 DEF PlanInv, GiveUpOnlyIfHopeless
<1>4. CASE processJmp
  <2>1. /\ status' = "plan"
        /\ UNCHANGED <<input, i, freeRanges, todo, r, midpoint>>
    BY <1>4 DEF processJmp
  <2>2. QED
    BY <1>2, <2>1 DEF PlanInv, GiveUpOnlyIfHopeless
<1>5. CASE Found
  <2>1. /\ status = "plan" /\ status' = "plan" /\ todo # {} /\ r <= L
        /\ inReach(pc, F[r]) /\ midpoint' = midpointFound /\ todo' = todo \ {pc}
        /\ UNCHANGED <<input, i, freeRanges, r>>
    BY <1>5 DEF Found
  <2>2. r \in 1..L /\ pc \in todo /\ pc \in input.pcs
    BY <1>0, <1>1, <2>1, PcFacts
  <2>3. /\ DOMAIN midpoint' = DOMAIN midpoint \cup {pc}
        /\ midpoint'[pc] = midpointIn(pc, F[r])
        /\ \A a \in DOMAIN midpoint : a # pc => midpoint'[a] = midpoint[a]
    BY <2>1 DEF midpointFound
  <2>4. ASSUME NEW a \in DOMAIN midpoint'
        PROVE  /\ a \in input.pcs
               /\ \E n \in 1..L : inReach(a, F[n]) /\ midpoint'[a] = midpointIn(a, F[n])
    <3>1. CASE a = pc
      BY <2>1, <2>2, <2>3, <3>1
    <3>2. CASE a # pc
      <4>1. a \in DOMAIN midpoint /\ midpoint'[a] = midpoint[a]
        BY <2>3, <2>4, <3>2
      <4>2. QED
        BY <4>1 DEF PlanInv
    <3>3. QED
      BY <3>1, <3>2
  <2>5. todo' \subseteq todo
    BY <2>1
  <2>6. QED
    BY <1>1, <1>2, <2>1, <2>4, <2>5 DEF PlanInv, GiveUpOnlyIfHopeless
<1>6. CASE SkipGap
  <2>1. /\ status = "plan" /\ todo # {} /\ r <= L /\ ~inReach(pc, F[r])
        /\ pc >= F[r].addr /\ r' = r + 1
        /\ UNCHANGED <<input, i, freeRanges, todo, midpoint, status>>
    BY <1>6 DEF SkipGap
  <2>2. r \in 1..L /\ pc \in todo /\ pc \in input.pcs /\ pc \in Nat /\ \A b \in todo : pc <= b
    BY <1>0, <1>1, <2>1, PcFacts
  <2>3. ~(pc < F[r].addr)
    BY <1>0, <2>1, <2>2
  <2>4. \A a \in todo : ~(a < F[r].addr) /\ ~inReach(a, F[r])
    <3>1. PICK m \in Nat : IsGap(input, F[r], m)
      BY <1>0, <2>2
    <3>2. QED
      BY <1>0, <1>1, <2>1, <2>2, <2>3, <3>1, FartherBehind
  <2>5. ASSUME NEW n \in 1..L, n < r + 1
        PROVE  \A a \in todo : ~(a < F[n].addr) /\ ~inReach(a, F[n])
    <3>1. n < r \/ n = r
      BY <1>1, <2>5
    <3>2. QED
      BY <2>4, <2>5, <3>1 DEF PlanInv
  <2>6. r' \in 1..(L + 1)
    BY <1>0, <2>1, <2>2
  <2>7. QED
    BY <1>2, <2>1, <2>5, <2>6 DEF PlanInv, GiveUpOnlyIfHopeless
<1>7. CASE GiveUp
  <2>1. /\ todo # {} /\ status' = "failed"
        /\ r <= L => ~inReach(pc, F[r]) /\ pc < F[r].addr
        /\ UNCHANGED <<input, i, freeRanges, todo, r, midpoint>>
    BY <1>7 DEF GiveUp
  <2>2. pc \in todo /\ pc \in input.pcs
    BY <1>0, <1>1, <2>1, PcFacts
  <2>3. ASSUME NEW n \in 1..L PROVE ~inReach(pc, F[n])
    <3>1. CASE n < r
      BY <2>2, <3>1 DEF PlanInv
    <3>2. CASE n = r
      BY <1>0, <2>1, <3>2
    <3>3. CASE n > r
      <4>1. r \in 1..L /\ r < n
        BY <1>0, <1>1, <3>3
      <4>2. r <= L /\ F[r].addr + F[r].size <= F[n].addr
        BY <1>0, <4>1
      <4>3. PICK m \in Nat : IsGap(input, F[r], m)
        BY <1>0, <4>1
      <4>4. PICK k \in Nat : IsGap(input, F[n], k)
        BY <1>0
      <4>5. QED
        BY <1>0, <2>1, <2>2, <4>2, <4>3, <4>4, FartherAhead
    <3>4. QED
      BY <1>1, <3>1, <3>2, <3>3
  <2>4. GiveUpOnlyIfHopeless'
    BY <1>0, <2>1, <2>2, <2>3 DEF GiveUpOnlyIfHopeless
  <2>5. QED
    BY <1>2, <2>1, <2>4 DEF PlanInv
<1>8. CASE Planned
  <2>1. /\ status = "plan" /\ status' = "planned"
        /\ UNCHANGED <<input, i, freeRanges, todo, r, midpoint>>
    BY <1>8 DEF Planned
  <2>2. QED
    BY <1>2, <2>1 DEF PlanInv, GiveUpOnlyIfHopeless
<1>9. CASE UNCHANGED vars
  <2>1. UNCHANGED <<input, i, freeRanges, todo, r, midpoint, status>>
    BY <1>9 DEF vars
  <2>2. QED
    BY <1>2, <2>1 DEF PlanInv, GiveUpOnlyIfHopeless
<1>10. QED
  BY <1>3, <1>4, <1>5, <1>6, <1>7, <1>8, <1>9 DEF Next

(* The plan of getRangeInfo and findMidPoints is right at every iteration. *)
THEOREM PlanCorrect ==
  WellFormedInputs /\ Spec => [](GapsInv /\ PlanInv)
<1> SUFFICES ASSUME WellFormedInputs PROVE Spec => [](GapsInv /\ PlanInv)
  OBVIOUS
<1>1. GapsInv /\ PlanInv /\ [Next]_vars => GapsInv' /\ PlanInv'
  BY PlanStep
<1>2. QED
  BY PlanInit, <1>1, PTL DEF Spec

(* findMidPoints gives up only if some address has no gap in reach at all: *)
(* for every checkpoint, the cursor that never moves back passes no gap    *)
(* that a later address needs.                                             *)
THEOREM GiveUpHopeless ==
  WellFormedInputs /\ Spec => []GiveUpOnlyIfHopeless
<1>1. PlanInv => GiveUpOnlyIfHopeless
  BY DEF PlanInv
<1>2. QED
  BY PlanCorrect, <1>1, PTL

(* Every jal that createInsts_jmp2loader and createInsts_jmp2prog write    *)
(* goes where it should, for every checkpoint and with the bits of the     *)
(* encoding.                                                               *)
THEOREM AllJumpsLand ==
  WellFormedInputs /\ Spec => []JumpsLand
<1> SUFFICES ASSUME WellFormedInputs PROVE Spec => []JumpsLand
  OBVIOUS
<1>1. GapsInv /\ PlanInv => JumpsLand
  <2> SUFFICES ASSUME GapsInv, PlanInv, NEW a \in DOMAIN midpoint
               PROVE  /\ jmp2loader(a) = midpoint[a]
                      /\ jmp2prog(a, a + 4) = a + 4
                      /\ jmp2prog(a, a) = a
    BY DEF JumpsLand
  <2>1. PICK n \in 1..Len(freeRanges) :
               inReach(a, freeRanges[n]) /\ midpoint[a] = midpointIn(a, freeRanges[n])
    BY DEF PlanInv
  <2>2. a \in input.pcs /\ input \in Inputs /\ WellFormed(input)
    BY FreeFacts DEF PlanInv
  <2>3. PICK m \in Nat : IsGap(input, freeRanges[n], m)
    BY FreeFacts
  <2>4. /\ execJAL(a, createJAL(a, midpoint[a])) = midpoint[a]
        /\ execJAL(midpoint[a] + 32 + 12, createJAL(midpoint[a] + 32 + 12, a + 4)) = a + 4
        /\ execJAL(midpoint[a] + 32 + 12, createJAL(midpoint[a] + 32 + 12, a)) = a
    BY <2>1, <2>2, <2>3, ReachLands
  <2>5. QED
    BY <2>4 DEF jmp2loader, jmp2prog, jalAddr
<1>2. QED
  BY PlanCorrect, <1>1, PTL

(* No trampoline is written over code, and two of them overlap only if     *)
(* they are the same one, for every checkpoint.                            *)
THEOREM AllStubsInGaps ==
  WellFormedInputs /\ Spec => []StubsInGaps
<1> SUFFICES ASSUME WellFormedInputs PROVE Spec => []StubsInGaps
  OBVIOUS
<1> DEFINE InGap(p, g) == /\ g.addr \in Nat /\ g.size \in Nat /\ g.size % 64 = 0 /\ g.size >= 64
                          /\ p = g.addr \/ p = g.addr + g.size - 64
<1>1. ASSUME GapsInv, PlanInv, NEW a \in DOMAIN midpoint
      PROVE  \E n \in 1..Len(freeRanges) : InGap(midpoint[a], freeRanges[n])
  <2>1. PICK n \in 1..Len(freeRanges) : midpoint[a] = midpointIn(a, freeRanges[n])
    BY <1>1 DEF PlanInv
  <2>2. PICK m \in Nat : IsGap(input, freeRanges[n], m)
    BY <1>1, FreeFacts
  <2>3. /\ freeRanges[n].addr \in Nat /\ freeRanges[n].size \in Nat
        /\ freeRanges[n].size % 64 = 0 /\ freeRanges[n].size >= 64
    BY <1>1, <2>2, FreeFacts, GapUnits
  <2>4. QED
    BY <2>1, <2>3 DEF midpointIn, freemem
<1>2. ASSUME NEW p, NEW q, NEW g, InGap(p, g), InGap(q, g)
      PROVE  p = q \/ p..(p + 47) \cap q..(q + 47) = {}
  <2> DEFINE A == g.addr
             Z == g.size
  <2>1. A \in Nat /\ Z \in Nat /\ Z % 64 = 0 /\ Z >= 64
        /\ (p = A \/ p = A + Z - 64) /\ (q = A \/ q = A + Z - 64)
    BY <1>2
  <2> HIDE DEF A, Z
  <2>2. Z = 64 \/ Z >= 128
    BY <2>1
  <2>3. QED
    BY <2>1, <2>2
<1>3. ASSUME NEW p, NEW q, NEW g, NEW h, InGap(p, g), InGap(q, h), g.addr + g.size <= h.addr
      PROVE  p..(p + 47) \cap q..(q + 47) = {}
  <2> DEFINE A == g.addr
             Z == g.size
             B == h.addr
             Y == h.size
  <2>1. /\ A \in Nat /\ Z \in Nat /\ Z >= 64 /\ (p = A \/ p = A + Z - 64)
        /\ B \in Nat /\ Y \in Nat /\ Y >= 64 /\ (q = B \/ q = B + Y - 64) /\ A + Z <= B
    BY <1>3
  <2> HIDE DEF A, Z, B, Y
  <2>2. QED
    BY <2>1
<1>4. ASSUME NEW p, NEW g, InGap(p, g)
      PROVE  p >= g.addr /\ p + 64 <= g.addr + g.size
  <2> DEFINE A == g.addr
             Z == g.size
  <2>1. A \in Nat /\ Z \in Nat /\ Z >= 64 /\ (p = A \/ p = A + Z - 64)
    BY <1>4
  <2> HIDE DEF A, Z
  <2>2. p >= A /\ p + 64 <= A + Z
    BY <2>1
  <2>3. QED
    BY <2>2 DEF A, Z
<1> HIDE DEF InGap
<1>5. ASSUME GapsInv, PlanInv, NEW a \in DOMAIN midpoint, NEW b \in DOMAIN midpoint
      PROVE  midpoint[a] = midpoint[b] \/ stub(a) \cap stub(b) = {}
  <2>1. PICK n \in 1..Len(freeRanges) : InGap(midpoint[a], freeRanges[n])
    BY <1>1, <1>5
  <2>2. PICK k \in 1..Len(freeRanges) : InGap(midpoint[b], freeRanges[k])
    BY <1>1, <1>5
  <2>3. /\ n < k => freeRanges[n].addr + freeRanges[n].size <= freeRanges[k].addr
        /\ k < n => freeRanges[k].addr + freeRanges[k].size <= freeRanges[n].addr
    BY <1>5, FreeFacts
  <2>4. CASE n = k
    BY <1>2, <2>1, <2>2, <2>4 DEF stub
  <2>5. CASE n < k
    BY <1>3, <2>1, <2>2, <2>3, <2>5 DEF stub
  <2>6. CASE k < n
    <3>1. stub(b) \cap stub(a) = {}
      BY <1>3, <2>1, <2>2, <2>3, <2>6 DEF stub
    <3>2. QED
      BY <3>1
  <2>7. QED
    BY <2>4, <2>5, <2>6
<1>6. GapsInv /\ PlanInv => StubsInGaps
  <2> SUFFICES ASSUME GapsInv, PlanInv, NEW a \in DOMAIN midpoint
               PROVE  /\ \E n \in DOMAIN freeRanges :
                           /\ midpoint[a] >= freeRanges[n].addr
                           /\ midpoint[a] + freemem <= freeRanges[n].addr + freeRanges[n].size
                      /\ \A b \in DOMAIN midpoint :
                           midpoint[a] = midpoint[b] \/ stub(a) \cap stub(b) = {}
    BY DEF StubsInGaps
  <2>1. PICK n \in 1..Len(freeRanges) : InGap(midpoint[a], freeRanges[n])
    BY <1>1
  <2>2. /\ n \in DOMAIN freeRanges /\ midpoint[a] >= freeRanges[n].addr
        /\ midpoint[a] + freemem <= freeRanges[n].addr + freeRanges[n].size
    BY <1>4, <2>1, FreeFacts DEF freemem
  <2>3. QED
    BY <1>5, <2>2
<1>7. QED
  BY PlanCorrect, <1>6, PTL

=============================================================================
