---------------------------- MODULE RangesProofs ----------------------------
(***************************************************************************)
(* Proofs about the address ranges of a checkpoint, for every page and     *)
(* block size and every slice.                                             *)
(***************************************************************************)
EXTENDS Ranges, WellFoundedInduction, SequenceTheorems, TLAPS

-----------------------------------------------------------------------------
(* Multiples of a page or a block.                                         *)
Unit(u, a) == (a \div u) * u

(* The unit of an address. *)
LEMMA UnitFacts ==
  ASSUME NEW u \in Nat \ {0}, NEW a \in Nat
  PROVE  /\ Unit(u, a) \in Nat /\ Unit(u, a) <= a /\ a < Unit(u, a) + u
         /\ Unit(u, Unit(u, a)) = Unit(u, a)
<1>1. a \div u \in Nat
  OBVIOUS
<1>2. \A q \in Nat : (q * u) \div u = q
  OBVIOUS
<1>3. Unit(u, a) \in Nat /\ Unit(u, a) <= a /\ a < Unit(u, a) + u
  BY <1>1 DEF Unit
<1>4. QED
  BY <1>1, <1>2, <1>3 DEF Unit

(* A multiple is its own unit. *)
LEMMA UnitMultiple ==
  ASSUME NEW u \in Nat \ {0}, NEW q \in Nat
  PROVE  Unit(u, q * u) = q * u
<1>1. (q * u) \div u = q
  OBVIOUS
<1>2. QED
  BY <1>1 DEF Unit

(* The next multiple. *)
LEMMA UnitNext ==
  ASSUME NEW u \in Nat \ {0}, NEW x \in Nat, Unit(u, x) = x
  PROVE  Unit(u, x + u) = x + u
<1>1. x \div u \in Nat /\ x = (x \div u) * u
  BY DEF Unit
<1>2. ((x \div u) + 1) * u = x + u
  BY <1>1
<1>3. (x \div u) + 1 \in Nat
  BY <1>1
<1>4. QED
  BY <1>2, <1>3, UnitMultiple

(* Two multiples are a unit apart. *)
LEMMA UnitApart ==
  ASSUME NEW u \in Nat \ {0}, NEW x \in Nat, NEW y \in Nat,
         Unit(u, x) = x, Unit(u, y) = y, x < y
  PROVE  x + u <= y
<1>1. x \div u \in Nat /\ x = (x \div u) * u /\ y \div u \in Nat /\ y = (y \div u) * u
  BY DEF Unit
<1> DEFINE p == x \div u
           q == y \div u
<1>2. p \in Nat /\ q \in Nat /\ x = p * u /\ y = q * u
  BY <1>1
<1> HIDE DEF p, q
<1>3. p < q
  BY <1>2
<1>4. (p + 1) * u <= q * u
  BY <1>2, <1>3
<1>5. QED
  BY <1>2, <1>4

(* A multiple below an address is below its unit, ... *)
LEMMA UnitAbove ==
  ASSUME NEW u \in Nat \ {0}, NEW x \in Nat, NEW a \in Nat, Unit(u, x) = x, x <= a
  PROVE  x <= Unit(u, a)
<1>1. Unit(u, a) \in Nat /\ a < Unit(u, a) + u /\ Unit(u, Unit(u, a)) = Unit(u, a)
  BY UnitFacts
<1>2. Unit(u, a) < x => Unit(u, a) + u <= x
  BY <1>1, UnitApart
<1>3. QED
  BY <1>1, <1>2

(* ... and one above it is above the end of its unit. *)
LEMMA UnitBelow ==
  ASSUME NEW u \in Nat \ {0}, NEW y \in Nat, NEW a \in Nat, Unit(u, y) = y, a < y
  PROVE  Unit(u, a) + u <= y
<1>1. Unit(u, a) \in Nat /\ Unit(u, a) <= a /\ Unit(u, Unit(u, a)) = Unit(u, a)
  BY UnitFacts
<1>2. Unit(u, a) < y
  BY <1>1
<1>3. QED
  BY <1>1, <1>2, UnitApart

(* The address lies in the unit at x. *)
LEMMA UnitSame ==
  ASSUME NEW u \in Nat \ {0}, NEW x \in Nat, NEW a \in Nat, Unit(u, x) = x,
         x <= a, a < x + u
  PROVE  Unit(u, a) = x
<1>1. x <= Unit(u, a)
  BY UnitAbove
<1>2. Unit(u, x + u) = x + u
  BY UnitNext
<1>3. Unit(u, a) + u <= x + u
  BY <1>2, UnitBelow
<1>4. Unit(u, a) \in Nat
  BY UnitFacts
<1>5. QED
  BY <1>1, <1>3, <1>4

(* Blocks begin at pages. *)
LEMMA BlockAligned ==
  ASSUME NEW a \in Nat
  PROVE  /\ BlockOf(a) \in Nat /\ Page(BlockOf(a)) = BlockOf(a)
         /\ BlockOf(a) = Unit(Block, a) /\ Unit(Block, BlockOf(a)) = BlockOf(a)
<1>1. PageSize \in Nat \ {0} /\ Block \in Nat \ {0} /\ Block % PageSize = 0
  BY InputAssumption
<1>2. BlockOf(a) = Unit(Block, a)
  BY DEF BlockOf, Unit
<1>3. BlockOf(a) \in Nat /\ Unit(Block, BlockOf(a)) = BlockOf(a)
  BY <1>1, <1>2, UnitFacts
<1> DEFINE k == Block \div PageSize
           q == a \div Block
<1>4. k \in Nat /\ Block = k * PageSize /\ q \in Nat
  BY <1>1
<1>5. BlockOf(a) = q * Block
  BY DEF BlockOf
<1> HIDE DEF k, q
<1>6. q * k \in Nat /\ q * (k * PageSize) = (q * k) * PageSize
  BY <1>1, <1>4
<1>7. BlockOf(a) = (q * k) * PageSize
  BY <1>4, <1>5, <1>6
<1>8. Unit(PageSize, (q * k) * PageSize) = (q * k) * PageSize
  BY <1>1, <1>6, UnitMultiple
<1>9. Page(BlockOf(a)) = BlockOf(a)
  BY <1>7, <1>8 DEF Page, Unit
<1>10. QED
  BY <1>2, <1>3, <1>9

-----------------------------------------------------------------------------
(* A sequence of ranges made of units: sorted, and with a gap between any  *)
(* two.                                                                    *)
RangeType == [addr : Nat, size : Nat \ {0}]

upto(x) == x.addr + x.size

Good(u, s) ==
  /\ s \in Seq(RangeType) /\ Len(s) \in Nat \ {0}
  /\ \A n \in 1..Len(s) : /\ s[n].addr \in Nat /\ s[n].size \in Nat \ {0}
                          /\ Unit(u, s[n].addr) = s[n].addr
                          /\ Unit(u, upto(s[n])) = upto(s[n])
  /\ \A m, n \in 1..Len(s) : m < n => upto(s[m]) < s[n].addr

(* The unit of address a is in one of the ranges. *)
Covers(u, s, a) ==
  \E n \in 1..Len(s) : s[n].addr <= Unit(u, a) /\ Unit(u, a) + u <= upto(s[n])

(* The ranges hold no unit but those of the addresses in all. *)
Exact(u, s, all) ==
  \A n \in 1..Len(s) : \A p \in Nat :
    Unit(u, p) = p /\ s[n].addr <= p /\ p < upto(s[n]) =>
      \E a \in all : Unit(u, a) = p

(* One range, the unit of address a. *)
LEMMA OneRange ==
  ASSUME NEW u \in Nat \ {0}, NEW a \in Nat
  PROVE  LET s == <<[addr |-> Unit(u, a), size |-> u]>> IN
         Good(u, s) /\ \A all : a \in all => Exact(u, s, all)
<1> DEFINE x == [addr |-> Unit(u, a), size |-> u]
           s == <<x>>
<1>1. Unit(u, a) \in Nat /\ Unit(u, Unit(u, a)) = Unit(u, a)
  BY UnitFacts
<1>2. x \in RangeType /\ x.addr = Unit(u, a) /\ x.size = u /\ upto(x) = Unit(u, a) + u
  BY <1>1 DEF RangeType, upto
<1>3. Unit(u, upto(x)) = upto(x)
  BY <1>1, <1>2, UnitNext
<1> HIDE DEF x
<1>4. s \in Seq(RangeType) /\ Len(s) = 1 /\ s[1] = x
  BY <1>2
<1> HIDE DEF s
<1>5. \A n \in 1..Len(s) : n = 1
  BY <1>4
<1>6. Good(u, s)
  <2>1. \A m, n \in 1..Len(s) : ~(m < n)
    BY <1>4
  <2>2. QED
    BY <1>1, <1>2, <1>3, <1>4, <1>5, <2>1 DEF Good
<1>7. ASSUME NEW all, a \in all PROVE Exact(u, s, all)
  <2> SUFFICES ASSUME NEW p \in Nat, Unit(u, p) = p, x.addr <= p, p < upto(x)
               PROVE  \E b \in all : Unit(u, b) = p
    BY <1>4, <1>5 DEF Exact
  <2>1. Unit(u, p) = Unit(u, a)
    BY <1>1, <1>2, UnitSame
  <2>2. QED
    BY <1>7, <2>1
<1>8. QED
  BY <1>6, <1>7 DEF s, x

(* An address inside the last range is covered. *)
LEMMA RangeSkip ==
  ASSUME NEW u \in Nat \ {0}, NEW s, Good(u, s), NEW a \in Nat,
         s[Len(s)].addr <= a, a < upto(s[Len(s)])
  PROVE  Covers(u, s, a)
<1> DEFINE x == s[Len(s)]
<1>1. Len(s) \in 1..Len(s)
  BY DEF Good
<1>2. /\ x.addr \in Nat /\ x.size \in Nat \ {0}
      /\ Unit(u, x.addr) = x.addr /\ Unit(u, upto(x)) = upto(x)
  BY <1>1 DEF Good
<1>3. upto(x) \in Nat
  BY <1>2 DEF upto
<1>4. x.addr <= Unit(u, a) /\ Unit(u, a) + u <= upto(x)
  BY <1>2, <1>3, UnitAbove, UnitBelow
<1>5. QED
  BY <1>1, <1>4 DEF Covers

(* The last range is extended by the unit behind it. *)
LEMMA RangeExtend ==
  ASSUME NEW u \in Nat \ {0}, NEW rs \in Seq(RangeType), NEW x \in RangeType,
         Good(u, Append(rs, x)), NEW a \in Nat, upto(x) <= a, a < upto(x) + u,
         NEW y \in RangeType, y.addr = x.addr, y.size = x.size + u
  PROVE  LET s == Append(rs, x)
             t == Append(rs, y) IN
         /\ Good(u, t) /\ Covers(u, t, a)
         /\ \A b \in Nat : Covers(u, s, b) => Covers(u, t, b)
         /\ \A all : Exact(u, s, all) /\ a \in all => Exact(u, t, all)
<1> DEFINE s == Append(rs, x)
           t == Append(rs, y)
           L == Len(rs)
<1>1. /\ s \in Seq(RangeType) /\ Len(s) = L + 1 /\ s[L + 1] = x
      /\ t \in Seq(RangeType) /\ Len(t) = L + 1 /\ t[L + 1] = y
      /\ \A n \in 1..L : s[n] = rs[n] /\ t[n] = rs[n]
      /\ L \in Nat
  BY AppendProperties
<1> HIDE DEF s, t, L
<1>2. \A n \in 1..(L + 1) : n \in 1..L \/ n = L + 1
  BY <1>1
<1>3. L + 1 \in 1..(L + 1)
  BY <1>1
<1>4. Good(u, s)
  BY DEF s
<1>5. /\ x.addr \in Nat /\ x.size \in Nat \ {0}
      /\ Unit(u, x.addr) = x.addr /\ Unit(u, upto(x)) = upto(x)
  BY <1>1, <1>3, <1>4 DEF Good
<1>6. upto(x) \in Nat /\ upto(y) = upto(x) + u /\ y.size \in Nat \ {0} /\ y.addr \in Nat
  BY <1>5 DEF upto
<1>7. Unit(u, upto(y)) = upto(y)
  BY <1>5, <1>6, UnitNext
<1>8. Unit(u, a) = upto(x)
  BY <1>5, <1>6, UnitSame
<1>9. Good(u, t)
  <2>1. ASSUME NEW n \in 1..Len(t)
        PROVE  /\ t[n].addr \in Nat /\ t[n].size \in Nat \ {0}
               /\ Unit(u, t[n].addr) = t[n].addr /\ Unit(u, upto(t[n])) = upto(t[n])
    <3>1. CASE n = L + 1
      BY <1>1, <1>5, <1>6, <1>7, <3>1
    <3>2. CASE n \in 1..L
      <4>1. t[n] = s[n] /\ n \in 1..Len(s)
        BY <1>1, <3>2
      <4>2. QED
        BY <1>4, <4>1 DEF Good
    <3>3. QED
      BY <1>1, <1>2, <3>1, <3>2
  <2>2. ASSUME NEW m \in 1..Len(t), NEW n \in 1..Len(t), m < n
        PROVE  upto(t[m]) < t[n].addr
    <3>1. m \in 1..L /\ m \in 1..Len(s) /\ n \in 1..Len(s) /\ t[m] = s[m]
      BY <1>1, <2>2
    <3>2. t[n].addr = s[n].addr
      BY <1>1, <1>2, <2>2
    <3>3. QED
      BY <1>4, <2>2, <3>1, <3>2 DEF Good
  <2>3. Len(t) \in Nat \ {0}
    BY <1>1
  <2>4. QED
    BY <1>1, <2>1, <2>2, <2>3 DEF Good
<1>10. Covers(u, t, a)
  BY <1>1, <1>3, <1>5, <1>6, <1>8 DEF Covers, upto
<1>11. ASSUME NEW b \in Nat, Covers(u, s, b) PROVE Covers(u, t, b)
  <2>1. PICK n \in 1..(L + 1) : s[n].addr <= Unit(u, b) /\ Unit(u, b) + u <= upto(s[n])
    BY <1>1, <1>11 DEF Covers
  <2>2. Unit(u, b) \in Nat
    BY UnitFacts
  <2>3. t[n].addr <= Unit(u, b) /\ Unit(u, b) + u <= upto(t[n])
    <3>1. CASE n = L + 1
      BY <1>1, <1>6, <2>1, <2>2, <3>1
    <3>2. CASE n \in 1..L
      BY <1>1, <2>1, <3>2
    <3>3. QED
      BY <1>2, <3>1, <3>2
  <2>4. QED
    BY <1>1, <2>3 DEF Covers
<1>12. ASSUME NEW all, Exact(u, s, all), a \in all PROVE Exact(u, t, all)
  <2> SUFFICES ASSUME NEW n \in 1..(L + 1), NEW p \in Nat,
                      Unit(u, p) = p, t[n].addr <= p, p < upto(t[n])
               PROVE  \E b \in all : Unit(u, b) = p
    BY <1>1 DEF Exact
  <2>1. CASE n \in 1..L
    BY <1>1, <1>12, <2>1 DEF Exact
  <2>2. CASE n = L + 1 /\ p < upto(x)
    BY <1>1, <1>3, <1>12, <2>2 DEF Exact
  <2>3. CASE n = L + 1 /\ ~(p < upto(x))
    <3>1. upto(x) <= p /\ p < upto(x) + u
      BY <1>1, <1>6, <2>3
    <3>2. Unit(u, p) = upto(x)
      BY <1>5, <1>6, <3>1, UnitSame
    <3>3. QED
      BY <1>8, <1>12, <3>2
  <2>4. QED
    BY <1>2, <2>1, <2>2, <2>3
<1>13. QED
  BY <1>9, <1>10, <1>11, <1>12 DEF s, t

(* A new range begins, with a gap before it. *)
LEMMA RangeNew ==
  ASSUME NEW u \in Nat \ {0}, NEW s, Good(u, s), NEW a \in Nat,
         upto(s[Len(s)]) + u <= a,
         NEW y \in RangeType, y.addr = Unit(u, a), y.size = u
  PROVE  LET t == Append(s, y) IN
         /\ Good(u, t) /\ Covers(u, t, a)
         /\ \A b \in Nat : Covers(u, s, b) => Covers(u, t, b)
         /\ \A all : Exact(u, s, all) /\ a \in all => Exact(u, t, all)
<1> DEFINE t == Append(s, y)
           L == Len(s)
<1>1. s \in Seq(RangeType) /\ L \in Nat \ {0}
  BY DEF Good
<1>2. /\ t \in Seq(RangeType) /\ Len(t) = L + 1 /\ t[L + 1] = y
      /\ \A n \in 1..L : t[n] = s[n]
  BY <1>1, AppendProperties
<1> HIDE DEF t
<1>3. /\ \A n \in 1..(L + 1) : n \in 1..L \/ n = L + 1
      /\ L + 1 \in 1..(L + 1) /\ L \in 1..L
      /\ \A n \in 1..L : n \in 1..(L + 1)
  BY <1>1
<1>4. /\ Unit(u, a) \in Nat /\ Unit(u, Unit(u, a)) = Unit(u, a) /\ a < Unit(u, a) + u
  BY UnitFacts
<1>5. upto(y) = Unit(u, a) + u
  BY DEF upto
<1>6. Unit(u, upto(y)) = upto(y)
  BY <1>4, <1>5, UnitNext
<1>7. \A m \in 1..L : upto(s[m]) \in Nat /\ upto(s[m]) <= upto(s[L])
  <2>1. \A m \in 1..L : s[m].addr \in Nat /\ s[m].size \in Nat \ {0}
    BY DEF Good
  <2>2. \A m \in 1..L : upto(s[m]) \in Nat /\ s[m].addr <= upto(s[m])
    BY <2>1 DEF upto
  <2>3. \A m \in 1..L : m < L => upto(s[m]) < s[L].addr
    BY <1>3 DEF Good
  <2>4. \A m \in 1..L : m = L \/ m < L
    BY <1>1
  <2>5. QED
    BY <1>3, <2>1, <2>2, <2>3, <2>4
<1>8. upto(s[L]) < Unit(u, a)
  BY <1>3, <1>4, <1>7
<1>9. Good(u, t)
  <2>1. ASSUME NEW n \in 1..Len(t)
        PROVE  /\ t[n].addr \in Nat /\ t[n].size \in Nat \ {0}
               /\ Unit(u, t[n].addr) = t[n].addr /\ Unit(u, upto(t[n])) = upto(t[n])
    <3>1. CASE n = L + 1
      BY <1>2, <1>4, <1>6, <3>1
    <3>2. CASE n \in 1..L
      BY <1>2, <3>2 DEF Good
    <3>3. QED
      BY <1>2, <1>3, <3>1, <3>2
  <2>2. ASSUME NEW m \in 1..Len(t), NEW n \in 1..Len(t), m < n
        PROVE  upto(t[m]) < t[n].addr
    <3>1. m \in 1..L
      BY <1>1, <1>2, <2>2
    <3>2. CASE n = L + 1
      BY <1>2, <1>4, <1>7, <1>8, <1>3, <3>1, <3>2
    <3>3. CASE n \in 1..L
      BY <1>2, <2>2, <3>1, <3>3 DEF Good
    <3>4. QED
      BY <1>2, <1>3, <3>2, <3>3
  <2>3. Len(t) \in Nat \ {0}
    BY <1>1, <1>2
  <2>4. QED
    BY <1>2, <2>1, <2>2, <2>3 DEF Good
<1>10. Covers(u, t, a)
  BY <1>2, <1>3, <1>4, <1>5 DEF Covers
<1>11. ASSUME NEW b \in Nat, Covers(u, s, b) PROVE Covers(u, t, b)
  BY <1>2, <1>3, <1>11 DEF Covers
<1>12. ASSUME NEW all, Exact(u, s, all), a \in all PROVE Exact(u, t, all)
  <2> SUFFICES ASSUME NEW n \in 1..(L + 1), NEW p \in Nat,
                      Unit(u, p) = p, t[n].addr <= p, p < upto(t[n])
               PROVE  \E b \in all : Unit(u, b) = p
    BY <1>2 DEF Exact
  <2>1. CASE n \in 1..L
    BY <1>2, <1>12, <2>1 DEF Exact
  <2>2. CASE n = L + 1
    <3>1. Unit(u, a) <= p /\ p < Unit(u, a) + u
      BY <1>2, <1>5, <2>2
    <3>2. Unit(u, p) = Unit(u, a)
      BY <1>4, <3>1, UnitSame
    <3>3. QED
      BY <1>12, <3>2
  <2>3. QED
    BY <1>3, <2>1, <2>2
<1>13. QED
  BY <1>9, <1>10, <1>11, <1>12 DEF t

(* One iteration of getRange keeps the ranges in order, covers the address *)
(* that it visits, loses nothing and adds nothing else.                    *)
LEMMA GetRangeStep ==
  ASSUME NEW u \in Nat \ {0}, NEW rs \in Seq(RangeType), r \in RangeType,
         Good(u, Append(rs, r)), NEW a \in Nat, r.addr <= a, Page(a) = Unit(u, a)
  PROVE  LET next == getRange(u, a, rs)
             s == Append(rs, r)
             t == Append(next.ranges, next.r) IN
         /\ next.ranges \in Seq(RangeType) /\ next.r \in RangeType /\ next.r.addr <= a
         /\ Good(u, t) /\ Covers(u, t, a)
         /\ \A b \in Nat : Covers(u, s, b) => Covers(u, t, b)
         /\ \A all : Exact(u, s, all) /\ a \in all => Exact(u, t, all)
<1> DEFINE next == getRange(u, a, rs)
           s == Append(rs, r)
           t == Append(next.ranges, next.r)
           len == a - (r.addr + r.size)
<1>1. r.addr \in Nat /\ r.size \in Nat \ {0} /\ len \in Int /\ upto(r) = r.addr + r.size
  BY DEF RangeType, upto
<1>2. s \in Seq(RangeType) /\ Len(s) = Len(rs) + 1 /\ s[Len(s)] = r
  BY AppendProperties
<1>3. CASE len < 0
  <2>1. next = [r |-> r, ranges |-> rs]
    BY <1>1, <1>3 DEF getRange
  <2>2. next.r = r /\ next.ranges = rs /\ t = s
    BY <2>1
  <2>3. a < upto(r)
    BY <1>1, <1>3
  <2>4. Covers(u, s, a)
    BY <1>2, <2>3, RangeSkip
  <2>5. QED
    BY <2>2, <2>4
<1>4. CASE 0 <= len /\ len < u
  <2> DEFINE y == [r EXCEPT !.size = @ + u]
  <2>1. next = [r |-> y, ranges |-> rs]
    BY <1>1, <1>4 DEF getRange
  <2>2. next.r = y /\ next.ranges = rs /\ t = Append(rs, y)
    BY <2>1
  <2>3. y \in RangeType /\ y.addr = r.addr /\ y.size = r.size + u
    BY <1>1, SMTT(30) DEF RangeType
  <2>4. upto(r) <= a /\ a < upto(r) + u
    BY <1>1, <1>4
  <2> HIDE DEF y
  <2>5. /\ Good(u, t) /\ Covers(u, t, a)
        /\ \A b \in Nat : Covers(u, s, b) => Covers(u, t, b)
        /\ \A all : Exact(u, s, all) /\ a \in all => Exact(u, t, all)
    BY <2>2, <2>3, <2>4, RangeExtend
  <2>6. QED
    BY <2>2, <2>3, <2>5
<1>5. CASE ~(len < 0) /\ ~(0 <= len /\ len < u)
  <2> DEFINE y == [addr |-> Page(a), size |-> u]
  <2>1. next = [r |-> y, ranges |-> s]
    BY <1>1, <1>5 DEF getRange
  <2>2. next.r = y /\ next.ranges = s /\ t = Append(s, y)
    BY <2>1
  <2>3. y \in RangeType /\ y.addr = Unit(u, a) /\ y.size = u /\ y.addr <= a
    BY UnitFacts DEF RangeType
  <2>4. upto(s[Len(s)]) + u <= a
    BY <1>1, <1>2, <1>5
  <2> HIDE DEF y
  <2>5. /\ Good(u, t) /\ Covers(u, t, a)
        /\ \A b \in Nat : Covers(u, s, b) => Covers(u, t, b)
        /\ \A all : Exact(u, s, all) /\ a \in all => Exact(u, t, all)
    BY <2>2, <2>3, <2>4, RangeNew
  <2>6. QED
    BY <1>2, <2>2, <2>3, <2>5
<1>6. QED
  BY <1>3, <1>4, <1>5

(* A nonempty set of natural numbers has a least element: the loops have a *)
(* next address.                                                           *)
LEMMA LeastNat ==
  ASSUME NEW S \in SUBSET Nat, S # {}
  PROVE  \E m \in S : \A n \in S : m <= n
<1> DEFINE R == OpToRel(<, Nat)
<1>1. IsWellFoundedOn(R, Nat)
  BY NatLessThanWellFounded
<1>2. \A m, n \in Nat : n < m => <<n, m>> \in R
  BY DEF OpToRel
<1> HIDE DEF R
<1>3. PICK m \in S : \A n \in S : ~(<<n, m>> \in R)
  BY <1>1, WFMin
<1>4. \A n \in S : ~(n < m)
  BY <1>2, <1>3
<1>5. QED
  BY <1>4

(* The loops visit the addresses from the least. *)
LEMMA LeastFacts ==
  ASSUME NEW S \in SUBSET Nat, S # {}
  PROVE  Least(S) \in S /\ Least(S) \in Nat /\ \A a \in S : Least(S) <= a
<1>1. \E m \in S : \A n \in S : m <= n
  BY LeastNat
<1>2. QED
  BY <1>1 DEF Least

-----------------------------------------------------------------------------
(* getRange in progress: over the addresses in all, of which those in todo *)
(* have still to be visited.                                               *)
Building(u, rs, all) ==
  /\ rs \in Seq(RangeType) /\ r \in RangeType
  /\ Good(u, Append(rs, r))
  /\ todo \subseteq all
  /\ \A a \in todo : r.addr <= a
  /\ \A a \in all \ todo : Covers(u, Append(rs, r), a)
  /\ Exact(u, Append(rs, r), all)

(* Its result. *)
Built(u, rs, all) ==
  Good(u, rs) /\ (\A a \in all : Covers(u, rs, a)) /\ Exact(u, rs, all)

(* The loop begins with the unit of the least address. *)
LEMMA BuildStart ==
  ASSUME NEW u \in Nat \ {0}, NEW all \in SUBSET Nat, all # {},
         \A a \in all : Page(a) = Unit(u, a),
         NEW x, x = [addr |-> Page(Least(all)), size |-> u]
  PROVE  /\ x \in RangeType /\ Good(u, Append(<<>>, x)) /\ Exact(u, Append(<<>>, x), all)
         /\ \A a \in all : x.addr <= a
<1> DEFINE m == Least(all)
<1>1. m \in all /\ m \in Nat /\ \A a \in all : m <= a
  BY LeastFacts
<1> HIDE DEF m
<1>2. x = [addr |-> Unit(u, m), size |-> u]
  BY <1>1 DEF m
<1>3. Append(<<>>, x) = <<x>>
  OBVIOUS
<1>4. Unit(u, m) \in Nat /\ Unit(u, m) <= m
  BY <1>1, UnitFacts
<1>5. x \in RangeType /\ x.addr = Unit(u, m)
  BY <1>2, <1>4 DEF RangeType
<1>6. Good(u, <<x>>) /\ Exact(u, <<x>>, all)
  BY <1>1, <1>2, OneRange
<1>7. \A a \in all : x.addr <= a
  BY <1>1, <1>4, <1>5
<1>8. QED
  BY <1>3, <1>5, <1>6, <1>7

(* An iteration. *)
LEMMA BuildStep ==
  ASSUME NEW u \in Nat \ {0}, NEW all \in SUBSET Nat, NEW rs, Building(u, rs, all),
         \A a \in all : Page(a) = Unit(u, a), todo # {},
         NEW rs2, r' = getRange(u, Least(todo), rs).r, rs2 = getRange(u, Least(todo), rs).ranges,
         todo' = todo \ {Least(todo)}
  PROVE  /\ rs2 \in Seq(RangeType) /\ r' \in RangeType
         /\ Good(u, Append(rs2, r'))
         /\ todo' \subseteq all
         /\ \A a \in todo' : r'.addr <= a
         /\ \A a \in all \ todo' : Covers(u, Append(rs2, r'), a)
         /\ Exact(u, Append(rs2, r'), all)
<1> DEFINE m == Least(todo)
           s == Append(rs, r)
           t == Append(rs2, r')
<1>1. /\ rs \in Seq(RangeType) /\ r \in RangeType /\ Good(u, s) /\ todo \subseteq all
      /\ \A a \in todo : r.addr <= a
      /\ \A a \in all \ todo : Covers(u, s, a)
      /\ Exact(u, s, all)
  BY DEF Building
<1>2. m \in todo /\ m \in Nat /\ \A a \in todo : m <= a
  BY <1>1, LeastFacts
<1>3. m \in all /\ r.addr <= m /\ Page(m) = Unit(u, m)
  BY <1>1, <1>2
<1>4. r' = getRange(u, m, rs).r /\ rs2 = getRange(u, m, rs).ranges /\ todo' = todo \ {m}
  OBVIOUS
<1> HIDE DEF m
<1>5. /\ rs2 \in Seq(RangeType) /\ r' \in RangeType /\ r'.addr <= m
      /\ Good(u, t) /\ Covers(u, t, m)
      /\ \A b \in Nat : Covers(u, s, b) => Covers(u, t, b)
      /\ \A S : Exact(u, s, S) /\ m \in S => Exact(u, t, S)
  BY <1>1, <1>2, <1>3, <1>4, GetRangeStep
<1> HIDE DEF s, t
<1>6. \A a \in todo' : r'.addr <= a
  <2>1. r'.addr \in Nat
    BY <1>5 DEF RangeType
  <2>2. QED
    BY <1>1, <1>2, <1>4, <1>5, <2>1
<1>7. \A a \in all \ todo' : Covers(u, t, a)
  BY <1>1, <1>4, <1>5
<1>8. Exact(u, t, all)
  BY <1>1, <1>3, <1>5
<1>9. QED
  BY <1>1, <1>4, <1>5, <1>6, <1>7, <1>8 DEF t

(* The loop ends. *)
LEMMA BuildEnd ==
  ASSUME NEW u, NEW all, NEW rs, Building(u, rs, all), todo = {}
  PROVE  Built(u, Append(rs, r), all)
  BY DEF Building, Built

-----------------------------------------------------------------------------
(* The inductive invariant.  The accessed blocks, which from the second    *)
(* step on include the block of everything that will be touched.           *)
AccessInv ==
  /\ input \in Inputs
  /\ preAccess \subseteq Nat /\ preAccess # {}
  /\ \A b \in preAccess : BlockOf(b) = b
  /\ IF phase = "access" THEN preAccess = {BlockOf(a) : a \in input.data}
                         ELSE \A a \in Touched : BlockOf(Page(a)) \in preAccess

(* The code ranges are exactly the pages of the recorded instructions. *)
TextInv ==
  /\ phase = "access" => textrange = <<>>
  /\ phase = "text" => Building(PageSize, textrange, input.text)
  /\ phase \in {"mem", "trim", "map", "done"} => Built(PageSize, textrange, input.text)

(* The memory ranges on their way through the trimming: sorted, and with   *)
(* all of the accessed blocks that lies behind the code.                   *)
Sorted == \A m, n \in 1..Len(memrange) : m < n => upto(memrange[m]) < memrange[n].addr

Kept ==
  \A p \in Nat : BlockOf(p) \in preAccess /\ textend <= p =>
    \E n \in 1..Len(memrange) : memrange[n].addr <= p /\ p < upto(memrange[n])

AboveText == \A n \in 1..Len(memrange) : textend <= memrange[n].addr

MemInv ==
  /\ phase \in {"access", "text"} => memrange = <<>>
  /\ phase = "mem" => Building(Block, memrange, preAccess)
  /\ phase \in {"trim", "map", "done"} =>
       memrange \in Seq(RangeType) /\ Sorted /\ Kept /\ i \in Nat \ {0}
  /\ phase = "trim" =>
       \/ i = 1
       \/ i = 2 /\ Len(memrange) >= 1 /\ textend <= memrange[1].addr
  /\ phase \in {"map", "done"} => AboveText

(* The loader's mappings. *)
MapInv ==
  phase \in {"map", "done"} =>
    /\ PagesOf(text_seg.addr, text_seg.size) \subseteq mapped
    /\ \A n \in 1..Len(memrange) :
         n < i => PagesOf(memrange[n].addr, memrange[n].size + PageSize) \subseteq mapped
    /\ textend = textEnd => \A t \in input.text : Page(t) \in code
    /\ phase = "done" => i > Len(memrange)

RangeInv ==
  /\ phase \in {"access", "text", "mem", "trim", "map", "done"}
  /\ AccessInv /\ TextInv /\ MemInv /\ MapInv

-----------------------------------------------------------------------------
(* What the assumption says of a slice. *)
LEMMA SliceFacts ==
  ASSUME input \in Inputs
  PROVE  /\ PageSize \in Nat \ {0} /\ Block \in Nat \ {0} /\ Word \in 1..PageSize
         /\ input.text \in SUBSET Nat /\ input.text # {}
         /\ input.data \in SUBSET Nat /\ input.data # {}
         /\ input.words \subseteq input.data
         /\ \A b \in input.bufs : b.addr \in Nat /\ b.size \in Nat \ {0}
  BY InputAssumption

(* The page of an address. *)
LEMMA PageFacts ==
  ASSUME NEW a \in Nat
  PROVE  /\ Page(a) = Unit(PageSize, a) /\ Page(a) \in Nat
         /\ Page(a) <= a /\ a < Page(a) + PageSize
         /\ Page(Page(a)) = Page(a)
<1>1. PageSize \in Nat \ {0}
  BY InputAssumption
<1>2. \A x : Page(x) = Unit(PageSize, x)
  BY DEF Page, Unit
<1>3. QED
  BY <1>1, <1>2, UnitFacts

(* An address and its page are in the same block. *)
LEMMA BlockOfPage ==
  ASSUME NEW a \in Nat
  PROVE  BlockOf(Page(a)) = BlockOf(a)
<1>1. PageSize \in Nat \ {0} /\ Block \in Nat \ {0}
  BY InputAssumption
<1> DEFINE b == BlockOf(a)
           p == Page(a)
<1>2. b \in Nat /\ Page(b) = b /\ b = Unit(Block, a) /\ Unit(Block, b) = b
  BY BlockAligned
<1>3. b <= a /\ a < b + Block
  BY <1>1, <1>2, UnitFacts
<1>4. p \in Nat /\ p = Unit(PageSize, a) /\ p <= a /\ b = Unit(PageSize, b)
  BY <1>2, PageFacts
<1>5. BlockOf(p) = Unit(Block, p)
  BY DEF BlockOf, Unit
<1> HIDE DEF b, p
<1>6. b <= p
  BY <1>1, <1>2, <1>3, <1>4, UnitAbove
<1>7. p < b + Block
  BY <1>1, <1>2, <1>3, <1>4
<1>8. Unit(Block, p) = b
  BY <1>1, <1>2, <1>4, <1>6, <1>7, UnitSame
<1>9. QED
  BY <1>5, <1>8 DEF b, p

(* The end of the code as the trimming sees it is an address. *)
LEMMA TextEndFacts ==
  ASSUME input \in Inputs, Built(PageSize, textrange, input.text)
  PROVE  /\ textEnd \in Nat /\ textend \in Nat
         /\ textEnd < IntMax => textend = textEnd
         /\ \A n \in 1..Len(textrange) : upto(textrange[n]) <= textEnd
         /\ \A n \in 1..Len(textrange) : textrange[1].addr <= textrange[n].addr
         /\ textrange[1].addr \in Nat /\ Len(textrange) \in Nat \ {0}
<1> DEFINE L == Len(textrange)
<1>1. IntMax \in Nat \ {0}
  BY InputAssumption
<1>2. L \in Nat \ {0} /\ 1 \in 1..L /\ L \in 1..L
  BY DEF Built, Good
<1>3. \A n \in 1..L : textrange[n].addr \in Nat /\ textrange[n].size \in Nat \ {0}
  BY DEF Built, Good
<1>4. \A n \in 1..L : upto(textrange[n]) \in Nat /\ textrange[n].addr <= upto(textrange[n])
  BY <1>3 DEF upto
<1>5. \A m, n \in 1..L : m < n => upto(textrange[m]) < textrange[n].addr
  BY DEF Built, Good
<1>6. textEnd = upto(textrange[L])
  BY DEF textEnd, last, upto
<1>7. textEnd \in Nat
  BY <1>2, <1>4, <1>6
<1>8. \A n \in 1..L : (n = L \/ n < L) /\ (n = 1 \/ 1 < n)
  BY <1>2
<1>9. ASSUME NEW n \in 1..L
      PROVE  upto(textrange[n]) <= textEnd /\ textrange[1].addr <= textrange[n].addr
  <2>1. upto(textrange[n]) <= upto(textrange[L])
    BY <1>2, <1>3, <1>4, <1>5, <1>8
  <2>2. textrange[1].addr <= textrange[n].addr
    BY <1>2, <1>3, <1>4, <1>5, <1>8
  <2>3. QED
    BY <1>6, <2>1, <2>2
<1>10. Huge \in Nat
  BY <1>1 DEF Huge
<1> DEFINE mod == textEnd % (2 * IntMax)
<1>11. mod \in Nat /\ (textEnd < IntMax => mod = textEnd)
  BY <1>1, <1>7
<1>12. textend = IF mod < IntMax THEN mod ELSE Huge
  BY DEF textend
<1> HIDE DEF mod
<1>13. textend \in Nat /\ (textEnd < IntMax => textend = textEnd)
  BY <1>10, <1>11, <1>12
<1>14. QED
  BY <1>2, <1>3, <1>7, <1>9, <1>13

(* Before the first step. *)
LEMMA RangeInit ==
  Init => RangeInv
<1> SUFFICES ASSUME Init PROVE RangeInv
  OBVIOUS
<1>1. input \in Inputs /\ phase = "access" /\ preAccess = {BlockOf(a) : a \in input.data}
      /\ textrange = <<>> /\ memrange = <<>>
  BY DEF Init
<1>2. input.data \in SUBSET Nat /\ input.data # {}
  BY <1>1, SliceFacts
<1>3. \A a \in Nat : BlockOf(a) \in Nat /\ BlockOf(BlockOf(a)) = BlockOf(a)
  BY BlockAligned DEF BlockOf, Unit
<1>4. AccessInv
  BY <1>1, <1>2, <1>3 DEF AccessInv
<1>5. TextInv /\ MemInv /\ MapInv
  BY <1>1 DEF TextInv, MemInv, MapInv
<1>6. QED
  BY <1>1, <1>4, <1>5 DEF RangeInv

(* addPages: the accessed blocks now include the block of every byte that  *)
(* will be touched, and getRange begins on the code.                       *)
LEMMA AddPagesInv ==
  RangeInv /\ addPages => RangeInv'
<1> SUFFICES ASSUME RangeInv, addPages PROVE RangeInv'
  OBVIOUS
<1>1. /\ phase = "access" /\ phase' = "text" /\ input' = input
      /\ textrange' = textrange /\ memrange' = memrange
      /\ todo' = input.text /\ r' = [addr |-> Page(Least(input.text)), size |-> PageSize]
  BY DEF addPages
<1>2. /\ input \in Inputs /\ preAccess \subseteq Nat /\ preAccess # {}
      /\ \A b \in preAccess : BlockOf(b) = b
      /\ preAccess = {BlockOf(a) : a \in input.data}
  BY <1>1 DEF RangeInv, AccessInv
<1> DEFINE B == UNION {bufPages(b) : b \in input.bufs}
           W == UNION {wordPages(a) : a \in input.words}
<1>3. preAccess' = preAccess \cup {BlockOf(p) : p \in B} \cup {BlockOf(p) : p \in W}
  BY DEF addPages
<1>4. /\ PageSize \in Nat \ {0} /\ Word \in 1..PageSize
      /\ input.text \in SUBSET Nat /\ input.text # {}
      /\ input.data \in SUBSET Nat /\ input.words \subseteq input.data
      /\ \A b \in input.bufs : b.addr \in Nat /\ b.size \in Nat \ {0}
  BY <1>2, SliceFacts
<1>5. \A a \in Nat : BlockOf(a) \in Nat /\ BlockOf(BlockOf(a)) = BlockOf(a)
  BY BlockAligned DEF BlockOf, Unit
<1>6. \A p \in B : p \in Nat
  <2> SUFFICES ASSUME NEW b \in input.bufs, NEW p \in bufPages(b) PROVE p \in Nat
    OBVIOUS
  <2>1. Page(b.addr) \in Nat
    BY <1>4, PageFacts
  <2>2. p \in Page(b.addr) .. (b.addr + b.size + PageSize)
    BY DEF bufPages
  <2>3. b.addr + b.size + PageSize \in Nat
    BY <1>4
  <2>4. QED
    BY <2>1, <2>2, <2>3
<1>7. \A p \in W : p \in Nat
  <2> SUFFICES ASSUME NEW a \in input.words, NEW p \in wordPages(a) PROVE p \in Nat
    OBVIOUS
  <2>1. Page(a) \in Nat
    BY <1>4, PageFacts
  <2>2. p = Page(a) \/ p = Page(a) + PageSize
    BY DEF wordPages
  <2>3. QED
    BY <1>4, <2>1, <2>2
<1>8. ASSUME NEW x \in Touched PROVE BlockOf(Page(x)) \in preAccess'
  <2>1. CASE x \in input.data
    <3>1. BlockOf(Page(x)) = BlockOf(x)
      BY <1>4, <2>1, BlockOfPage
    <3>2. QED
      BY <1>2, <1>3, <2>1, <3>1
  <2>2. ASSUME NEW a \in input.words, NEW k \in 0..(Word - 1), x = a + k
        PROVE  BlockOf(Page(x)) \in preAccess'
    <3>1. a \in Nat /\ k \in Nat /\ x \in Nat /\ a <= x /\ x < a + Word /\ Word <= PageSize
      BY <1>4, <2>2
    <3> DEFINE p == Page(a)
               q == Page(x)
    <3>2. /\ p \in Nat /\ p <= a /\ a < p + PageSize /\ p = Unit(PageSize, a)
          /\ Page(p) = p
          /\ q \in Nat /\ q <= x /\ x < q + PageSize /\ q = Unit(PageSize, x)
      BY <3>1, PageFacts
    <3>3. Unit(PageSize, p) = p
      BY <3>2, PageFacts
    <3> HIDE DEF p, q
    <3>4. CASE x < p + PageSize
      <4>1. q = p
        BY <1>4, <3>1, <3>2, <3>3, <3>4, UnitSame
      <4>2. Page(a) \in wordPages(a)
        BY DEF wordPages
      <4>3. QED
        BY <1>3, <4>1, <4>2 DEF p, q
    <3>5. CASE ~(x < p + PageSize)
      <4>1. p + PageSize \in Nat /\ Unit(PageSize, p + PageSize) = p + PageSize
        BY <1>4, <3>2, <3>3, UnitNext
      <4>2. p + PageSize <= x /\ x < (p + PageSize) + PageSize
        BY <1>4, <3>1, <3>2, <3>5
      <4>3. q = p + PageSize
        BY <1>4, <3>1, <3>2, <4>1, <4>2, UnitSame
      <4>4. p + PageSize < a + Word
        BY <1>4, <3>1, <3>2, <4>2
      <4>5. Page(a) + PageSize \in wordPages(a)
        BY <4>4 DEF wordPages, p
      <4>6. QED
        BY <1>3, <4>3, <4>5 DEF p, q
    <3>6. QED
      BY <3>4, <3>5
  <2>3. ASSUME NEW b \in input.bufs, x \in b.addr .. (b.addr + b.size - 1)
        PROVE  BlockOf(Page(x)) \in preAccess'
    <3>1. b.addr \in Nat /\ b.size \in Nat /\ x \in Nat /\ b.addr <= x /\ x < b.addr + b.size
      BY <1>4, <2>3
    <3> DEFINE p == Page(b.addr)
               q == Page(x)
    <3>2. /\ p \in Nat /\ p <= b.addr /\ q \in Nat /\ q <= x /\ q = Unit(PageSize, x)
          /\ Page(q) = q /\ Unit(PageSize, p) = p
      BY <3>1, PageFacts
    <3> HIDE DEF p, q
    <3>3. p <= q
      BY <1>4, <3>1, <3>2, UnitAbove
    <3>4. q \in p .. (b.addr + b.size + PageSize)
      BY <1>4, <3>1, <3>2, <3>3
    <3>5. q \in bufPages(b)
      BY <3>2, <3>4 DEF bufPages, p
    <3>6. QED
      BY <1>3, <3>5 DEF q
  <2>4. QED
    BY <2>1, <2>2, <2>3 DEF Touched
<1>9. Touched' = Touched
  BY <1>1 DEF Touched
<1>10. preAccess' \subseteq Nat /\ preAccess' # {} /\ \A b \in preAccess' : BlockOf(b) = b
  <2>1. ASSUME NEW b \in preAccess' PROVE b \in Nat /\ BlockOf(b) = b
    <3>1. b \in preAccess \/ (\E p \in B : b = BlockOf(p)) \/ (\E p \in W : b = BlockOf(p))
      BY <1>3, <2>1
    <3>2. CASE b \in preAccess
      BY <1>2, <3>2
    <3>3. CASE \E p \in Nat : b = BlockOf(p)
      BY <1>5, <3>3
    <3>4. QED
      BY <1>6, <1>7, <3>1, <3>2, <3>3
  <2>2. preAccess' # {}
    BY <1>2, <1>3
  <2>3. QED
    BY <2>1, <2>2
<1>11. AccessInv'
  BY <1>1, <1>2, <1>8, <1>9, <1>10 DEF AccessInv
<1>12. \A a \in input.text : Page(a) = Unit(PageSize, a)
  BY <1>4, PageFacts
<1>13. /\ r' \in RangeType /\ Good(PageSize, Append(<<>>, r'))
       /\ Exact(PageSize, Append(<<>>, r'), input.text)
       /\ \A a \in input.text : r'.addr <= a
  BY <1>1, <1>4, <1>12, BuildStart
<1>14. textrange' = <<>> /\ memrange' = <<>> /\ <<>> \in Seq(RangeType)
  BY <1>1 DEF RangeInv, TextInv, MemInv
<1>15. Building(PageSize, textrange, input.text)'
  BY <1>1, <1>13, <1>14 DEF Building
<1>16. TextInv' /\ MemInv' /\ MapInv'
  BY <1>1, <1>14, <1>15 DEF TextInv, MemInv, MapInv
<1>17. QED
  BY <1>1, <1>11, <1>16 DEF RangeInv

(* The accessed blocks do not change after that. *)
LEMMA AccessStep ==
  ASSUME AccessInv, phase # "access", phase' # "access", UNCHANGED <<input, preAccess>>
  PROVE  AccessInv'
<1>1. Touched' = Touched
  BY DEF Touched
<1>2. QED
  BY <1>1 DEF AccessInv

(* An iteration over the code addresses. *)
LEMMA TextRangeInv ==
  RangeInv /\ TextRange => RangeInv'
<1> SUFFICES ASSUME RangeInv, TextRange PROVE RangeInv'
  OBVIOUS
<1>1. /\ phase = "text" /\ phase' = "text" /\ todo # {}
      /\ UNCHANGED <<input, preAccess, memrange>>
      /\ r' = getRange(PageSize, Least(todo), textrange).r
      /\ textrange' = getRange(PageSize, Least(todo), textrange).ranges
      /\ todo' = todo \ {Least(todo)}
  BY DEF TextRange
<1>2. AccessInv' /\ input \in Inputs
  BY <1>1, AccessStep DEF RangeInv, AccessInv
<1>3. Building(PageSize, textrange, input.text) /\ memrange = <<>>
  BY <1>1 DEF RangeInv, TextInv, MemInv
<1>4. PageSize \in Nat \ {0} /\ input.text \in SUBSET Nat
  BY <1>2, SliceFacts
<1>5. \A a \in input.text : Page(a) = Unit(PageSize, a)
  BY <1>4, PageFacts
<1>6. Building(PageSize, textrange, input.text)'
  <2>1. /\ textrange' \in Seq(RangeType) /\ r' \in RangeType
        /\ Good(PageSize, Append(textrange', r'))
        /\ todo' \subseteq input.text
        /\ \A a \in todo' : r'.addr <= a
        /\ \A a \in input.text \ todo' : Covers(PageSize, Append(textrange', r'), a)
        /\ Exact(PageSize, Append(textrange', r'), input.text)
    BY <1>1, <1>3, <1>4, <1>5, BuildStep, SMTT(30)
  <2>2. QED
    BY <1>1, <2>1 DEF Building
<1>7. TextInv' /\ MemInv' /\ MapInv'
  BY <1>1, <1>3, <1>6 DEF TextInv, MemInv, MapInv
<1>8. QED
  BY <1>1, <1>2, <1>7 DEF RangeInv

(* The pages of the blocks are the blocks. *)
LEMMA BlockPages ==
  ASSUME AccessInv
  PROVE  \A a \in preAccess : Page(a) = Unit(Block, a)
<1>1. \A a \in preAccess : a \in Nat /\ BlockOf(a) = a
  BY DEF AccessInv
<1>2. QED
  BY <1>1, BlockAligned

(* The code ranges are complete, and getRange begins on the blocks. *)
LEMMA TextDoneInv ==
  RangeInv /\ TextDone => RangeInv'
<1> SUFFICES ASSUME RangeInv, TextDone PROVE RangeInv'
  OBVIOUS
<1>1. /\ phase = "text" /\ phase' = "mem" /\ todo = {}
      /\ UNCHANGED <<input, preAccess, memrange>>
      /\ r' = [addr |-> Page(Least(preAccess)), size |-> Block]
      /\ textrange' = Append(textrange, r) /\ todo' = preAccess
  BY DEF TextDone
<1>2. AccessInv' /\ AccessInv /\ preAccess \in SUBSET Nat /\ preAccess # {} /\ input \in Inputs
  BY <1>1, AccessStep DEF RangeInv, AccessInv
<1>3. Building(PageSize, textrange, input.text) /\ memrange = <<>>
  BY <1>1 DEF RangeInv, TextInv, MemInv
<1>4. Built(PageSize, textrange', input.text)
  BY <1>1, <1>3, BuildEnd
<1>5. Built(PageSize, textrange, input.text)'
  BY <1>1, <1>4 DEF Built
<1>6. Block \in Nat \ {0}
  BY InputAssumption
<1>7. \A a \in preAccess : Page(a) = Unit(Block, a)
  BY <1>2, BlockPages
<1>8. /\ r' \in RangeType /\ Good(Block, Append(<<>>, r'))
      /\ Exact(Block, Append(<<>>, r'), preAccess)
      /\ \A a \in preAccess : r'.addr <= a
  BY <1>1, <1>2, <1>6, <1>7, BuildStart
<1>9. Building(Block, memrange, preAccess)'
  <2>1. memrange' = <<>> /\ <<>> \in Seq(RangeType)
    BY <1>1, <1>3
  <2>2. QED
    BY <1>1, <1>8, <2>1 DEF Building
<1>10. TextInv' /\ MemInv' /\ MapInv'
  BY <1>1, <1>5, <1>9 DEF TextInv, MemInv, MapInv
<1>11. QED
  BY <1>1, <1>2, <1>10 DEF RangeInv

(* An iteration over the blocks. *)
LEMMA MemRangeInv ==
  RangeInv /\ MemRange => RangeInv'
<1> SUFFICES ASSUME RangeInv, MemRange PROVE RangeInv'
  OBVIOUS
<1>1. /\ phase = "mem" /\ phase' = "mem" /\ todo # {}
      /\ UNCHANGED <<input, preAccess, textrange>>
      /\ r' = getRange(Block, Least(todo), memrange).r
      /\ memrange' = getRange(Block, Least(todo), memrange).ranges
      /\ todo' = todo \ {Least(todo)}
  BY DEF MemRange
<1>2. AccessInv' /\ AccessInv /\ preAccess \in SUBSET Nat
  BY <1>1, AccessStep DEF RangeInv, AccessInv
<1>3. Building(Block, memrange, preAccess) /\ Built(PageSize, textrange, input.text)
  BY <1>1 DEF RangeInv, TextInv, MemInv
<1>4. Block \in Nat \ {0}
  BY InputAssumption
<1>5. \A a \in preAccess : Page(a) = Unit(Block, a)
  BY <1>2, BlockPages
<1>6. Building(Block, memrange, preAccess)'
  <2>1. /\ memrange' \in Seq(RangeType) /\ r' \in RangeType
        /\ Good(Block, Append(memrange', r'))
        /\ todo' \subseteq preAccess
        /\ \A a \in todo' : r'.addr <= a
        /\ \A a \in preAccess \ todo' : Covers(Block, Append(memrange', r'), a)
        /\ Exact(Block, Append(memrange', r'), preAccess)
    BY <1>1, <1>2, <1>3, <1>4, <1>5, BuildStep
  <2>2. QED
    BY <1>1, <2>1 DEF Building
<1>7. Built(PageSize, textrange, input.text)'
  BY <1>1, <1>3 DEF Built
<1>8. TextInv' /\ MemInv' /\ MapInv'
  BY <1>1, <1>6, <1>7 DEF TextInv, MemInv, MapInv
<1>9. QED
  BY <1>1, <1>2, <1>8 DEF RangeInv

(* The memory ranges are complete: they hold every accessed block. *)
LEMMA MemDoneInv ==
  RangeInv /\ MemDone => RangeInv'
<1> SUFFICES ASSUME RangeInv, MemDone PROVE RangeInv'
  OBVIOUS
<1>1. /\ phase = "mem" /\ phase' = "trim" /\ todo = {}
      /\ UNCHANGED <<input, preAccess, textrange>>
      /\ memrange' = Append(memrange, r) /\ i' = 1
  BY DEF MemDone
<1>2. AccessInv' /\ preAccess \in SUBSET Nat /\ \A b \in preAccess : BlockOf(b) = b
  BY <1>1, AccessStep DEF RangeInv, AccessInv
<1>3. Building(Block, memrange, preAccess) /\ Built(PageSize, textrange, input.text)
  BY <1>1 DEF RangeInv, TextInv, MemInv
<1>4. Built(Block, memrange', preAccess)
  BY <1>1, <1>3, BuildEnd
<1>5. Built(PageSize, textrange, input.text)'
  BY <1>1, <1>3 DEF Built
<1>6. Block \in Nat \ {0}
  BY InputAssumption
<1>7. memrange' \in Seq(RangeType) /\ Sorted'
  BY <1>4 DEF Built, Good, Sorted
<1>8. ASSUME NEW p \in Nat, BlockOf(p) \in preAccess
      PROVE  \E n \in 1..Len(memrange') : memrange'[n].addr <= p /\ p < upto(memrange'[n])
  <2> DEFINE b == BlockOf(p)
  <2>1. b \in Nat /\ b = Unit(Block, p) /\ Unit(Block, b) = b
    BY BlockAligned
  <2>2. b <= p /\ p < b + Block
    BY <1>6, <2>1, UnitFacts
  <2>3. Covers(Block, memrange', b)
    BY <1>4, <1>8 DEF Built
  <2> HIDE DEF b
  <2>4. PICK n \in 1..Len(memrange') :
               memrange'[n].addr <= b /\ b + Block <= upto(memrange'[n])
    BY <2>1, <2>3 DEF Covers
  <2>5. memrange'[n].addr \in Nat /\ memrange'[n].size \in Nat \ {0}
    BY <1>4 DEF Built, Good
  <2>6. upto(memrange'[n]) \in Nat
    BY <2>5 DEF upto
  <2>7. memrange'[n].addr <= p /\ p < upto(memrange'[n])
    BY <1>6, <2>1, <2>2, <2>4, <2>5, <2>6
  <2>8. QED
    BY <2>7
<1>9. Kept'
  BY <1>1, <1>8 DEF Kept
<1>10. TextInv' /\ MemInv' /\ MapInv'
  BY <1>1, <1>5, <1>7, <1>9 DEF TextInv, MemInv, MapInv
<1>11. QED
  BY <1>1, <1>2, <1>10 DEF RangeInv

(* Dropping the first element of a sequence, ... *)
LEMMA DropFirst ==
  ASSUME NEW S, NEW s \in Seq(S), Len(s) >= 1
  PROVE  LET t == SubSeq(s, 1, 0) \o <<>> \o SubSeq(s, 2, Len(s)) IN
         t \in Seq(S) /\ Len(t) = Len(s) - 1 /\ \A n \in 1..(Len(s) - 1) : t[n] = s[n + 1]
<1> DEFINE front == SubSeq(s, 1, 0)
           rest == SubSeq(s, 2, Len(s))
<1>1. front = <<>>
  OBVIOUS
<1>2. s # <<>>
  OBVIOUS
<1>3. rest = Tail(s)
  BY <1>2, TailIsSubSeq
<1>4. rest \in Seq(S) /\ Len(rest) = Len(s) - 1 /\ \A n \in 1..(Len(s) - 1) : rest[n] = s[n + 1]
  BY <1>2, <1>3, HeadTailProperties
<1> HIDE DEF front, rest
<1>5. front \o <<>> = <<>> /\ <<>> \o rest = rest
  BY <1>1, <1>4
<1>6. (front \o <<>>) \o rest = rest
  BY <1>5
<1>7. QED
  BY <1>4, <1>6 DEF front, rest

(* ... and replacing it. *)
LEMMA ReplaceFirst ==
  ASSUME NEW S, NEW s \in Seq(S), Len(s) >= 1, NEW y \in S
  PROVE  LET t == SubSeq(s, 1, 0) \o <<y>> \o SubSeq(s, 2, Len(s)) IN
         /\ t \in Seq(S) /\ Len(t) = Len(s) /\ t[1] = y
         /\ \A n \in 2..Len(s) : t[n] = s[n]
<1> DEFINE front == SubSeq(s, 1, 0)
           rest == SubSeq(s, 2, Len(s))
<1>1. Len(s) \in Nat
  OBVIOUS
<1>2. front = <<>> /\ s # <<>>
  OBVIOUS
<1>3. rest = Tail(s)
  BY <1>2, TailIsSubSeq
<1>4. rest \in Seq(S) /\ Len(rest) = Len(s) - 1 /\ \A n \in 1..(Len(s) - 1) : rest[n] = s[n + 1]
  BY <1>2, <1>3, HeadTailProperties
<1> HIDE DEF front, rest
<1>5. front \o <<y>> = <<y>> /\ <<y>> \in Seq(S)
  BY <1>2
<1> DEFINE t == <<y>> \o rest
<1>6. /\ t \in Seq(S) /\ Len(t) = Len(s) /\ t[1] = y
      /\ \A n \in 2..Len(s) : t[n] = rest[n - 1]
  BY <1>1, <1>4, <1>5
<1> HIDE DEF t
<1>7. \A n \in 2..Len(s) : rest[n - 1] = s[n]
  <2> SUFFICES ASSUME NEW n \in 2..Len(s) PROVE rest[n - 1] = s[n]
    OBVIOUS
  <2>1. n - 1 \in 1..(Len(s) - 1) /\ (n - 1) + 1 = n
    BY <1>1
  <2>2. QED
    BY <1>4, <2>1
<1>8. (front \o <<y>>) \o rest = t
  BY <1>5 DEF t
<1>9. QED
  BY <1>6, <1>7, <1>8 DEF front, rest

(* Trimming takes away nothing that lies behind the code. *)
LEMMA TrimInv ==
  RangeInv /\ Trim => RangeInv'
<1> SUFFICES ASSUME RangeInv, Trim PROVE RangeInv'
  OBVIOUS
<1> DEFINE kept == trimmed(memrange[i])
           L == Len(memrange)
           x == memrange[1]
<1>1. /\ phase = "trim" /\ phase' = "trim" /\ i <= L /\ memrange[i].addr < textend
      /\ UNCHANGED <<input, preAccess, textrange>>
      /\ memrange' = SubSeq(memrange, 1, i - 1) \o kept \o SubSeq(memrange, i + 1, L)
      /\ i' = i + Len(kept)
  BY DEF Trim
<1>2. AccessInv' /\ input \in Inputs
  BY <1>1, AccessStep DEF RangeInv, AccessInv
<1>3. Built(PageSize, textrange, input.text)
  BY <1>1 DEF RangeInv, TextInv
<1>4. /\ memrange \in Seq(RangeType) /\ Sorted /\ Kept /\ i \in Nat \ {0}
      /\ \/ i = 1
         \/ i = 2 /\ L >= 1 /\ textend <= x.addr
  BY <1>1 DEF RangeInv, MemInv
<1>5. textend \in Nat /\ textend' = textend
  BY <1>1, <1>2, <1>3, TextEndFacts DEF textend, textEnd, last
<1>6. L \in Nat /\ \A n \in 1..L : memrange[n] \in RangeType
  BY <1>4, ElementOfSeq
<1>7. \A n \in 1..L : /\ memrange[n].addr \in Nat /\ memrange[n].size \in Nat \ {0}
                      /\ upto(memrange[n]) \in Nat /\ memrange[n].addr < upto(memrange[n])
  <2>1. \A n \in 1..L : memrange[n].addr \in Nat /\ memrange[n].size \in Nat \ {0}
    BY <1>6 DEF RangeType
  <2>2. QED
    BY <2>1 DEF upto
<1>8. i = 1 /\ L >= 1
  <2>1. CASE i = 1
    BY <1>1, <1>6, <2>1
  <2>2. CASE i = 2
    <3>1. 1 \in 1..L /\ 2 \in 1..L
      BY <1>1, <1>6, <2>2
    <3>2. upto(memrange[1]) < memrange[2].addr
      BY <1>4, <3>1 DEF Sorted
    <3>3. CASE i # 1
      BY <1>1, <1>4, <1>5, <1>7, <2>2, <3>1, <3>2
    <3>4. QED
      BY <2>1, <3>3
  <2>3. QED
    BY <1>4, <2>1, <2>2
<1>9. x.addr < textend /\ 1 \in 1..L /\ x \in RangeType
  BY <1>1, <1>6, <1>8
<1>10. memrange' = SubSeq(memrange, 1, 0) \o kept \o SubSeq(memrange, 2, L)
  BY <1>1, <1>8
<1>11. kept = IF upto(x) > textend
                THEN <<[addr |-> textend, size |-> x.addr + x.size - textend]>> ELSE <<>>
  <2>1. kept = trimmed(x)
    BY <1>8
  <2> HIDE DEF kept, x
  <2>2. QED
    BY <2>1, Zenon DEF trimmed, upto
<1> HIDE DEF kept, L
<1>12. ASSUME upto(x) > textend PROVE MemInv'
  <2> DEFINE y == [addr |-> textend, size |-> x.addr + x.size - textend]
  <2>1. upto(x) \in Nat /\ x.addr \in Nat /\ x.size \in Nat
    BY <1>7, <1>9
  <2>2. y \in RangeType /\ y.addr = textend /\ upto(y) = upto(x)
    BY <1>5, <1>12, <2>1 DEF RangeType, upto
  <2>3. kept = <<y>> /\ Len(kept) = 1
    BY <1>11, <1>12
  <2> HIDE DEF y, x
  <2>4. /\ memrange' \in Seq(RangeType) /\ Len(memrange') = L /\ memrange'[1] = y
        /\ \A n \in 2..L : memrange'[n] = memrange[n]
    BY <1>4, <1>8, <1>10, <2>2, <2>3, ReplaceFirst DEF L
  <2>5. \A n \in 1..L : upto(memrange'[n]) = upto(memrange[n])
    <3>1. \A n \in 1..L : n = 1 \/ n \in 2..L
      BY <1>6
    <3>2. QED
      BY <2>2, <2>4, <3>1 DEF x
  <2>6. Sorted'
    <3> SUFFICES ASSUME NEW m \in 1..L, NEW n \in 1..L, m < n
                 PROVE  upto(memrange'[m]) < memrange'[n].addr
      BY <2>4 DEF Sorted
    <3>1. n \in 2..L
      BY <1>6
    <3>2. upto(memrange[m]) < memrange[n].addr
      BY <1>4 DEF Sorted, L
    <3>3. QED
      BY <2>4, <2>5, <3>1, <3>2
  <2>7. Kept'
    <3> SUFFICES ASSUME NEW p \in Nat, BlockOf(p) \in preAccess, textend <= p
                 PROVE  \E n \in 1..L : memrange'[n].addr <= p /\ p < upto(memrange'[n])
      BY <1>1, <1>5, <2>4 DEF Kept
    <3>1. PICK n \in 1..L : memrange[n].addr <= p /\ p < upto(memrange[n])
      BY <1>4 DEF Kept, L
    <3>2. n = 1 \/ n \in 2..L
      BY <1>6
    <3>3. CASE n = 1
      BY <2>2, <2>4, <2>5, <3>1, <3>3
    <3>4. CASE n \in 2..L
      BY <2>4, <2>5, <3>1, <3>4
    <3>5. QED
      BY <3>2, <3>3, <3>4
  <2>8. i' = 2 /\ Len(memrange') >= 1 /\ textend' <= memrange'[1].addr
    BY <1>1, <1>5, <1>8, <2>2, <2>3, <2>4
  <2>9. i' \in Nat \ {0}
    BY <2>8
  <2>10. phase' \notin {"access", "text", "mem", "map", "done"} /\ phase' = "trim"
    BY <1>1
  <2>11. QED
    BY <2>4, <2>6, <2>7, <2>8, <2>9, <2>10, Zenon DEF MemInv
<1>13. ASSUME ~(upto(x) > textend) PROVE MemInv'
  <2>1. kept = <<>> /\ Len(kept) = 0
    BY <1>11, <1>13
  <2>2. /\ memrange' \in Seq(RangeType) /\ Len(memrange') = L - 1
        /\ \A n \in 1..Len(memrange') : memrange'[n] = memrange[n + 1]
    <3>1. memrange' = SubSeq(memrange, 1, 0) \o <<>> \o SubSeq(memrange, 2, Len(memrange))
      BY <1>10, <2>1 DEF L
    <3>2. /\ memrange' \in Seq(RangeType) /\ Len(memrange') = Len(memrange) - 1
          /\ \A n \in 1..(Len(memrange) - 1) : memrange'[n] = memrange[n + 1]
      BY <1>4, <1>8, <3>1, DropFirst DEF L
    <3>3. QED
      BY <3>2 DEF L
  <2>3. Sorted'
    <3> SUFFICES ASSUME NEW m \in 1..Len(memrange'), NEW n \in 1..Len(memrange'), m < n
                 PROVE  upto(memrange'[m]) < memrange'[n].addr
      BY DEF Sorted
    <3>1. m + 1 \in 1..L /\ n + 1 \in 1..L /\ m + 1 < n + 1
      BY <1>6, <2>2
    <3>2. upto(memrange[m + 1]) < memrange[n + 1].addr
      BY <1>4, <3>1 DEF Sorted, L
    <3>3. QED
      BY <2>2, <3>2
  <2>4. Kept'
    <3> SUFFICES ASSUME NEW p \in Nat, BlockOf(p) \in preAccess, textend <= p
                 PROVE  \E n \in 1..Len(memrange') :
                          memrange'[n].addr <= p /\ p < upto(memrange'[n])
      BY <1>1, <1>5 DEF Kept
    <3>1. PICK n \in 1..L : memrange[n].addr <= p /\ p < upto(memrange[n])
      BY <1>4 DEF Kept, L
    <3>2. upto(memrange[1]) \in Nat /\ upto(memrange[1]) <= textend
      BY <1>5, <1>7, <1>9, <1>13
    <3>3. n # 1
      BY <1>5, <3>1, <3>2
    <3>4. n - 1 \in 1..Len(memrange') /\ (n - 1) + 1 = n
      BY <1>6, <2>2, <3>3
    <3>5. memrange'[n - 1] = memrange[n]
      BY <2>2, <3>4
    <3>6. QED
      BY <3>1, <3>4, <3>5
  <2>5. i' = 1
    BY <1>1, <1>8, <2>1
  <2>6. QED
    BY <1>1, <2>2, <2>3, <2>4, <2>5 DEF MemInv
<1>14. Built(PageSize, textrange, input.text)'
  BY <1>1, <1>3 DEF Built
<1>15. TextInv' /\ MapInv' /\ MemInv'
  BY <1>1, <1>12, <1>13, <1>14 DEF TextInv, MapInv
<1>16. QED
  BY <1>1, <1>2, <1>15 DEF RangeInv

(* A page of the code lies below the end of the code and above its start. *)
LEMMA CodePage ==
  ASSUME input \in Inputs, Built(PageSize, textrange, input.text), NEW t \in input.text
  PROVE  /\ Page(t) \in Nat /\ Page(t) < textEnd /\ textrange[1].addr <= Page(t)
         /\ \E n \in 1..Len(textrange) : Page(t) \in PagesOf(textrange[n].addr, textrange[n].size)
<1>1. PageSize \in Nat \ {0} /\ t \in Nat
  BY SliceFacts
<1> DEFINE p == Page(t)
<1>2. p \in Nat /\ p = Unit(PageSize, t) /\ Page(p) = p
  BY <1>1, PageFacts
<1>3. Covers(PageSize, textrange, t)
  BY DEF Built
<1> HIDE DEF p
<1>4. PICK n \in 1..Len(textrange) :
             textrange[n].addr <= p /\ p + PageSize <= upto(textrange[n])
  BY <1>2, <1>3 DEF Covers
<1>5. textrange[n].addr \in Nat /\ textrange[n].size \in Nat \ {0}
  BY DEF Built, Good
<1>6. /\ textEnd \in Nat /\ upto(textrange[n]) <= textEnd
      /\ textrange[1].addr \in Nat /\ textrange[1].addr <= textrange[n].addr
  BY TextEndFacts
<1>7. p \in textrange[n].addr .. (textrange[n].addr + textrange[n].size - 1)
  BY <1>1, <1>2, <1>4, <1>5 DEF upto
<1>8. p \in PagesOf(textrange[n].addr, textrange[n].size)
  BY <1>2, <1>7 DEF PagesOf
<1>9. upto(textrange[n]) \in Nat
  BY <1>5 DEF upto
<1>10. p < textEnd /\ textrange[1].addr <= p
  BY <1>1, <1>2, <1>4, <1>5, <1>6, <1>9
<1>11. QED
  BY <1>2, <1>8, <1>10 DEF p

(* loadelf: nothing is left to trim, and every code page is read. *)
LEMMA LoadElfInv ==
  RangeInv /\ loadelf => RangeInv'
<1> SUFFICES ASSUME RangeInv, loadelf PROVE RangeInv'
  OBVIOUS
<1> DEFINE L == Len(memrange)
<1>1. /\ phase = "trim" /\ phase' = "map"
      /\ i <= L => memrange[i].addr >= textend
      /\ mapped' = PagesOf(text_seg.addr, text_seg.size)
      /\ code' = UNION {PagesOf(textrange[n].addr, textrange[n].size) : n \in DOMAIN textrange}
      /\ i' = 1
      /\ UNCHANGED <<input, preAccess, textrange, memrange>>
  BY DEF loadelf
<1>2. AccessInv' /\ input \in Inputs
  BY <1>1, AccessStep DEF RangeInv, AccessInv
<1>3. Built(PageSize, textrange, input.text) /\ textrange \in Seq(RangeType)
  BY <1>1 DEF RangeInv, TextInv, Built, Good
<1>4. /\ memrange \in Seq(RangeType) /\ Sorted /\ Kept /\ i \in Nat \ {0}
      /\ \/ i = 1
         \/ i = 2 /\ L >= 1 /\ textend <= memrange[1].addr
  BY <1>1 DEF RangeInv, MemInv
<1>5. textend \in Nat /\ textend' = textend /\ textEnd' = textEnd /\ text_seg' = text_seg
  BY <1>1, <1>2, <1>3, TextEndFacts DEF textend, textEnd, last, text_seg
<1>6. L \in Nat /\ \A n \in 1..L : memrange[n].addr \in Nat /\ memrange[n].size \in Nat \ {0}
  <2>1. \A n \in 1..L : memrange[n] \in RangeType
    BY <1>4, ElementOfSeq
  <2>2. QED
    BY <1>4, <2>1 DEF RangeType
<1>7. AboveText
  <2> SUFFICES ASSUME NEW n \in 1..L PROVE textend <= memrange[n].addr
    BY DEF AboveText
  <2>1. 1 \in 1..L /\ L >= 1
    BY <1>6
  <2>2. textend <= memrange[1].addr
    BY <1>1, <1>4, <1>5, <1>6, <2>1
  <2>3. CASE 1 < n
    <3>1. upto(memrange[1]) < memrange[n].addr
      BY <1>4, <2>1, <2>3 DEF Sorted
    <3>2. QED
      BY <1>5, <1>6, <2>1, <2>2, <3>1 DEF upto
  <2>4. QED
    BY <1>6, <2>2, <2>3
<1>8. \A t \in input.text : Page(t) \in code'
  <2> SUFFICES ASSUME NEW t \in input.text PROVE Page(t) \in code'
    OBVIOUS
  <2>1. PICK n \in 1..Len(textrange) : Page(t) \in PagesOf(textrange[n].addr, textrange[n].size)
    BY <1>2, <1>3, CodePage
  <2>2. n \in DOMAIN textrange
    BY <1>3
  <2>3. QED
    BY <1>1, <2>1, <2>2
<1>9. TextInv'
  BY <1>1, <1>3 DEF TextInv, Built
<1>10. MemInv'
  <2>1. Sorted' /\ Kept' /\ AboveText'
    BY <1>1, <1>4, <1>5, <1>7 DEF Sorted, Kept, AboveText
  <2>2. i' \in Nat \ {0} /\ memrange' \in Seq(RangeType)
    BY <1>1, <1>4
  <2>3. QED
    BY <1>1, <2>1, <2>2 DEF MemInv
<1>11. MapInv'
  <2>1. \A n \in 1..L : ~(n < i')
    BY <1>1, <1>6
  <2>2. PagesOf(text_seg.addr, text_seg.size)' = PagesOf(text_seg.addr, text_seg.size)
    BY <1>5 DEF PagesOf, Page
  <2>3. Len(memrange') = L
    BY <1>1
  <2>4. QED
    BY <1>1, <1>8, <2>1, <2>2, <2>3 DEF MapInv
<1>12. QED
  BY <1>1, <1>2, <1>9, <1>10, <1>11 DEF RangeInv

(* alloc_memrange: a range behind the code wipes no page of the code. *)
LEMMA AllocInv ==
  RangeInv /\ alloc_memrange => RangeInv'
<1> SUFFICES ASSUME RangeInv, alloc_memrange PROVE RangeInv'
  OBVIOUS
<1> DEFINE L == Len(memrange)
           P(n) == PagesOf(memrange[n].addr, memrange[n].size + PageSize)
<1>1. /\ phase = "map" /\ phase' = "map" /\ i <= L
      /\ mapped' = mapped \cup P(i) /\ code' = code \ P(i) /\ i' = i + 1
      /\ UNCHANGED <<input, preAccess, textrange, memrange>>
  BY DEF alloc_memrange
<1>2. AccessInv' /\ input \in Inputs
  BY <1>1, AccessStep DEF RangeInv, AccessInv
<1>3. Built(PageSize, textrange, input.text)
  BY <1>1 DEF RangeInv, TextInv
<1>4. memrange \in Seq(RangeType) /\ Sorted /\ Kept /\ i \in Nat \ {0} /\ AboveText
  BY <1>1 DEF RangeInv, MemInv
<1>5. textend \in Nat /\ textend' = textend /\ textEnd' = textEnd /\ text_seg' = text_seg
  BY <1>1, <1>2, <1>3, TextEndFacts DEF textend, textEnd, last, text_seg
<1>6. /\ PagesOf(text_seg.addr, text_seg.size) \subseteq mapped
      /\ \A n \in 1..L : n < i => P(n) \subseteq mapped
      /\ textend = textEnd => \A t \in input.text : Page(t) \in code
  BY <1>1 DEF RangeInv, MapInv
<1>7. L \in Nat /\ i \in 1..L
  BY <1>1, <1>4
<1>8. memrange[i].addr \in Nat /\ memrange[i].size \in Nat \ {0} /\ textend <= memrange[i].addr
  <2>1. memrange[i] \in RangeType
    BY <1>4, <1>7, ElementOfSeq
  <2>2. QED
    BY <1>4, <1>7, <2>1 DEF RangeType, AboveText
<1>9. ASSUME textend = textEnd, NEW t \in input.text PROVE Page(t) \in code'
  <2>1. Page(t) \in Nat /\ Page(t) < textEnd
    BY <1>2, <1>3, CodePage
  <2>2. ~(memrange[i].addr <= Page(t))
    BY <1>5, <1>8, <1>9, <2>1
  <2>3. PageSize \in Nat
    BY InputAssumption
  <2>4. Page(t) \notin memrange[i].addr .. (memrange[i].addr + (memrange[i].size + PageSize) - 1)
    BY <1>8, <2>1, <2>2, <2>3
  <2>5. Page(t) \notin P(i)
    BY <2>4 DEF PagesOf
  <2>6. QED
    BY <1>1, <1>6, <1>9, <2>5
<1>10. TextInv'
  BY <1>1, <1>3 DEF TextInv, Built
<1>11. MemInv'
  <2>1. Sorted' /\ Kept' /\ AboveText'
    BY <1>1, <1>4, <1>5 DEF Sorted, Kept, AboveText
  <2>2. i' \in Nat \ {0} /\ memrange' \in Seq(RangeType)
    BY <1>1, <1>4
  <2>3. QED
    BY <1>1, <2>1, <2>2 DEF MemInv
<1>12. MapInv'
  <2>1. \A n \in 1..L : n < i' => n < i \/ n = i
    BY <1>1, <1>7
  <2>2. PagesOf(text_seg.addr, text_seg.size)' = PagesOf(text_seg.addr, text_seg.size)
    BY <1>5 DEF PagesOf, Page
  <2>3. \A n \in 1..L : n < i' => P(n) \subseteq mapped'
    BY <1>1, <1>6, <2>1
  <2>4. PagesOf(text_seg.addr, text_seg.size)' \subseteq mapped'
    BY <1>1, <1>6, <2>2
  <2>5. \A n \in 1..Len(memrange') : n < i' =>
          PagesOf(memrange'[n].addr, memrange'[n].size + PageSize) \subseteq mapped'
    BY <1>1, <2>3
  <2>6. textend' = textEnd' => \A t \in input'.text : Page(t) \in code'
    BY <1>1, <1>5, <1>9
  <2>7. phase' # "done"
    BY <1>1
  <2>8. QED
    BY <2>4, <2>5, <2>6, <2>7 DEF MapInv
<1>13. QED
  BY <1>1, <1>2, <1>10, <1>11, <1>12 DEF RangeInv

(* The end of the loader's loop. *)
LEMMA MappedInv ==
  RangeInv /\ Mapped => RangeInv'
<1> SUFFICES ASSUME RangeInv, Mapped PROVE RangeInv'
  OBVIOUS
<1>1. /\ phase = "map" /\ phase' = "done" /\ i > Len(memrange)
      /\ UNCHANGED <<input, preAccess, textrange, memrange, i, mapped, code>>
  BY DEF Mapped
<1>2. AccessInv'
  BY <1>1, AccessStep DEF RangeInv
<1>3. textend' = textend /\ textEnd' = textEnd /\ text_seg' = text_seg
  BY <1>1 DEF textend, textEnd, last, text_seg
<1>4. TextInv'
  BY <1>1 DEF RangeInv, TextInv, Built
<1>5. MemInv'
  BY <1>1, <1>3 DEF RangeInv, MemInv, Sorted, Kept, AboveText
<1>6. MapInv'
  <2>1. PagesOf(text_seg.addr, text_seg.size)' = PagesOf(text_seg.addr, text_seg.size)
    BY <1>3 DEF PagesOf, Page
  <2>2. QED
    BY <1>1, <1>3, <2>1 DEF RangeInv, MapInv
<1>7. QED
  BY <1>1, <1>2, <1>4, <1>5, <1>6 DEF RangeInv

(* A stuttering step. *)
LEMMA RangeStutter ==
  RangeInv /\ UNCHANGED vars => RangeInv'
<1> SUFFICES ASSUME RangeInv, UNCHANGED vars PROVE RangeInv'
  OBVIOUS
<1>1. UNCHANGED <<input, phase, preAccess, todo, r, textrange, memrange, i, mapped, code>>
  BY DEF vars
<1>2. /\ textend' = textend /\ textEnd' = textEnd /\ text_seg' = text_seg
      /\ Touched' = Touched
  BY <1>1 DEF textend, textEnd, last, text_seg, Touched
<1>3. AccessInv'
  BY <1>1, <1>2 DEF RangeInv, AccessInv
<1>4. TextInv'
  BY <1>1 DEF RangeInv, TextInv, Built, Building
<1>5. MemInv'
  BY <1>1, <1>2 DEF RangeInv, MemInv, Sorted, Kept, AboveText, Building
<1>6. MapInv'
  <2>1. PagesOf(text_seg.addr, text_seg.size)' = PagesOf(text_seg.addr, text_seg.size)
    BY <1>2 DEF PagesOf, Page
  <2>2. QED
    BY <1>1, <1>2, <2>1 DEF RangeInv, MapInv
<1>7. QED
  BY <1>1, <1>3, <1>4, <1>5, <1>6 DEF RangeInv

(* Every step of the range computation and of the loader keeps the         *)
(* invariant, whatever the slice.                                          *)
THEOREM RangesCorrect == Spec => []RangeInv
<1>1. Init => RangeInv
  BY RangeInit
<1>2. RangeInv /\ [Next]_vars => RangeInv'
  BY AddPagesInv, TextRangeInv, TextDoneInv, MemRangeInv, MemDoneInv, TrimInv,
     LoadElfInv, AllocInv, MappedInv, RangeStutter DEF Next
<1>3. QED
  BY <1>1, <1>2, PTL DEF Spec

-----------------------------------------------------------------------------
(* The ranges that detectOver writes are sorted and do not touch, whatever *)
(* the slice: also when the int textend overflows and cuts too much.       *)
THEOREM RangesAreSorted == Spec => []RangesSorted
<1>1. ASSUME RangeInv PROVE RangesSorted
  <2> SUFFICES ASSUME phase \in {"map", "done"} PROVE RangesSorted
    BY DEF RangesSorted
  <2>1. Built(PageSize, textrange, input.text) /\ memrange \in Seq(RangeType) /\ Sorted
    BY <1>1 DEF RangeInv, TextInv, MemInv
  <2>2. Len(textrange) \in Nat /\ Len(memrange) \in Nat
    BY <2>1 DEF Built, Good
  <2>3. \A m, n \in 1..Len(textrange) : m < n => upto(textrange[m]) < textrange[n].addr
    BY <2>1 DEF Built, Good
  <2>4. ASSUME NEW n \in 1..(Len(textrange) - 1)
        PROVE  textrange[n].addr + textrange[n].size < textrange[n + 1].addr
    <3>1. n \in 1..Len(textrange) /\ n + 1 \in 1..Len(textrange) /\ n < n + 1
      BY <2>2
    <3>2. QED
      BY <2>3, <3>1 DEF upto
  <2>5. ASSUME NEW n \in 1..(Len(memrange) - 1)
        PROVE  memrange[n].addr + memrange[n].size < memrange[n + 1].addr
    <3>1. n \in 1..Len(memrange) /\ n + 1 \in 1..Len(memrange) /\ n < n + 1
      BY <2>2
    <3>2. QED
      BY <2>1, <3>1 DEF Sorted, upto
  <2>6. QED
    BY <2>4, <2>5 DEF RangesSorted
<1>2. QED
  BY <1>1, RangesCorrect, PTL

(* The flags of initCkptSysInfo: the index of a page is set exactly when   *)
(* the page lies in a code range.                                          *)
LEMMA PageIndex ==
  ASSUME NEW u \in Nat \ {0}, NEW first \in Nat, NEW x \in RangeType, NEW a \in Nat,
         Unit(u, first) = first, Unit(u, x.addr) = x.addr, Unit(u, upto(x)) = upto(x),
         first <= x.addr
  PROVE  LET start == (x.addr - first) \div u IN
         (a \div u) - (first \div u) \in start .. (start + x.size \div u - 1)
           <=> x.addr <= Unit(u, a) /\ Unit(u, a) + u <= upto(x)
<1> DEFINE f == first \div u
           b == x.addr \div u
           e == upto(x) \div u
           q == a \div u
<1>1. x.addr \in Nat /\ x.size \in Nat \ {0} /\ upto(x) = x.addr + x.size /\ upto(x) \in Nat
  BY DEF RangeType, upto
<1>2. /\ f \in Nat /\ b \in Nat /\ e \in Nat /\ q \in Nat
      /\ first = f * u /\ x.addr = b * u /\ upto(x) = e * u /\ Unit(u, a) = q * u
  BY <1>1 DEF Unit
<1> HIDE DEF f, b, e, q
<1>3. f <= b /\ b < e
  <2>1. b * u < e * u
    BY <1>1, <1>2
  <2>2. f * u <= b * u
    BY <1>2
  <2>3. QED
    BY <1>2, <2>1, <2>2
<1>4. x.addr - first = (b - f) * u /\ x.size = (e - b) * u
  <2>1. (b - f) * u = b * u - f * u /\ (e - b) * u = e * u - b * u
    BY <1>2
  <2>2. QED
    BY <1>1, <1>2, <2>1
<1>5. \A k \in Nat : (k * u) \div u = k
  OBVIOUS
<1>6. (x.addr - first) \div u = b - f /\ x.size \div u = e - b
  BY <1>2, <1>3, <1>4, <1>5
<1>7. q - f \in (b - f) .. ((b - f) + (e - b) - 1) <=> b <= q /\ q < e
  BY <1>2
<1>8. b <= q <=> b * u <= q * u
  BY <1>2
<1>9. q < e <=> q * u + u <= e * u
  <2>1. (q + 1) * u = q * u + u
    BY <1>2
  <2>2. q + 1 <= e <=> (q + 1) * u <= e * u
    BY <1>2
  <2>3. QED
    BY <1>2, <2>1, <2>2
<1>10. QED
  BY <1>2, <1>6, <1>7, <1>8, <1>9 DEF f, q

(* In a re-creation exactly the pages from which the slice executed count  *)
(* as the program.                                                         *)
THEOREM BenchIsCode == Spec => []BenchExactlyCode
<1>1. ASSUME RangeInv PROVE BenchExactlyCode
  <2> DEFINE first == textrange[1].addr
             L == Len(textrange)
  <2> SUFFICES ASSUME phase = "done", NEW a \in first - PageSize .. textEnd + PageSize
               PROVE  isCkptInst(a) <=> \E t \in input.text : Page(t) = Page(a)
    BY DEF BenchExactlyCode
  <2>1. input \in Inputs /\ Built(PageSize, textrange, input.text)
    BY <1>1 DEF RangeInv, AccessInv, TextInv
  <2>2. PageSize \in Nat \ {0} /\ input.text \in SUBSET Nat
    BY <2>1, SliceFacts
  <2>3. /\ textEnd \in Nat /\ first \in Nat /\ L \in Nat \ {0}
        /\ \A n \in 1..L : upto(textrange[n]) <= textEnd /\ first <= textrange[n].addr
    BY <2>1, TextEndFacts
  <2>4. textrange \in Seq(RangeType) /\ DOMAIN textrange = 1..L
    BY <2>1 DEF Built, Good
  <2>5. \A n \in 1..L : /\ textrange[n] \in RangeType
                        /\ textrange[n].addr \in Nat /\ textrange[n].size \in Nat \ {0}
                        /\ Unit(PageSize, textrange[n].addr) = textrange[n].addr
                        /\ Unit(PageSize, upto(textrange[n])) = upto(textrange[n])
    BY <2>1, ElementOfSeq DEF Built, Good
  <2>6. Unit(PageSize, first) = first
    BY <2>3, <2>5
  <2>7. a \in Int
    BY <2>2, <2>3
  <2> DEFINE index == (a \div PageSize) - (first \div PageSize)
             start(n) == (textrange[n].addr - first) \div PageSize
             flags(n) == start(n) .. (start(n) + textrange[n].size \div PageSize - 1)
             inside(n) == textrange[n].addr <= Page(a) /\ Page(a) + PageSize <= upto(textrange[n])
  <2>8. isCkptInst(a) <=> first <= a /\ a < textEnd /\ \E n \in 1..L : index \in flags(n)
    <3>1. ckptinst_map = UNION {flags(n) : n \in 1..L}
      BY <2>4 DEF ckptinst_map
    <3>2. index \in ckptinst_map <=> \E n \in 1..L : index \in flags(n)
      BY <3>1
    <3>3. QED
      BY <3>2 DEF isCkptInst
  <2>9. a \in Nat => \A n \in 1..L : index \in flags(n) <=> inside(n)
    <3> SUFFICES ASSUME a \in Nat, NEW n \in 1..L PROVE index \in flags(n) <=> inside(n)
      OBVIOUS
    <3>1. Page(a) = Unit(PageSize, a)
      BY PageFacts
    <3>2. QED
      BY <2>2, <2>3, <2>5, <2>6, <3>1, PageIndex, ZenonT(30)
  <2> HIDE DEF index, flags, first
  <2>10. ASSUME isCkptInst(a) PROVE \E t \in input.text : Page(t) = Page(a)
    <3>1. a \in Nat
      BY <2>3, <2>7, <2>8, <2>10
    <3>2. PICK n \in 1..L : inside(n)
      BY <2>8, <2>9, <2>10, <3>1
    <3>3. Page(a) \in Nat /\ Page(a) = Unit(PageSize, a)
          /\ Unit(PageSize, Page(a)) = Page(a)
      BY <3>1, PageFacts
    <3>4. upto(textrange[n]) \in Nat
      BY <2>5 DEF upto
    <3>5. textrange[n].addr <= Page(a) /\ Page(a) < upto(textrange[n])
      BY <2>2, <3>2, <3>3, <3>4
    <3>6. PICK t \in input.text : Unit(PageSize, t) = Page(a)
      BY <2>1, <3>3, <3>5 DEF Built, Exact
    <3>7. Page(t) = Unit(PageSize, t)
      BY <2>2, PageFacts
    <3>8. QED
      BY <3>6, <3>7
  <2>11. ASSUME NEW t \in input.text, Page(t) = Page(a) PROVE isCkptInst(a)
    <3>1. t \in Nat /\ Page(t) \in Nat /\ Page(t) = Unit(PageSize, t)
      BY <2>2, PageFacts
    <3>2. a \in Nat /\ Page(a) <= a /\ a < Page(a) + PageSize
      <4>1. a \div PageSize \in Int
        BY <2>2, <2>7
      <4>2. a < 0 => (a \div PageSize) < 0
        BY <2>2, <2>7
      <4>3. a < 0 => (a \div PageSize) * PageSize < 0
        BY <2>2, <4>1, <4>2
      <4>4. a \in Nat
        BY <2>7, <2>11, <3>1, <4>3 DEF Page
      <4>5. QED
        BY <4>4, PageFacts
    <3>3. a \in Nat
      BY <3>2
    <3>4. PICK n \in 1..L : inside(n)
      BY <2>1, <2>11, <3>1 DEF Built, Covers
    <3>5. textrange[n].addr \in Nat /\ upto(textrange[n]) \in Nat
      BY <2>5 DEF upto
    <3>6. first <= a /\ a < textEnd
      BY <2>2, <2>3, <2>11, <3>1, <3>2, <3>3, <3>4, <3>5
    <3>7. QED
      BY <2>8, <2>9, <3>3, <3>4, <3>6
  <2>12. QED
    BY <2>10, <2>11
<1>2. QED
  BY <1>1, RangesCorrect, PTL

-----------------------------------------------------------------------------
(* The int textend holds the end of the code: the code lies below 2 GiB.   *)
SmallCode == \A x \in Inputs : \A t \in x.text : Page(t) + PageSize < IntMax

(* No slice accesses memory below its first code page. *)
DataAbove ==
  \A x \in Inputs : \E t \in x.text :
    \A a \in x.data \cup {b.addr : b \in x.bufs} : Page(t) <= a

(* The conversion then does nothing. *)
LEMMA SmallTextEnd ==
  ASSUME SmallCode, input \in Inputs, Built(PageSize, textrange, input.text)
  PROVE  textend = textEnd
<1> DEFINE L == Len(textrange)
           x == textrange[L]
           p == Unit(PageSize, textEnd - 1)
<1>1. PageSize \in Nat \ {0} /\ input.text \in SUBSET Nat /\ IntMax \in Nat
  BY SliceFacts, InputAssumption
<1>2. L \in 1..L
  BY DEF Built, Good
<1>3. /\ x.addr \in Nat /\ x.size \in Nat \ {0}
      /\ Unit(PageSize, x.addr) = x.addr /\ Unit(PageSize, upto(x)) = upto(x)
  BY <1>2 DEF Built, Good
<1>4. textEnd = upto(x) /\ upto(x) = x.addr + x.size
  BY DEF textEnd, last, upto
<1> HIDE DEF x
<1>5. textEnd \in Nat /\ textEnd - 1 \in Nat /\ x.addr <= textEnd - 1 /\ textEnd - 1 < textEnd
  BY <1>3, <1>4
<1>6. p \in Nat /\ Unit(PageSize, p) = p /\ textEnd - 1 < p + PageSize
  BY <1>1, <1>5, UnitFacts
<1>7. p + PageSize <= textEnd /\ x.addr <= p
  BY <1>1, <1>3, <1>4, <1>5, UnitBelow, UnitAbove
<1> HIDE DEF p
<1>8. p < upto(x)
  BY <1>1, <1>4, <1>5, <1>6, <1>7
<1>9. PICK t \in input.text : Unit(PageSize, t) = p
  BY <1>2, <1>6, <1>7, <1>8 DEF Built, Exact, x
<1>10. Page(t) = p
  BY <1>1, <1>9, PageFacts
<1>11. p + PageSize < IntMax
  BY <1>10 DEF SmallCode
<1>12. textEnd < IntMax
  BY <1>1, <1>5, <1>6, <1>11
<1>13. QED
  BY <1>12, TextEndFacts

(* Mapping the memory ranges wipes no page from which the slice executed,  *)
(* as long as the code lies below 2 GiB.                                   *)
THEOREM CodeStays == SmallCode /\ Spec => []CodeIntact
<1> SUFFICES ASSUME SmallCode PROVE Spec => []CodeIntact
  OBVIOUS
<1>1. ASSUME RangeInv PROVE CodeIntact
  <2> SUFFICES ASSUME phase = "done" PROVE \A a \in input.text : Page(a) \in code
    BY DEF CodeIntact
  <2>1. input \in Inputs /\ Built(PageSize, textrange, input.text)
    BY <1>1 DEF RangeInv, AccessInv, TextInv
  <2>2. textend = textEnd
    BY <2>1, SmallTextEnd
  <2>3. QED
    BY <1>1, <2>2 DEF RangeInv, MapInv
<1>2. QED
  BY <1>1, RangesCorrect, PTL

(* Everything that the restore and the replay touch is mapped, for slices  *)
(* whose code lies below 2 GiB and that access nothing below it.           *)
THEOREM TouchedMapped == SmallCode /\ DataAbove /\ Spec => []TouchedIsMapped
<1> SUFFICES ASSUME SmallCode, DataAbove PROVE Spec => []TouchedIsMapped
  OBVIOUS
<1>1. ASSUME RangeInv PROVE TouchedIsMapped
  <2> SUFFICES ASSUME phase = "done", NEW a \in Touched PROVE Page(a) \in mapped
    BY DEF TouchedIsMapped
  <2>1. input \in Inputs /\ Built(PageSize, textrange, input.text)
    BY <1>1 DEF RangeInv, AccessInv, TextInv
  <2>2. textend = textEnd
    BY <2>1, SmallTextEnd
  <2>3. /\ PageSize \in Nat \ {0} /\ Word \in 1..PageSize
        /\ input.text \in SUBSET Nat
        /\ input.data \in SUBSET Nat /\ input.words \subseteq input.data
        /\ \A b \in input.bufs : b.addr \in Nat /\ b.size \in Nat \ {0}
    BY <2>1, SliceFacts
  <2>4. PICK t \in input.text :
               \A x \in input.data \cup {b.addr : b \in input.bufs} : Page(t) <= x
    BY <2>1 DEF DataAbove
  <2>5. t \in Nat /\ Page(t) \in Nat /\ Unit(PageSize, Page(t)) = Page(t)
    BY <2>3, PageFacts
  <2>6. a \in Nat /\ Page(t) <= a
    <3>1. CASE a \in input.data
      BY <2>3, <2>4, <3>1
    <3>2. ASSUME NEW w \in input.words, NEW k \in 0..(Word - 1), a = w + k
          PROVE  a \in Nat /\ Page(t) <= a
      <4>1. w \in Nat /\ k \in Nat /\ Page(t) <= w
        BY <2>3, <2>4
      <4>2. QED
        BY <2>5, <3>2, <4>1
    <3>3. ASSUME NEW b \in input.bufs, a \in b.addr .. (b.addr + b.size - 1)
          PROVE  a \in Nat /\ Page(t) <= a
      <4>1. b.addr \in Nat /\ b.size \in Nat /\ Page(t) <= b.addr
        BY <2>3, <2>4
      <4>2. QED
        BY <2>5, <3>3, <4>1
    <3>4. QED
      BY <3>1, <3>2, <3>3 DEF Touched
  <2> DEFINE p == Page(a)
  <2>7. p \in Nat /\ p = Unit(PageSize, a) /\ Page(p) = p
    BY <2>6, PageFacts
  <2>8. BlockOf(p) \in preAccess
    BY <1>1 DEF RangeInv, AccessInv
  <2> HIDE DEF p
  <2>9. textEnd \in Nat /\ textrange[1].addr \in Nat /\ textrange[1].addr <= Page(t)
    BY <2>1, TextEndFacts, CodePage
  <2>10. CASE textEnd <= p
    <3>1. PICK n \in 1..Len(memrange) : memrange[n].addr <= p /\ p < upto(memrange[n])
      BY <1>1, <2>2, <2>7, <2>8, <2>10 DEF RangeInv, MemInv, Kept
    <3>2. memrange \in Seq(RangeType) /\ i > Len(memrange) /\ i \in Nat
      BY <1>1 DEF RangeInv, MemInv, MapInv
    <3>3. memrange[n] \in RangeType /\ n < i
      BY <3>2, ElementOfSeq
    <3>4. memrange[n].addr \in Nat /\ memrange[n].size \in Nat
      BY <3>3 DEF RangeType
    <3>5. p \in memrange[n].addr .. (memrange[n].addr + (memrange[n].size + PageSize) - 1)
      BY <2>3, <2>7, <3>1, <3>4 DEF upto
    <3>6. p \in PagesOf(memrange[n].addr, memrange[n].size + PageSize)
      BY <2>7, <3>5 DEF PagesOf
    <3>7. QED
      BY <1>1, <3>3, <3>6 DEF RangeInv, MapInv, p
  <2>11. CASE ~(textEnd <= p)
    <3>1. Page(t) <= p
      BY <2>3, <2>5, <2>6, <2>7, UnitAbove
    <3> DEFINE s == textrange[1].addr
               z == textEnd + PageSize - s
    <3>2. text_seg.addr = s /\ text_seg.size = z
      BY DEF text_seg
    <3>3. p \in s .. (s + z - 1)
      BY <2>3, <2>5, <2>7, <2>9, <2>11, <3>1
    <3>4. p \in PagesOf(text_seg.addr, text_seg.size)
      BY <2>7, <3>2, <3>3 DEF PagesOf
    <3>5. QED
      BY <1>1, <3>4 DEF RangeInv, MapInv, p
  <2>12. QED
    BY <2>10, <2>11
<1>2. QED
  BY <1>1, RangesCorrect, PTL
=============================================================================
