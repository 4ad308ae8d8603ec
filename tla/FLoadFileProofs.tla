-------------------------- MODULE FLoadFileProofs --------------------------
(***************************************************************************)
(* Proofs about the first loads on their way through the file, for every   *)
(* set of recorded bytes, word, window and chunk size.                     *)
(***************************************************************************)
EXTENDS FLoadFile, WellFoundedInduction, FiniteSetTheorems, SequenceTheorems, TLAPS

-----------------------------------------------------------------------------
(* Division with remainder. *)
LEMMA DivMod ==
  ASSUME NEW u \in Nat \ {0}, NEW o \in Nat
  PROVE  /\ o \div u \in Nat /\ o % u \in 0..(u - 1)
         /\ o = (o \div u) * u + (o % u) /\ (o \div u) * u <= o
  OBVIOUS

(* The quotient is determined by the interval. *)
LEMMA DivUnique ==
  ASSUME NEW u \in Nat \ {0}, NEW o \in Nat, NEW k \in Nat, k * u <= o, o < k * u + u
  PROVE  o \div u = k
<1> DEFINE q == o \div u
<1>1. q \in Nat /\ q * u <= o /\ o < q * u + u
  BY DivMod
<1> HIDE DEF q
<1>2. (q + 1) * u = q * u + u /\ (k + 1) * u = k * u + u
  BY <1>1
<1>3. k * u < (q + 1) * u /\ q * u < (k + 1) * u
  BY <1>1, <1>2
<1>4. k < q + 1 /\ q < k + 1
  BY <1>1, <1>3
<1>5. q = k
  BY <1>1, <1>4
<1>6. QED
  BY <1>5 DEF q

(* A window is a whole number of words. *)
LEMMA CoverFacts ==
  /\ Word \in Nat \ {0} /\ Cover \in Nat \ {0} /\ Word <= Cover
  /\ Cover \div Word \in Nat /\ Cover = (Cover \div Word) * Word
<1>1. Word \in Nat \ {0} /\ Cover \in Nat \ {0} /\ Cover % Word = 0
  BY FileAssumption
<1> DEFINE C == Cover \div Word
<1>2. C \in Nat /\ Cover = C * Word + (Cover % Word)
  BY <1>1, DivMod
<1> HIDE DEF C
<1>3. Cover = C * Word
  BY <1>1, <1>2
<1>4. C # 0
  BY <1>1, <1>3
<1>5. Word <= C * Word
  BY <1>1, <1>2, <1>4
<1>6. QED
  BY <1>1, <1>2, <1>3, <1>5 DEF C

(* The position of a byte in its window. *)
LEMMA SlotFacts ==
  ASSUME NEW o \in 0..(Cover - 1)
  PROVE  /\ o \div Word \in 0..(Cover \div Word - 1)
         /\ o % Word \in 0..(Word - 1)
         /\ (o \div Word) * Word + (o % Word) = o
<1> DEFINE k == o \div Word
           C == Cover \div Word
<1>1. Word \in Nat \ {0} /\ Cover \in Nat /\ C \in Nat /\ Cover = C * Word
  BY CoverFacts
<1>2. o \in Nat /\ o < Cover
  BY <1>1
<1>3. k \in Nat /\ o % Word \in 0..(Word - 1) /\ o = k * Word + (o % Word)
      /\ k * Word <= o
  BY <1>1, <1>2, DivMod
<1> HIDE DEF k, C
<1>4. k * Word < C * Word
  BY <1>1, <1>2, <1>3
<1>5. k < C
  BY <1>1, <1>3, <1>4
<1>6. k \in 0..(C - 1)
  BY <1>1, <1>3, <1>5
<1>7. QED
  BY <1>3, <1>6 DEF k, C

(* A nonempty set of natural numbers has a least element: the loops have a *)
(* next address.                                                           *)
LEMMA LeastNat ==
  ASSUME NEW S \in SUBSET Nat, S # {}
  PROVE  \E m \in S : \A n \in S : m <= n
<1> DEFINE R == OpToRel(<, Nat)
<1>1. IsWellFoundedOn(R, Nat)
  BY NatLessThanWellFounded
<1>2. \A m, n \in Nat : n < m => <<n, m>> \in R
  BY DEF OpToRel
<1> HIDE DEF R
<1>3. PICK m \in S : \A n \in S : ~(<<n, m>> \in R)
  BY <1>1, WFMin
<1>4. \A n \in S : ~(n < m)
  BY <1>2, <1>3
<1>5. QED
  BY <1>4

(* The least of a set of numbers, which both programs look for. *)
LEMMA LeastFacts ==
  ASSUME NEW S \in SUBSET Nat, S # {}
  PROVE  Least(S) \in S /\ Least(S) \in Nat /\ \A a \in S : Least(S) <= a
<1>1. \E m \in S : \A n \in S : m <= n
  BY LeastNat
<1>2. QED
  BY <1>1 DEF Least

-----------------------------------------------------------------------------
(* Types. *)
Values == {0} \cup UNION {{f[a] : a \in DOMAIN f} : f \in Inputs}

WordType == [addr : Nat \ {0}, data : [0..(Word - 1) -> Values]]

Slots == 0..(Cover \div Word - 1)

WindowType ==
  [addr : Nat, data : UNION {[D -> [0..(Word - 1) -> Values]] : D \in SUBSET Slots}]

(* Word c of ws holds the byte at address a. *)
holds(ws, c, a) == ws[c].addr <= a /\ a < ws[c].addr + Word

(* Words lo to hi give the byte at address a the value v: a byte that is   *)
(* in none of them is zero.                                                *)
IsByte(ws, lo, hi, a, v) ==
  \/ \E c \in lo..hi : holds(ws, c, a) /\ v = ws[c].data[a - ws[c].addr]
  \/ v = 0 /\ \A c \in lo..hi : ~holds(ws, c, a)

(* The words do not overlap. *)
Apart(ws) ==
  /\ ws \in Seq(WordType)
  /\ \A m, n \in 1..Len(ws) : m < n => ws[m].addr + Word <= ws[n].addr

(* The words say what was recorded. *)
WordsInv ==
  /\ Apart(firstloads)
  /\ \A a \in DOMAIN loads : IsByte(firstloads, 1, Len(firstloads), a, loads[a])

(* combine_loads: what was visited is in a word that is complete, was in a *)
(* word of zeros, or is in the word that is being filled.                  *)
Visited(ws, word, a) ==
  \/ a < word.addr /\ IsByte(ws, 1, Len(ws), a, loads[a])
  \/ /\ word.addr <= a /\ a < word.addr + Word
     /\ word.data[a - word.addr] = loads[a]

CombineInv ==
  /\ Apart(firstloads)
  /\ todo \subseteq DOMAIN loads
  /\ info \in WordType \cup {NoWord}
  /\ info = NoWord => firstloads = <<>> /\ todo = DOMAIN loads
  /\ info # NoWord =>
       /\ \A n \in 1..Len(firstloads) : firstloads[n].addr + Word <= info.addr
       /\ \A a \in todo : info.addr < a
       /\ \A a \in DOMAIN loads \ todo : Visited(firstloads, info, a)

-----------------------------------------------------------------------------
(* What the assumption says of the recorded bytes. *)
LEMMA LoadFacts ==
  ASSUME loads \in Inputs
  PROVE  /\ DOMAIN loads \subseteq Nat \ {0}
         /\ \A a \in DOMAIN loads : loads[a] \in Values
<1>1. DOMAIN loads \subseteq Nat \ {0}
  BY FileAssumption
<1>2. ASSUME NEW a \in DOMAIN loads PROVE loads[a] \in Values
  <2>1. loads[a] \in {loads[b] : b \in DOMAIN loads}
    OBVIOUS
  <2>2. QED
    BY <2>1 DEF Values
<1>3. QED
  BY <1>1, <1>2

(* A word is not the empty one. *)
LEMMA WordFacts ==
  ASSUME NEW x \in WordType
  PROVE  x # NoWord /\ x.addr \in Nat \ {0} /\ x.data \in [0..(Word - 1) -> Values]
  BY DEF WordType, NoWord

(* The words of a sequence. *)
LEMMA ApartFacts ==
  ASSUME NEW ws, Apart(ws)
  PROVE  /\ Len(ws) \in Nat
         /\ \A n \in 1..Len(ws) : ws[n] \in WordType /\ ws[n].addr \in Nat \ {0}
                                  /\ ws[n].data \in [0..(Word - 1) -> Values]
         /\ \A m, n \in 1..Len(ws) : m < n => ws[m].addr + Word <= ws[n].addr
<1>1. ws \in Seq(WordType)
  BY DEF Apart
<1>2. \A n \in 1..Len(ws) : ws[n] \in WordType
  BY <1>1, ElementOfSeq
<1>3. QED
  BY <1>1, <1>2, WordFacts DEF Apart

(* Disjoint words give a byte one value. *)
LEMMA ByteUnique ==
  ASSUME NEW ws, Apart(ws), NEW lo \in Nat \ {0}, NEW hi \in Nat, hi <= Len(ws),
         NEW a \in Nat, NEW v, NEW w, IsByte(ws, lo, hi, a, v), IsByte(ws, lo, hi, a, w)
  PROVE  v = w
<1>0. Len(ws) \in Nat
  BY ApartFacts
<1>1. ASSUME NEW c \in lo..hi, NEW d \in lo..hi, holds(ws, c, a), holds(ws, d, a) PROVE c = d
  <2>1. c \in 1..Len(ws) /\ d \in 1..Len(ws)
    BY <1>0
  <2>2. ws[c].addr \in Nat /\ ws[d].addr \in Nat /\ Word \in Nat
    BY <2>1, ApartFacts, CoverFacts
  <2>3. /\ c < d => ws[c].addr + Word <= ws[d].addr
        /\ d < c => ws[d].addr + Word <= ws[c].addr
    BY <2>1, ApartFacts
  <2>4. ~(c < d) /\ ~(d < c)
    BY <1>1, <2>2, <2>3 DEF holds
  <2>5. QED
    BY <2>1, <2>4
<1>2. QED
  BY <1>1 DEF IsByte

(* combine_loads writes a word that is not zero behind the others. *)
LEMMA WordAppended ==
  ASSUME NEW ws, Apart(ws), NEW x \in WordType,
         \A n \in 1..Len(ws) : ws[n].addr + Word <= x.addr
  PROVE  LET t == Append(ws, x) IN
         /\ Apart(t) /\ Len(t) = Len(ws) + 1
         /\ \A n \in 1..Len(t) : t[n].addr <= x.addr
         /\ \A a \in Nat : Visited(ws, x, a) => IsByte(t, 1, Len(t), a, loads[a])
<1> DEFINE t == Append(ws, x)
           L == Len(ws)
<1>1. ws \in Seq(WordType) /\ L \in Nat
  BY ApartFacts DEF Apart
<1>2. /\ t \in Seq(WordType) /\ Len(t) = L + 1 /\ t[L + 1] = x
      /\ \A n \in 1..L : t[n] = ws[n]
  BY <1>1, AppendProperties
<1> HIDE DEF t, L
<1>3. /\ \A n \in 1..(L + 1) : n \in 1..L \/ n = L + 1
      /\ L + 1 \in 1..(L + 1) /\ \A n \in 1..L : n \in 1..(L + 1)
  BY <1>1
<1>4. x.addr \in Nat /\ Word \in Nat /\ \A n \in 1..L : ws[n].addr \in Nat
  BY ApartFacts, WordFacts, CoverFacts DEF L
<1>5. Apart(t)
  <2> SUFFICES ASSUME NEW m \in 1..(L + 1), NEW n \in 1..(L + 1), m < n
               PROVE  t[m].addr + Word <= t[n].addr
    BY <1>2 DEF Apart
  <2>1. m \in 1..L
    BY <1>1
  <2>2. CASE n = L + 1
    BY <1>2, <2>1, <2>2 DEF L
  <2>3. CASE n \in 1..L
    <3>1. ws[m].addr + Word <= ws[n].addr
      BY <2>1, <2>3, ApartFacts DEF L
    <3>2. QED
      BY <1>2, <2>1, <2>3, <3>1
  <2>4. QED
    BY <1>3, <2>2, <2>3
<1>6. \A n \in 1..(L + 1) : t[n].addr <= x.addr
  <2> SUFFICES ASSUME NEW n \in 1..(L + 1) PROVE t[n].addr <= x.addr
    OBVIOUS
  <2>1. CASE n = L + 1
    BY <1>2, <1>4, <2>1
  <2>2. CASE n \in 1..L
    BY <1>2, <1>4, <2>2 DEF L
  <2>3. QED
    BY <1>3, <2>1, <2>2
<1>7. ASSUME NEW a \in Nat, Visited(ws, x, a) PROVE IsByte(t, 1, L + 1, a, loads[a])
  <2>1. CASE x.addr <= a /\ a < x.addr + Word /\ x.data[a - x.addr] = loads[a]
    <3>1. holds(t, L + 1, a) /\ loads[a] = t[L + 1].data[a - t[L + 1].addr]
      BY <1>2, <2>1 DEF holds
    <3>2. QED
      BY <1>3, <3>1 DEF IsByte
  <2>2. CASE a < x.addr /\ IsByte(ws, 1, L, a, loads[a])
    <3>1. ~holds(t, L + 1, a)
      BY <1>2, <1>4, <2>2 DEF holds
    <3>2. \A n \in 1..L : holds(t, n, a) <=> holds(ws, n, a)
      BY <1>2 DEF holds
    <3>3. QED
      BY <1>2, <1>3, <2>2, <3>1, <3>2 DEF IsByte
  <2>3. QED
    BY <1>7, <2>1, <2>2 DEF Visited, L
<1>8. QED
  BY <1>2, <1>5, <1>6, <1>7 DEF t, L

(* A word of zeros can be dropped. *)
LEMMA WordDropped ==
  ASSUME NEW ws, Apart(ws), NEW x \in WordType, IsZero(x.data),
         \A n \in 1..Len(ws) : ws[n].addr + Word <= x.addr,
         NEW a \in Nat, Visited(ws, x, a)
  PROVE  IsByte(ws, 1, Len(ws), a, loads[a])
<1> DEFINE o == a - x.addr
<1>1. x.addr \in Nat /\ Word \in Nat /\ x.data \in [0..(Word - 1) -> Values]
  BY WordFacts, CoverFacts
<1>2. \A n \in 1..Len(ws) : ws[n].addr \in Nat
  BY ApartFacts
<1>3. CASE x.addr <= a /\ a < x.addr + Word /\ x.data[o] = loads[a]
  <2>1. o \in 0..(Word - 1)
    BY <1>1, <1>3
  <2>2. loads[a] = 0
    BY <1>1, <1>3, <2>1 DEF IsZero
  <2>3. \A n \in 1..Len(ws) : ~holds(ws, n, a)
    BY <1>1, <1>2, <1>3 DEF holds
  <2>4. QED
    BY <2>2, <2>3 DEF IsByte
<1>4. QED
  BY <1>3 DEF Visited

(* One byte is combined. *)
LEMMA CombineStep ==
  ASSUME loads \in Inputs, CombineInv, combine_loads
  PROVE  CombineInv' /\ loads' = loads
<1> DEFINE a == Least(todo)
<1>1. /\ todo # {} /\ todo' = todo \ {a} /\ loads' = loads
      /\ IF fits(a)
           THEN info' = [info EXCEPT !.data[a - info.addr] = loads[a]] /\ firstloads' = firstloads
           ELSE firstloads' = firstloads \o kept(info) /\ info' = wordAt(a)
  BY DEF combine_loads
<1>2. DOMAIN loads \subseteq Nat \ {0} /\ \A b \in DOMAIN loads : loads[b] \in Values
  BY LoadFacts
<1>3. /\ Apart(firstloads) /\ todo \subseteq DOMAIN loads /\ info \in WordType \cup {NoWord}
      /\ info = NoWord => firstloads = <<>> /\ todo = DOMAIN loads
      /\ info # NoWord =>
           /\ \A n \in 1..Len(firstloads) : firstloads[n].addr + Word <= info.addr
           /\ \A b \in todo : info.addr < b
           /\ \A b \in DOMAIN loads \ todo : Visited(firstloads, info, b)
  BY DEF CombineInv
<1>4. a \in todo /\ a \in Nat \ {0} /\ a \in DOMAIN loads /\ \A b \in todo : a <= b
  BY <1>1, <1>2, <1>3, LeastFacts
<1>5. Word \in Nat \ {0}
  BY CoverFacts
<1> HIDE DEF a
<1>6. todo' \subseteq DOMAIN loads /\ \A b \in DOMAIN loads \ todo' : b = a \/ b \in DOMAIN loads \ todo
  BY <1>1, <1>3
<1>7. \A b \in todo' : a < b
  <2>1. \A b \in todo' : b \in Nat /\ b # a /\ a <= b
    BY <1>1, <1>2, <1>3, <1>4
  <2>2. QED
    BY <1>4, <2>1
<1>8. CASE fits(a)
  <2> DEFINE o == a - info.addr
             y == [info EXCEPT !.data[o] = loads[a]]
  <2>1. info # NoWord /\ a - info.addr < Word /\ info' = y /\ firstloads' = firstloads
    BY <1>1, <1>8 DEF fits
  <2>2. info \in WordType /\ info.addr \in Nat \ {0} /\ info.data \in [0..(Word - 1) -> Values]
    BY <1>3, <2>1, WordFacts
  <2>3. info.addr < a
    BY <1>3, <1>4, <2>1
  <2>4. o \in 0..(Word - 1)
    BY <1>4, <1>5, <2>1, <2>2, <2>3
  <2>5. /\ y.addr = info.addr /\ y \in WordType /\ y.data[o] = loads[a]
        /\ \A k \in 0..(Word - 1) : k # o => y.data[k] = info.data[k]
    <3> DEFINE d == [info.data EXCEPT ![o] = loads[a]]
    <3>1. y = [info EXCEPT !.data = d]
      BY <2>2 DEF WordType
    <3>2. /\ d \in [0..(Word - 1) -> Values] /\ d[o] = loads[a]
          /\ \A k \in 0..(Word - 1) : k # o => d[k] = info.data[k]
      BY <1>2, <1>4, <2>2, <2>4
    <3> HIDE DEF d, y
    <3>3. y.addr = info.addr /\ y.data = d /\ y \in WordType
      BY <2>2, <3>1, <3>2 DEF WordType
    <3>4. QED
      BY <3>2, <3>3
  <2> HIDE DEF y
  <2>6. ASSUME NEW b \in DOMAIN loads \ todo' PROVE Visited(firstloads, y, b)
    <3>1. CASE b = a
      <4>1. y.addr <= a /\ a < y.addr + Word /\ y.data[a - y.addr] = loads[a]
        BY <1>4, <1>5, <2>1, <2>2, <2>3, <2>5
      <4>2. QED
        BY <3>1, <4>1 DEF Visited
    <3>2. CASE b # a /\ b \in DOMAIN loads \ todo
      <4>1. b \in Nat
        BY <1>2
      <4>2. Visited(firstloads, info, b)
        BY <1>3, <2>1, <3>2
      <4>3. CASE b < info.addr /\ IsByte(firstloads, 1, Len(firstloads), b, loads[b])
        BY <2>5, <4>3 DEF Visited
      <4>4. CASE info.addr <= b /\ b < info.addr + Word /\ info.data[b - info.addr] = loads[b]
        <5>1. b - info.addr \in 0..(Word - 1) /\ b - info.addr # o
          BY <1>4, <1>5, <2>2, <3>2, <4>1, <4>4
        <5>2. y.data[b - info.addr] = loads[b]
          BY <2>5, <4>4, <5>1
        <5>3. QED
          BY <2>5, <4>4, <5>2 DEF Visited
      <4>5. QED
        BY <4>2, <4>3, <4>4 DEF Visited
    <3>3. QED
      BY <1>6, <3>1, <3>2
  <2>7. y # NoWord
    BY <2>5, WordFacts
  <2>8. \A b \in todo' : y.addr < b
    BY <1>1, <1>3, <2>1, <2>5
  <2>9. QED
    BY <1>1, <1>3, <1>6, <2>1, <2>5, <2>6, <2>7, <2>8 DEF CombineInv, Visited
<1>9. CASE ~fits(a)
  <2> DEFINE y == wordAt(a)
             t == firstloads \o kept(info)
  <2>1. info' = y /\ firstloads' = t
    BY <1>1, <1>9
  <2>2. y \in WordType /\ y.addr = a /\ y.data[0] = loads[a] /\ y # NoWord
    <3>0. 0 \in Values
      BY DEF Values
    <3>1. loads[a] \in Values
      BY <1>2, <1>4
    <3>2. y \in WordType
      BY <1>4, <3>0, <3>1 DEF wordAt, WordType
    <3>3. y.addr = a /\ y.data[0] = loads[a]
      BY <1>5 DEF wordAt
    <3>4. QED
      BY <3>2, <3>3, WordFacts
  <2> HIDE DEF y
  <2>3. Visited(t, y, a)
    <3>1. y.addr <= a /\ a < y.addr + Word /\ y.data[a - y.addr] = loads[a]
      BY <1>4, <1>5, <2>2
    <3>2. QED
      BY <3>1 DEF Visited
  <2>4. /\ Apart(t) /\ \A n \in 1..Len(t) : t[n].addr + Word <= a
        /\ \A b \in DOMAIN loads \ todo : b < a /\ IsByte(t, 1, Len(t), b, loads[b])
    <3>1. CASE info = NoWord
      <4>1. kept(info) = <<>>
        BY <3>1 DEF kept, IsZero, NoWord
      <4>2. t = <<>> /\ firstloads = <<>> /\ todo = DOMAIN loads
        BY <1>3, <3>1, <4>1
      <4>3. QED
        BY <1>3, <4>2
    <3>2. CASE info # NoWord
      <4>1. info \in WordType /\ info.addr \in Nat \ {0} /\ info.addr < a
            /\ \A n \in 1..Len(firstloads) : firstloads[n].addr + Word <= info.addr
        BY <1>3, <1>4, <3>2, WordFacts
      <4>2. info.addr + Word <= a
        BY <1>4, <1>5, <1>9, <3>2, <4>1 DEF fits
      <4>3. \A b \in DOMAIN loads \ todo : b \in Nat /\ b < a /\ Visited(firstloads, info, b)
        <5> SUFFICES ASSUME NEW b \in DOMAIN loads \ todo
                     PROVE  b \in Nat /\ b < a /\ Visited(firstloads, info, b)
          OBVIOUS
        <5>1. b \in Nat /\ Visited(firstloads, info, b)
          BY <1>2, <1>3, <3>2
        <5>2. b < info.addr \/ b < info.addr + Word
          BY <5>1 DEF Visited
        <5>3. QED
          BY <1>4, <1>5, <4>1, <4>2, <5>1, <5>2
      <4>4. CASE IsZero(info.data)
        <5>1. t = firstloads
          <6>1. kept(info) = <<>> /\ firstloads \in Seq(WordType)
            BY <1>3, <4>4 DEF kept, Apart
          <6>2. QED
            BY <6>1
        <5>2. \A n \in 1..Len(t) : t[n].addr + Word <= a
          <6>1. \A n \in 1..Len(firstloads) : firstloads[n].addr \in Nat
            BY <1>3, ApartFacts
          <6>2. QED
            BY <1>4, <1>5, <4>1, <5>1, <6>1
        <5>3. \A b \in DOMAIN loads \ todo : IsByte(t, 1, Len(t), b, loads[b])
          BY <1>3, <4>1, <4>3, <4>4, <5>1, WordDropped
        <5>4. QED
          BY <1>3, <4>3, <5>1, <5>2, <5>3
      <4>5. CASE ~IsZero(info.data)
        <5>1. t = Append(firstloads, info)
          <6>1. kept(info) = <<info>> /\ firstloads \in Seq(WordType)
            BY <1>3, <4>5 DEF kept, Apart
          <6>2. QED
            BY <4>1, <6>1
        <5> HIDE DEF t
        <5>2. /\ Apart(t) /\ \A n \in 1..Len(t) : t[n].addr <= info.addr
              /\ \A b \in Nat : Visited(firstloads, info, b) => IsByte(t, 1, Len(t), b, loads[b])
          BY <1>3, <4>1, <5>1, WordAppended
        <5>3. \A n \in 1..Len(t) : t[n].addr \in Nat
          BY <5>2, ApartFacts
        <5>4. \A n \in 1..Len(t) : t[n].addr + Word <= a
          BY <1>4, <1>5, <4>1, <4>2, <5>2, <5>3
        <5>5. QED
          BY <4>3, <5>2, <5>4
      <4>6. QED
        BY <4>4, <4>5
    <3>3. QED
      BY <3>1, <3>2
  <2> HIDE DEF t
  <2>5. \A b \in DOMAIN loads \ todo' : Visited(t, y, b)
    BY <1>6, <2>2, <2>3, <2>4 DEF Visited
  <2>6. QED
    BY <1>1, <1>6, <1>7, <2>1, <2>2, <2>4, <2>5 DEF CombineInv, Visited
<1>10. QED
  BY <1>1, <1>8, <1>9

(* The last word: all that was recorded is in the words. *)
LEMMA CombinedWords ==
  ASSUME loads \in Inputs, CombineInv, combined
  PROVE  WordsInv'
<1>1. /\ todo = {} /\ loads' = loads
      /\ firstloads' = IF info = NoWord THEN firstloads ELSE Append(firstloads, info)
  BY DEF combined
<1>2. /\ Apart(firstloads) /\ info \in WordType \cup {NoWord}
      /\ info = NoWord => firstloads = <<>> /\ todo = DOMAIN loads
      /\ info # NoWord =>
           /\ \A n \in 1..Len(firstloads) : firstloads[n].addr + Word <= info.addr
           /\ \A b \in DOMAIN loads \ todo : Visited(firstloads, info, b)
  BY DEF CombineInv
<1>3. DOMAIN loads \subseteq Nat
  BY LoadFacts
<1>4. CASE info = NoWord
  BY <1>1, <1>2, <1>4 DEF WordsInv
<1>5. CASE info # NoWord
  <2> DEFINE t == Append(firstloads, info)
  <2>1. /\ Apart(t)
        /\ \A b \in Nat : Visited(firstloads, info, b) => IsByte(t, 1, Len(t), b, loads[b])
    BY <1>2, <1>5, WordAppended
  <2>2. firstloads' = t
    BY <1>1, <1>5
  <2> HIDE DEF t
  <2>3. \A b \in DOMAIN loads : IsByte(t, 1, Len(t), b, loads[b])
    BY <1>1, <1>2, <1>3, <1>5, <2>1
  <2>4. QED
    BY <1>1, <2>1, <2>2, <2>3 DEF WordsInv
<1>6. QED
  BY <1>4, <1>5

-----------------------------------------------------------------------------
(* Window w holds words b to e - 1 and no other byte. *)
IsWindow(ws, w, b, e) ==
  /\ b \in 1..Len(ws) /\ e \in (b + 1)..(Len(ws) + 1)
  /\ w.addr = ws[b].addr
  /\ DOMAIN w.data \subseteq Slots
  /\ \A c \in b..(e - 1) : ws[c].addr + Word <= w.addr + Cover
  /\ \A o \in 0..(Cover - 1) :
       IsByte(ws, b, e - 1, w.addr + o,
              IF o \div Word \in DOMAIN w.data THEN w.data[o \div Word][o % Word] ELSE 0)

(* The next window begins behind word i, and the words before it fit. *)
LEMMA NextWindowFacts ==
  ASSUME Apart(firstloads), i \in 1..Len(firstloads)
  PROVE  /\ nextWindow \in (i + 1)..(Len(firstloads) + 1)
         /\ \A c \in i..(nextWindow - 1) :
              firstloads[c].addr + Word <= firstloads[i].addr + Cover
<1> DEFINE L == Len(firstloads)
           F == {j \in (i + 1)..L : firstloads[j].addr + Word > firstloads[i].addr + Cover}
           S == {L + 1} \cup F
           e == nextWindow
<1>1. L \in Nat /\ i \in 1..L /\ \A n \in 1..L : firstloads[n].addr \in Nat
  BY ApartFacts
<1>2. Word \in Nat /\ Cover \in Nat /\ Word <= Cover
  BY CoverFacts
<1>3. S \in SUBSET Nat /\ S # {} /\ \A j \in S : j \in (i + 1)..(L + 1)
  BY <1>1
<1>4. e \in S /\ \A j \in S : e <= j
  BY <1>3, LeastFacts DEF nextWindow
<1>5. e \in (i + 1)..(L + 1)
  BY <1>3, <1>4
<1> HIDE DEF e
<1>6. ASSUME NEW c \in i..(e - 1)
      PROVE  firstloads[c].addr + Word <= firstloads[i].addr + Cover
  <2>1. c \in 1..L /\ c < e /\ (c = i \/ c \in (i + 1)..L)
    BY <1>1, <1>5
  <2>2. CASE c = i
    BY <1>1, <1>2, <2>2
  <2>3. CASE c \in (i + 1)..L
    <3>1. c \notin F
      BY <1>1, <1>4, <1>5, <2>1
    <3>2. ~(firstloads[c].addr + Word > firstloads[i].addr + Cover)
      BY <2>3, <3>1
    <3>3. QED
      BY <1>1, <1>2, <2>1, <3>2
  <2>4. QED
    BY <2>1, <2>2, <2>3
<1>7. QED
  BY <1>5, <1>6 DEF e, L

(* What pagedata says of each byte. *)
LEMMA PageFacts ==
  ASSUME Apart(firstloads), i \in 1..Len(firstloads), NEW o \in 0..(Cover - 1)
  PROVE  /\ pagedata[o] \in Values
         /\ IsByte(firstloads, i, nextWindow - 1, firstloads[i].addr + o, pagedata[o])
<1> DEFINE L == Len(firstloads)
           e == nextWindow
           at == firstloads[i].addr + o
           owner == {c \in i..(e - 1) : firstloads[c].addr <= at /\ at < firstloads[c].addr + Word}
           d == Least(owner)
<1>1. L \in Nat /\ i \in 1..L /\ Word \in Nat \ {0} /\ Cover \in Nat
  BY ApartFacts, CoverFacts
<1>2. \A n \in 1..L : firstloads[n].addr \in Nat /\ firstloads[n].data \in [0..(Word - 1) -> Values]
  BY ApartFacts
<1>3. e \in (i + 1)..(L + 1)
  BY NextWindowFacts
<1>4. pagedata[o] = IF owner = {} THEN 0 ELSE firstloads[d].data[at - firstloads[d].addr]
  BY DEF pagedata
<1>5. \A c \in i..(e - 1) : c \in owner <=> holds(firstloads, c, at)
  BY DEF holds
<1>6. owner \in SUBSET Nat /\ \A c \in owner : c \in i..(e - 1) /\ c \in 1..L
  BY <1>1, <1>3
<1>7. CASE owner = {}
  <2>1. pagedata[o] = 0
    BY <1>4, <1>7
  <2>2. \A c \in i..(e - 1) : ~holds(firstloads, c, at)
    BY <1>5, <1>7
  <2>3. 0 \in Values
    BY DEF Values
  <2>4. QED
    BY <2>1, <2>2, <2>3 DEF IsByte
<1>8. CASE owner # {}
  <2>1. d \in owner
    BY <1>6, <1>8, LeastFacts
  <2>2. at \in Nat
    BY <1>1, <1>2
  <2> HIDE DEF d, at, e
  <2>3. d \in i..(e - 1) /\ d \in 1..L /\ firstloads[d].addr <= at /\ at < firstloads[d].addr + Word
    BY <1>6, <2>1
  <2>4. at - firstloads[d].addr \in 0..(Word - 1)
    BY <1>1, <1>2, <2>2, <2>3
  <2>5. firstloads[d].data[at - firstloads[d].addr] \in Values
    BY <1>2, <2>3, <2>4
  <2>6. pagedata[o] = firstloads[d].data[at - firstloads[d].addr]
    BY <1>4, <1>8
  <2>7. holds(firstloads, d, at)
    BY <2>3 DEF holds
  <2>8. IsByte(firstloads, i, e - 1, at, pagedata[o])
    BY <2>3, <2>6, <2>7 DEF IsByte
  <2>9. QED
    BY <2>5, <2>6, <2>8 DEF at, e
<1>9. QED
  BY <1>7, <1>8

(* saveFLoads_comp keeps all that the words of the window hold. *)
LEMMA WindowFacts ==
  ASSUME Apart(firstloads), i \in 1..Len(firstloads)
  PROVE  window \in WindowType /\ IsWindow(firstloads, window, i, nextWindow)
<1> DEFINE L == Len(firstloads)
           e == nextWindow
           C == Cover \div Word
           base == firstloads[i].addr
<1>1. L \in Nat /\ i \in 1..L /\ Word \in Nat \ {0} /\ Cover \in Nat /\ base \in Nat
      /\ C \in Nat /\ Cover = C * Word
  BY ApartFacts, CoverFacts
<1>2. /\ e \in (i + 1)..(L + 1)
      /\ \A c \in i..(e - 1) : firstloads[c].addr + Word <= base + Cover
  BY NextWindowFacts
<1>3. /\ window.addr = base /\ window.data = [k \in map1 |-> slot(k)] /\ DOMAIN window.data = map1
      /\ map1 \subseteq Slots
  BY DEF window, map1, Slots
<1>4. ASSUME NEW k \in Slots, NEW n \in 0..(Word - 1)
      PROVE  k * Word + n \in 0..(Cover - 1) /\ slot(k)[n] = pagedata[k * Word + n]
  <2>1. k \in Nat /\ k + 1 <= C /\ n \in Nat /\ n < Word
    BY <1>1 DEF Slots
  <2>2. (k + 1) * Word <= C * Word /\ (k + 1) * Word = k * Word + Word /\ k * Word \in Nat
    BY <1>1, <2>1
  <2>3. k * Word + n \in 0..(Cover - 1)
    BY <1>1, <2>1, <2>2
  <2>4. QED
    BY <2>3 DEF slot
<1>5. \A k \in Slots : slot(k) \in [0..(Word - 1) -> Values]
  <2> SUFFICES ASSUME NEW k \in Slots PROVE slot(k) \in [0..(Word - 1) -> Values]
    OBVIOUS
  <2>1. \A n \in 0..(Word - 1) : pagedata[k * Word + n] \in Values
    BY <1>4, PageFacts
  <2>2. QED
    BY <2>1 DEF slot
<1>6. window \in WindowType
  <2>1. [k \in map1 |-> slot(k)] \in [map1 -> [0..(Word - 1) -> Values]]
    BY <1>3, <1>5
  <2>2. QED
    BY <1>1, <1>3, <2>1 DEF window, WindowType
<1>7. ASSUME NEW o \in 0..(Cover - 1)
      PROVE  pagedata[o] = IF o \div Word \in map1
                             THEN window.data[o \div Word][o % Word] ELSE 0
  <2> DEFINE k == o \div Word
             n == o % Word
  <2>1. k \in Slots /\ n \in 0..(Word - 1) /\ k * Word + n = o
    BY SlotFacts DEF Slots
  <2> HIDE DEF k, n
  <2>2. slot(k)[n] = pagedata[o]
    BY <1>4, <2>1
  <2>3. CASE k \in map1
    <3>1. window.data[k] = slot(k)
      BY <1>3, <2>3
    <3>2. QED
      BY <2>2, <2>3, <3>1 DEF k, n
  <2>4. CASE k \notin map1
    <3>1. IsZero(slot(k))
      BY <2>1, <2>4 DEF map1, Slots
    <3>2. slot(k)[n] = 0
      BY <1>5, <2>1, <3>1 DEF IsZero
    <3>3. QED
      BY <2>2, <2>4, <3>2 DEF k
  <2>5. QED
    BY <2>3, <2>4
<1>8. \A o \in 0..(Cover - 1) : IsByte(firstloads, i, e - 1, base + o, pagedata[o])
  BY PageFacts
<1>9. IsWindow(firstloads, window, i, e)
  BY <1>1, <1>2, <1>3, <1>7, <1>8 DEF IsWindow
<1>10. QED
  BY <1>6, <1>9

-----------------------------------------------------------------------------
(* Chunks of the file: nonempty sequences of windows. *)
ChunkType == Seq(WindowType) \ {<<>>}

(* Window v takes up where window w ends. *)
Linked(ws, w, v) ==
  \E b, e, x \in Nat : IsWindow(ws, w, b, e) /\ IsWindow(ws, v, e, x)

(* The chunks of f hold words lo to hi - 1, each window where the one in   *)
(* front of it ends.                                                       *)
Holds(ws, f, lo, hi) ==
  /\ f \in Seq(ChunkType)
  /\ \A k \in 1..Len(f) : \A n \in 1..Len(f[k]) :
       n + 1 <= Len(f[k]) => Linked(ws, f[k][n], f[k][n + 1])
  /\ \A k \in 1..Len(f) :
       k + 1 <= Len(f) => Linked(ws, f[k][Len(f[k])], f[k + 1][1])
  /\ f = <<>> => lo = hi
  /\ f # <<>> => /\ \E e \in Nat : IsWindow(ws, f[1][1], lo, e)
                 /\ \E b \in Nat : IsWindow(ws, f[Len(f)][Len(f[Len(f)])], b, hi)

(* The file with the chunk that is being collected. *)
chunks(f, t) == IF t = <<>> THEN f ELSE Append(f, t)

(* A chunk has a first and a last window. *)
LEMMA ChunkFacts ==
  ASSUME NEW t \in ChunkType
  PROVE  /\ t \in Seq(WindowType) /\ Len(t) \in Nat \ {0}
         /\ 1 \in 1..Len(t) /\ Len(t) \in 1..Len(t)
<1>1. t \in Seq(WindowType) /\ t # <<>>
  BY DEF ChunkType
<1>2. Len(t) \in Nat /\ Len(t) # 0
  BY <1>1, EmptySeq
<1>3. QED
  BY <1>1, <1>2

(* saveFLoads_comp puts the next window behind the others, whether or not  *)
(* the chunk in front of it was closed.                                    *)
LEMMA HoldsMore ==
  ASSUME NEW ws, NEW f \in Seq(ChunkType), NEW t \in Seq(WindowType),
         NEW w \in WindowType, NEW m \in Nat, NEW e \in Nat,
         Holds(ws, chunks(f, t), 1, m), IsWindow(ws, w, m, e)
  PROVE  Holds(ws, Append(f, Append(t, w)), 1, e)
<1> DEFINE c == chunks(f, t)
           u == Append(t, w)
           g == Append(f, u)
           F == Len(f)
           T == Len(t)
<1>0. Len(<<>>) = 0
  BY EmptySeq
<1>1. F \in Nat /\ T \in Nat
  BY LenProperties
<1>2. /\ u \in Seq(WindowType) /\ Len(u) = T + 1 /\ u[T + 1] = w
      /\ \A n \in 1..T : u[n] = t[n]
  BY AppendProperties
<1> HIDE DEF u
<1>3. u \in ChunkType
  <2>1. u # <<>>
    BY <1>0, <1>1, <1>2
  <2>2. QED
    BY <1>2, <2>1 DEF ChunkType
<1>4. /\ g \in Seq(ChunkType) /\ Len(g) = F + 1 /\ g[F + 1] = u
      /\ \A k \in 1..F : g[k] = f[k]
  BY <1>3, AppendProperties
<1>5. /\ T = 0 => t = <<>> /\ c = f
      /\ T # 0 => /\ t # <<>> /\ c = Append(f, t) /\ t \in ChunkType
  BY EmptySeq DEF chunks, ChunkType
<1>6. T # 0 => Len(c) = F + 1 /\ c[F + 1] = t /\ \A k \in 1..F : c[k] = f[k]
  BY <1>5, AppendProperties
<1>7. \A k \in 1..F : c[k] = f[k] /\ k \in 1..Len(c) /\ (k + 1 <= F => k + 1 <= Len(c))
  BY <1>1, <1>5, <1>6
<1> HIDE DEF g, c, F, T
<1>8. /\ \A k \in 1..Len(c) : \A n \in 1..Len(c[k]) :
           n + 1 <= Len(c[k]) => Linked(ws, c[k][n], c[k][n + 1])
      /\ \A k \in 1..Len(c) :
           k + 1 <= Len(c) => Linked(ws, c[k][Len(c[k])], c[k + 1][1])
      /\ c = <<>> => 1 = m
      /\ c # <<>> => /\ \E x \in Nat : IsWindow(ws, c[1][1], 1, x)
                     /\ \E b \in Nat : IsWindow(ws, c[Len(c)][Len(c[Len(c)])], b, m)
  BY DEF Holds, c
<1>9. ASSUME NEW v, NEW b \in Nat, IsWindow(ws, v, b, m) PROVE Linked(ws, v, w)
  BY <1>9 DEF Linked
<1>10. ASSUME NEW k \in 1..(F + 1), NEW n \in 1..Len(g[k]), n + 1 <= Len(g[k])
       PROVE  Linked(ws, g[k][n], g[k][n + 1])
  <2>1. CASE k \in 1..F
    BY <1>4, <1>7, <1>8, <1>10, <2>1
  <2>2. CASE k = F + 1
    <3>1. g[k] = u /\ n \in 1..T /\ n + 1 \in 1..(T + 1) /\ T # 0 /\ u[n] = t[n]
      BY <1>1, <1>2, <1>4, <1>10, <2>2
    <3>2. c[F + 1] = t /\ Len(c) = F + 1 /\ F + 1 \in 1..Len(c)
      BY <1>1, <1>6, <3>1
    <3>3. CASE n + 1 <= T
      <4>1. u[n + 1] = t[n + 1]
        BY <1>1, <1>2, <3>1, <3>3
      <4>2. Linked(ws, t[n], t[n + 1])
        BY <1>8, <3>1, <3>2, <3>3 DEF T
      <4>3. QED
        BY <3>1, <4>1, <4>2
    <3>4. CASE n = T
      <4>1. c # <<>>
        BY <1>1, <3>2, EmptySeq
      <4>2. \E b \in Nat : IsWindow(ws, t[T], b, m)
        BY <1>8, <3>2, <4>1 DEF T
      <4>3. Linked(ws, t[T], w)
        BY <1>9, <4>2
      <4>4. QED
        BY <1>2, <3>1, <3>4, <4>3
    <3>5. QED
      BY <1>1, <3>1, <3>3, <3>4
  <2>3. QED
    BY <1>1, <2>1, <2>2
<1>11. ASSUME NEW k \in 1..(F + 1), k + 1 <= F + 1
       PROVE  Linked(ws, g[k][Len(g[k])], g[k + 1][1])
  <2>1. k \in 1..F /\ g[k] = f[k] /\ c[k] = f[k] /\ k \in 1..Len(c)
    BY <1>1, <1>4, <1>7, <1>11
  <2>2. CASE k + 1 <= F
    <3>1. g[k + 1] = f[k + 1] /\ c[k + 1] = f[k + 1] /\ k + 1 <= Len(c)
      BY <1>1, <1>4, <1>7, <2>1, <2>2
    <3>2. QED
      BY <1>8, <2>1, <3>1
  <2>3. CASE k = F
    <3>1. g[k + 1] = u
      BY <1>4, <2>3
    <3>2. CASE T = 0
      <4>1. u[1] = w /\ c = f /\ f # <<>>
        BY <1>1, <1>2, <1>5, <2>1, <3>2, EmptySeq DEF F
      <4>2. \E b \in Nat : IsWindow(ws, f[F][Len(f[F])], b, m)
        BY <1>8, <4>1 DEF F
      <4>3. Linked(ws, f[F][Len(f[F])], w)
        BY <1>9, <4>2
      <4>4. QED
        BY <2>1, <2>3, <3>1, <4>1, <4>3
    <3>3. CASE T # 0
      <4>1. u[1] = t[1] /\ c[k + 1] = t /\ k + 1 <= Len(c)
        BY <1>1, <1>2, <1>6, <2>3, <3>3
      <4>2. QED
        BY <1>8, <2>1, <3>1, <4>1
    <3>4. QED
      BY <3>2, <3>3
  <2>4. QED
    BY <1>1, <2>1, <2>2, <2>3
<1>12. \E x \in Nat : IsWindow(ws, g[1][1], 1, x)
  <2>1. CASE F # 0
    <3>1. g[1] = f[1] /\ c[1] = f[1] /\ 1 \in 1..Len(c)
      BY <1>1, <1>4, <1>7, <2>1
    <3>2. c # <<>>
      BY <3>1, EmptySeq
    <3>3. QED
      BY <1>8, <3>1, <3>2
  <2>2. CASE F = 0 /\ T # 0
    <3>0. F + 1 = 1 /\ 1 \in 1..T
      BY <1>1, <2>2
    <3>1. g[1] = u /\ u[1] = t[1] /\ c[1] = t /\ Len(c) = 1
      BY <1>2, <1>4, <1>6, <2>2, <3>0
    <3>2. c # <<>>
      <4>1. Len(c) # 0
        BY <3>1
      <4>2. QED
        BY <1>0, <4>1, Zenon
    <3>3. QED
      BY <1>8, <3>1, <3>2
  <2>3. CASE F = 0 /\ T = 0
    <3>1. g[1] = u /\ u[1] = w /\ c = <<>>
      BY <1>1, <1>2, <1>4, <1>5, <2>3, EmptySeq DEF F
    <3>2. m = 1
      BY <1>8, <3>1
    <3>3. QED
      BY <3>1, <3>2
  <2>4. QED
    BY <2>1, <2>2, <2>3
<1>13. IsWindow(ws, g[F + 1][Len(g[F + 1])], m, e) /\ g # <<>>
  BY <1>1, <1>2, <1>4, EmptySeq
<1>14. Holds(ws, g, 1, e)
  BY <1>4, <1>10, <1>11, <1>12, <1>13 DEF Holds
<1>15. QED
  BY <1>14 DEF g, u

(* A window begins at one word only. *)
LEMMA WindowStart ==
  ASSUME NEW ws, Apart(ws), NEW w, NEW b, NEW c, NEW e, NEW x,
         IsWindow(ws, w, b, e), IsWindow(ws, w, c, x)
  PROVE  b = c
<1>1. b \in 1..Len(ws) /\ c \in 1..Len(ws) /\ ws[b].addr = ws[c].addr
  BY DEF IsWindow
<1>2. ws[b].addr \in Nat /\ Word \in Nat \ {0}
  BY <1>1, ApartFacts, CoverFacts
<1>3. /\ b < c => ws[b].addr + Word <= ws[c].addr
      /\ c < b => ws[c].addr + Word <= ws[b].addr
  BY <1>1, ApartFacts
<1>4. ~(b < c) /\ ~(c < b)
  BY <1>1, <1>2, <1>3
<1>5. QED
  BY <1>1, <1>4

(* recovery_fastlz takes the first window: the rest of the file begins     *)
(* where that window ends.                                                 *)
LEMMA HoldsRest ==
  ASSUME NEW ws, Apart(ws), NEW f, NEW lo \in Nat, NEW hi \in Nat, Holds(ws, f, lo, hi), f # <<>>
  PROVE  \E e \in Nat :
           /\ IsWindow(ws, Head(Head(f)), lo, e)
           /\ Holds(ws, IF Len(Head(f)) = 1 THEN Tail(f)
                          ELSE <<Tail(Head(f))>> \o Tail(f), e, hi)
<1> DEFINE h == Head(f)
           r == Tail(f)
           w == Head(h)
           F == Len(f)
           H == Len(h)
<1>0. Len(<<>>) = 0
  BY EmptySeq
<1>1. f \in Seq(ChunkType) /\ F \in Nat \ {0}
  BY EmptySeq DEF Holds
<1>2. h = f[1] /\ h \in ChunkType
  BY <1>1, HeadTailProperties
<1>3. /\ r \in Seq(ChunkType) /\ Len(r) = F - 1
      /\ \A k \in 1..(F - 1) : r[k] = f[k + 1]
  BY <1>1, HeadTailProperties
<1>4. h \in Seq(WindowType) /\ H \in Nat \ {0} /\ h # <<>>
  BY <1>2, ChunkFacts DEF ChunkType
<1>5. w = h[1]
  BY <1>4, HeadTailProperties
<1>6. /\ \A k \in 1..F : \A n \in 1..Len(f[k]) :
           n + 1 <= Len(f[k]) => Linked(ws, f[k][n], f[k][n + 1])
      /\ \A k \in 1..F :
           k + 1 <= F => Linked(ws, f[k][Len(f[k])], f[k + 1][1])
      /\ \E e \in Nat : IsWindow(ws, f[1][1], lo, e)
      /\ \E b \in Nat : IsWindow(ws, f[F][Len(f[F])], b, hi)
  BY DEF Holds
<1> HIDE DEF h, r, F, H, w
<1>7. PICK e0 \in Nat : IsWindow(ws, w, lo, e0)
  BY <1>2, <1>5, <1>6
<1>8. ASSUME NEW v, Linked(ws, w, v)
      PROVE  \E e, x \in Nat : IsWindow(ws, w, lo, e) /\ IsWindow(ws, v, e, x)
  <2>1. PICK b \in Nat, e \in Nat, x \in Nat : IsWindow(ws, w, b, e) /\ IsWindow(ws, v, e, x)
    BY <1>8 DEF Linked
  <2>2. b = lo
    BY <1>7, <2>1, WindowStart
  <2>3. QED
    BY <2>1, <2>2
<1>9. CASE H = 1
  <2>1. SUFFICES \E e \in Nat : IsWindow(ws, w, lo, e) /\ Holds(ws, r, e, hi)
    BY <1>9 DEF h, r, w, H
  <2>2. CASE F = 1
    <3>1. r = <<>>
      BY <1>1, <1>3, <2>2, EmptySeq
    <3>2. PICK b \in Nat : IsWindow(ws, w, b, hi)
      BY <1>2, <1>5, <1>6, <1>9, <2>2 DEF H
    <3>3. b = lo
      BY <1>7, <3>2, WindowStart
    <3>4. Holds(ws, r, hi, hi)
      BY <1>0, <1>3, <3>1 DEF Holds
    <3>5. QED
      BY <3>2, <3>3, <3>4
  <2>3. CASE F # 1
    <3>1. Linked(ws, w, f[2][1])
      <4>1. 1 \in 1..F /\ 1 + 1 <= F /\ 1 + 1 = 2
        BY <1>1, <2>3
      <4>2. Linked(ws, f[1][Len(f[1])], f[2][1])
        BY <1>6, <4>1
      <4>3. QED
        BY <1>2, <1>5, <1>9, <4>2 DEF H
    <3>2. PICK e \in Nat, x \in Nat : IsWindow(ws, w, lo, e) /\ IsWindow(ws, f[2][1], e, x)
      BY <1>8, <3>1
    <3>3. Len(r) # 0 /\ Len(r) \in Nat
      BY <1>1, <1>3, <2>3
    <3>4. r # <<>>
      BY <1>0, <3>3, Zenon
    <3>5. ASSUME NEW k \in 1..Len(r)
          PROVE  /\ r[k] = f[k + 1] /\ k + 1 \in 1..F
                 /\ k + 1 <= Len(r) => r[k + 1] = f[(k + 1) + 1] /\ (k + 1) + 1 <= F
      BY <1>1, <1>3
    <3>6. ASSUME NEW k \in 1..Len(r), NEW n \in 1..Len(r[k]), n + 1 <= Len(r[k])
          PROVE  Linked(ws, r[k][n], r[k][n + 1])
      BY <1>6, <3>5, <3>6
    <3>7. ASSUME NEW k \in 1..Len(r), k + 1 <= Len(r)
          PROVE  Linked(ws, r[k][Len(r[k])], r[k + 1][1])
      BY <1>6, <3>5, <3>7
    <3>8. r[1] = f[2] /\ r[Len(r)] = f[F]
      <4>1. 1 \in 1..(F - 1) /\ F - 1 \in 1..(F - 1) /\ (F - 1) + 1 = F /\ 1 + 1 = 2
        BY <1>1, <2>3
      <4>2. QED
        BY <1>3, <4>1
    <3>9. IsWindow(ws, r[1][1], e, x) /\ \E b \in Nat : IsWindow(ws, r[Len(r)][Len(r[Len(r)])], b, hi)
      BY <1>6, <3>2, <3>8
    <3>10. Holds(ws, r, e, hi)
      BY <1>3, <3>4, <3>6, <3>7, <3>9 DEF Holds
    <3>11. QED
      BY <3>2, <3>10
  <2>4. QED
    BY <2>2, <2>3
<1>10. CASE H # 1
  <2> DEFINE s == Tail(h)
             g == <<s>> \o r
  <2>1. SUFFICES \E e \in Nat : IsWindow(ws, w, lo, e) /\ Holds(ws, g, e, hi)
    BY <1>10 DEF h, r, w, H
  <2>2. /\ s \in Seq(WindowType) /\ Len(s) = H - 1
        /\ \A n \in 1..(H - 1) : s[n] = h[n + 1]
    BY <1>4, HeadTailProperties DEF H
  <2> HIDE DEF s
  <2>3. Len(s) # 0 /\ Len(s) \in Nat
    BY <1>4, <1>10, <2>2
  <2>4. s # <<>>
    BY <1>0, <2>3, Zenon
  <2>5. s \in ChunkType
    BY <2>2, <2>4 DEF ChunkType
  <2>6. /\ <<s>> \in Seq(ChunkType) /\ Len(<<s>>) = 1 /\ <<s>>[1] = s
    BY <2>5
  <2>7. /\ g \in Seq(ChunkType) /\ Len(g) = 1 + (F - 1)
        /\ \A k \in 1..(1 + (F - 1)) : g[k] = IF k <= 1 THEN <<s>>[k] ELSE r[k - 1]
    BY <1>3, <2>6, ConcatProperties
  <2> HIDE DEF g
  <2>8. Len(g) = F /\ g[1] = s /\ \A k \in 1..F : k # 1 => g[k] = f[k]
    <3>1. 1 + (F - 1) = F /\ 1 \in 1..F
      BY <1>1
    <3>2. ASSUME NEW k \in 1..F, k # 1 PROVE g[k] = f[k]
      <4>1. ~(k <= 1) /\ k - 1 \in 1..(F - 1) /\ (k - 1) + 1 = k
        BY <1>1, <3>2
      <4>2. g[k] = r[k - 1]
        BY <2>7, <3>1, <4>1
      <4>3. QED
        BY <1>3, <4>1, <4>2
    <3>3. QED
      BY <2>6, <2>7, <3>1, <3>2
  <2>9. s[1] = h[2] /\ s[Len(s)] = h[H] /\ 1 \in 1..H /\ 1 + 1 <= H /\ 1 + 1 = 2
    <3>1. 1 \in 1..(H - 1) /\ H - 1 \in 1..(H - 1) /\ (H - 1) + 1 = H /\ 1 + 1 = 2
          /\ 1 \in 1..H /\ 1 + 1 <= H
      BY <1>4, <1>10
    <3>2. QED
      BY <2>2, <3>1
  <2>10. 1 \in 1..F
    BY <1>1
  <2>11. Linked(ws, w, h[2])
    BY <1>2, <1>5, <1>6, <2>9, <2>10 DEF H
  <2>12. PICK e \in Nat, x \in Nat : IsWindow(ws, w, lo, e) /\ IsWindow(ws, s[1], e, x)
    BY <1>8, <2>9, <2>11
  <2>13. ASSUME NEW k \in 1..F, NEW n \in 1..Len(g[k]), n + 1 <= Len(g[k])
         PROVE  Linked(ws, g[k][n], g[k][n + 1])
    <3>1. CASE k = 1
      <4>1. g[k] = s /\ n \in 1..(H - 1) /\ n + 1 \in 1..(H - 1)
        BY <1>4, <2>2, <2>8, <2>13, <3>1
      <4>2. s[n] = h[n + 1] /\ s[n + 1] = h[(n + 1) + 1]
        BY <2>2, <4>1
      <4>3. n + 1 \in 1..H /\ (n + 1) + 1 <= H
        BY <1>4, <4>1
      <4>4. Linked(ws, h[n + 1], h[(n + 1) + 1])
        BY <1>2, <1>6, <2>10, <4>3 DEF H
      <4>5. QED
        BY <4>1, <4>2, <4>4
    <3>2. CASE k # 1
      BY <1>6, <2>8, <2>13, <3>2
    <3>3. QED
      BY <3>1, <3>2
  <2>14. \A k \in 1..F : g[k][Len(g[k])] = f[k][Len(f[k])]
    <3> SUFFICES ASSUME NEW k \in 1..F PROVE g[k][Len(g[k])] = f[k][Len(f[k])]
      OBVIOUS
    <3>1. CASE k = 1
      BY <1>2, <2>8, <2>9, <3>1 DEF H
    <3>2. CASE k # 1
      BY <2>8, <3>2
    <3>3. QED
      BY <3>1, <3>2
  <2>15. ASSUME NEW k \in 1..F, k + 1 <= F
         PROVE  Linked(ws, g[k][Len(g[k])], g[k + 1][1])
    <3>1. k + 1 \in 1..F /\ k + 1 # 1
      BY <1>1, <2>15
    <3>2. g[k + 1] = f[k + 1]
      BY <2>8, <3>1
    <3>3. QED
      BY <1>6, <2>14, <2>15, <3>2
  <2>16. g # <<>>
    <3>1. Len(g) # 0
      BY <1>1, <2>8
    <3>2. QED
      BY <1>0, <3>1, Zenon
  <2>17. IsWindow(ws, g[1][1], e, x) /\ \E b \in Nat : IsWindow(ws, g[F][Len(g[F])], b, hi)
    <3>1. F \in 1..F
      BY <1>1
    <3>2. QED
      BY <1>6, <2>8, <2>12, <2>14, <3>1
  <2>18. Holds(ws, g, e, hi)
    BY <2>7, <2>8, <2>13, <2>15, <2>16, <2>17 DEF Holds
  <2>19. QED
    BY <2>12, <2>18
<1>11. QED
  BY <1>9, <1>10

-----------------------------------------------------------------------------
(* The slots of a window lie inside it. *)
LEMMA SlotEnd ==
  ASSUME NEW k \in Slots
  PROVE  k \in Nat /\ k * Word \in Nat /\ k * Word + Word <= Cover
<1> DEFINE C == Cover \div Word
<1>1. Word \in Nat \ {0} /\ Cover \in Nat /\ C \in Nat /\ Cover = C * Word
  BY CoverFacts
<1>2. k \in 0..(C - 1)
  BY DEF Slots
<1> HIDE DEF C
<1>3. k \in Nat /\ k + 1 <= C
  BY <1>1, <1>2
<1>4. (k + 1) * Word <= C * Word
  BY <1>1, <1>3
<1>5. (k + 1) * Word = k * Word + Word /\ k * Word \in Nat
  BY <1>1, <1>3
<1>6. QED
  BY <1>1, <1>3, <1>4, <1>5

(* What the loader's memory holds at address a. *)
byteOf(f, a) == IF a \in DOMAIN f THEN f[a] ELSE 0

(* The loader's memory f holds words 1 to m and nothing else. *)
UpTo(ws, m, f) == \A a \in Nat : IsByte(ws, 1, m, a, byteOf(f, a))

(* A window is written over words that lie before it: its own bytes appear *)
(* and no byte of an earlier word changes, though a window may begin       *)
(* before the one in front of it ends.                                     *)
LEMMA WindowRestored ==
  ASSUME NEW ws, Apart(ws), NEW w, NEW m \in Nat, NEW e \in Nat,
         IsWindow(ws, w, m + 1, e), UpTo(ws, m, mem),
         NEW f, f = [a \in DOMAIN mem \cup DOMAIN restored(w) |->
                       IF a \in DOMAIN restored(w) THEN restored(w)[a] ELSE mem[a]]
  PROVE  UpTo(ws, e - 1, f)
<1> DEFINE N == DOMAIN restored(w)
           L == Len(ws)
<1>1. Word \in Nat \ {0} /\ Cover \in Nat \ {0} /\ L \in Nat
  BY CoverFacts, ApartFacts
<1>2. /\ m + 1 \in 1..L /\ e \in ((m + 1) + 1)..(L + 1) /\ w.addr = ws[m + 1].addr
      /\ DOMAIN w.data \subseteq Slots
      /\ \A c \in (m + 1)..(e - 1) : ws[c].addr + Word <= w.addr + Cover
  BY DEF IsWindow
<1>0. \A o \in 0..(Cover - 1) :
        IsByte(ws, m + 1, e - 1, w.addr + o,
               IF o \div Word \in DOMAIN w.data THEN w.data[o \div Word][o % Word] ELSE 0)
  BY DEF IsWindow
<1>3. \A n \in 1..L : ws[n].addr \in Nat
  BY ApartFacts
<1>4. w.addr \in Nat
  BY <1>2, <1>3
<1>5. \A c \in 1..m : c \in 1..L /\ ws[c].addr + Word <= w.addr
  <2> SUFFICES ASSUME NEW c \in 1..m PROVE c \in 1..L /\ ws[c].addr + Word <= w.addr
    OBVIOUS
  <2>1. c \in 1..L /\ c < m + 1
    BY <1>1, <1>2
  <2>2. QED
    BY <1>2, <2>1, ApartFacts
<1>6. ASSUME NEW c \in (m + 1)..(e - 1)
      PROVE  c \in 1..L /\ w.addr <= ws[c].addr /\ ws[c].addr + Word <= w.addr + Cover
  <2>1. c \in 1..L /\ (c = m + 1 \/ m + 1 < c)
    BY <1>1, <1>2
  <2>2. m + 1 < c => ws[m + 1].addr + Word <= ws[c].addr
    BY <1>2, <2>1, ApartFacts
  <2>3. QED
    BY <1>1, <1>2, <1>3, <2>1, <2>2, SMTT(30)
<1>7. ASSUME NEW a \in Nat
      PROVE  a \in N <=> /\ w.addr <= a /\ a < w.addr + Cover
                         /\ (a - w.addr) \div Word \in DOMAIN w.data
  <2> DEFINE o == a - w.addr
  <2>1. a \in N <=> \E k \in DOMAIN w.data :
                      a \in (w.addr + k * Word)..(w.addr + k * Word + Word - 1)
    BY DEF restored
  <2>2. ASSUME NEW k \in DOMAIN w.data,
               a \in (w.addr + k * Word)..(w.addr + k * Word + Word - 1)
        PROVE  w.addr <= a /\ a < w.addr + Cover /\ o \div Word = k
    <3> DEFINE p == k * Word
    <3>1. k \in Nat /\ p \in Nat /\ p + Word <= Cover
      BY <1>2, SlotEnd
    <3>2. a \in (w.addr + p)..(w.addr + p + Word - 1)
      BY <2>2
    <3> HIDE DEF p
    <3>4. w.addr <= a /\ a < w.addr + Cover /\ o \in Nat /\ p <= o /\ o < p + Word
      BY <1>1, <1>4, <3>1, <3>2, SMTT(30)
    <3>5. o \div Word = k
      BY <1>1, <3>1, <3>4, DivUnique DEF p
    <3>6. QED
      BY <3>4, <3>5
  <2>3. ASSUME w.addr <= a, a < w.addr + Cover, o \div Word \in DOMAIN w.data
        PROVE  a \in (w.addr + (o \div Word) * Word)..(w.addr + (o \div Word) * Word + Word - 1)
    <3> DEFINE p == (o \div Word) * Word
               n == o % Word
    <3>1. o \in Nat
      BY <1>4, <2>3
    <3>2. p \in Int /\ n \in 0..(Word - 1) /\ o = p + n
      <4>1. /\ o \div Word \in Nat /\ o % Word \in 0..(Word - 1)
            /\ o = (o \div Word) * Word + (o % Word)
        BY <1>1, <3>1, DivMod
      <4>2. (o \div Word) * Word \in Int
        BY <1>1, <4>1
      <4>3. QED
        BY <4>1, <4>2
    <3> HIDE DEF p, n
    <3>3. p <= o /\ o < p + Word
      BY <1>1, <3>1, <3>2
    <3>4. a \in (w.addr + p)..(w.addr + p + Word - 1)
      BY <1>1, <1>4, <3>1, <3>2, <3>3
    <3>5. QED
      BY <3>4 DEF p
  <2>4. QED
    BY <2>1, <2>2, <2>3
<1>8. \A a \in N : restored(w)[a] = w.data[(a - w.addr) \div Word][(a - w.addr) % Word]
  BY DEF restored
<1>9. ASSUME NEW a \in Nat
      PROVE  byteOf(f, a) = IF a \in N THEN restored(w)[a] ELSE byteOf(mem, a)
  BY DEF byteOf
<1> HIDE DEF N
<1>10. \A c \in 1..(e - 1) : c \in 1..m \/ c \in (m + 1)..(e - 1)
  BY <1>1, <1>2
<1>11. /\ \A c \in 1..m : c \in 1..(e - 1)
       /\ \A c \in (m + 1)..(e - 1) : c \in 1..(e - 1)
  BY <1>1, <1>2
<1>12. ASSUME NEW a \in Nat PROVE IsByte(ws, 1, e - 1, a, byteOf(f, a))
  <2> DEFINE o == a - w.addr
             v == IF o \div Word \in DOMAIN w.data THEN w.data[o \div Word][o % Word] ELSE 0
  <2>1. IsByte(ws, 1, m, a, byteOf(mem, a))
    BY DEF UpTo
  <2>2. CASE w.addr <= a /\ a < w.addr + Cover
    <3>1. o \in 0..(Cover - 1) /\ w.addr + o = a
      BY <1>1, <1>4, <2>2
    <3>2. IsByte(ws, m + 1, e - 1, a, v)
      BY <1>0, <3>1
    <3>3. \A c \in 1..m : ~holds(ws, c, a)
      <4>1. \A c \in 1..m : ws[c].addr \in Nat /\ ws[c].addr + Word <= w.addr
        BY <1>3, <1>5
      <4>2. QED
        BY <1>1, <1>4, <2>2, <4>1 DEF holds
    <3>4. byteOf(mem, a) = 0
      BY <2>1, <3>3 DEF IsByte
    <3>5. byteOf(f, a) = v
      <4>1. CASE o \div Word \in DOMAIN w.data
        BY <1>7, <1>8, <1>9, <2>2, <4>1
      <4>2. CASE o \div Word \notin DOMAIN w.data
        BY <1>7, <1>9, <2>2, <3>4, <4>2
      <4>3. QED
        BY <4>1, <4>2
    <3> HIDE DEF v
    <3>6. IsByte(ws, 1, e - 1, a, v)
      BY <1>10, <1>11, <3>2, <3>3 DEF IsByte
    <3>7. QED
      BY <3>5, <3>6
  <2>3. CASE ~(w.addr <= a /\ a < w.addr + Cover)
    <3>1. byteOf(f, a) = byteOf(mem, a)
      BY <1>7, <1>9, <2>3
    <3>2. \A c \in (m + 1)..(e - 1) : ~holds(ws, c, a)
      <4>1. \A c \in (m + 1)..(e - 1) :
              ws[c].addr \in Nat /\ w.addr <= ws[c].addr /\ ws[c].addr + Word <= w.addr + Cover
        BY <1>3, <1>6
      <4>2. QED
        BY <1>1, <1>4, <2>3, <4>1, SMTT(30) DEF holds
    <3>3. IsByte(ws, 1, e - 1, a, byteOf(mem, a))
      BY <1>10, <1>11, <2>1, <3>2 DEF IsByte
    <3>4. QED
      BY <3>1, <3>3
  <2>4. QED
    BY <2>2, <2>3
<1>13. QED
  BY <1>12 DEF UpTo

-----------------------------------------------------------------------------
(* saveFLoads_comp: the chunks hold the words in front of word i, and the  *)
(* last chunk is closed with the last word.                                *)
SaveInv ==
  /\ i \in 1..(Len(firstloads) + 1)
  /\ file \in Seq(ChunkType) /\ tempdata \in Seq(WindowType)
  /\ Holds(firstloads, chunks(file, tempdata), 1, i)
  /\ i = Len(firstloads) + 1 => tempdata = <<>>

(* recovery_fastlz: the memory holds the first words, the file the rest.   *)
LoadInv ==
  \E m \in 0..Len(firstloads) :
    /\ UpTo(firstloads, m, mem)
    /\ Holds(firstloads, file, m + 1, Len(firstloads) + 1)

(* The inductive invariant. *)
IInv ==
  /\ loads \in Inputs
  /\ phase \in {"combine", "save", "load", "done"}
  /\ phase = "combine" => CombineInv /\ i = 1 /\ tempdata = <<>> /\ file = <<>>
  /\ phase \in {"combine", "save"} => DOMAIN mem = {}
  /\ phase # "combine" => WordsInv
  /\ phase = "save" => SaveInv
  /\ phase = "load" => LoadInv
  /\ phase = "done" => UpTo(firstloads, Len(firstloads), mem)

(* A window is saved. *)
LEMMA SaveStep ==
  ASSUME Apart(firstloads), SaveInv, saveFLoads_comp
  PROVE  SaveInv'
<1> DEFINE L == Len(firstloads)
           e == nextWindow
           g == Append(file, Append(tempdata, window))
           full == isFull(tdsize + HeadSize + Word * Cardinality(map1), e = L + 1)
<1>1. L \in Nat
  BY ApartFacts
<1>2. /\ i <= L /\ i' = e /\ firstloads' = firstloads
      /\ IF full THEN file' = g /\ tempdata' = <<>>
         ELSE tempdata' = Append(tempdata, window) /\ file' = file
  BY DEF saveFLoads_comp, compress_write
<1>3. i \in 1..L
  BY <1>1, <1>2 DEF SaveInv
<1>4. window \in WindowType /\ IsWindow(firstloads, window, i, e) /\ e \in (i + 1)..(L + 1)
  BY <1>3, WindowFacts, NextWindowFacts
<1>5. e = L + 1 => full
  BY DEF isFull
<1> DEFINE w == window
<1> HIDE DEF e, full, w
<1>6. e \in Nat /\ e \in 1..(L + 1)
  BY <1>1, <1>3, <1>4
<1>7. Holds(firstloads, g, 1, e)
  BY <1>3, <1>4, <1>6, HoldsMore DEF SaveInv
<1>8. Append(tempdata, window) \in Seq(WindowType) /\ Append(tempdata, window) # <<>>
  <2> DEFINE u == Append(tempdata, window)
  <2>1. u \in Seq(WindowType) /\ Len(u) = Len(tempdata) + 1 /\ Len(tempdata) \in Nat
    BY <1>4, AppendProperties, LenProperties DEF SaveInv
  <2> HIDE DEF u
  <2>2. Len(u) # 0 /\ Len(<<>>) = 0
    BY <2>1, EmptySeq
  <2>3. u # <<>>
    BY <2>2, Zenon
  <2>4. QED
    BY <2>1, <2>3 DEF u
<1>9. g \in Seq(ChunkType)
  BY <1>7 DEF Holds
<1>10. CASE full
  <2>1. chunks(file', tempdata') = g
    BY <1>2, <1>10 DEF chunks
  <2>2. file' \in Seq(ChunkType) /\ tempdata' \in Seq(WindowType) /\ tempdata' = <<>>
    BY <1>2, <1>9, <1>10, EmptySeq
  <2>3. QED
    BY <1>2, <1>6, <1>7, <2>1, <2>2 DEF SaveInv
<1>11. CASE ~full
  <2>1. file' = file /\ tempdata' = Append(tempdata, window)
    BY <1>2, <1>11
  <2>2. chunks(file', tempdata') = g
    BY <1>8, <2>1 DEF chunks
  <2>3. file' \in Seq(ChunkType) /\ tempdata' \in Seq(WindowType)
    BY <1>8, <2>1 DEF SaveInv
  <2>4. QED
    BY <1>2, <1>5, <1>6, <1>7, <1>11, <2>2, <2>3 DEF SaveInv
<1>12. QED
  BY <1>10, <1>11

(* A window is restored. *)
LEMMA LoadStep ==
  ASSUME Apart(firstloads), LoadInv, recovery_fastlz
  PROVE  LoadInv'
<1> DEFINE L == Len(firstloads)
           w == Head(Head(file))
           r == IF Len(Head(file)) = 1 THEN Tail(file) ELSE <<Tail(Head(file))>> \o Tail(file)
<1>1. L \in Nat
  BY ApartFacts
<1>2. PICK m \in 0..L : UpTo(firstloads, m, mem) /\ Holds(firstloads, file, m + 1, L + 1)
  BY DEF LoadInv
<1>3. /\ file # <<>> /\ file' = r /\ firstloads' = firstloads
      /\ mem' = [a \in DOMAIN mem \cup DOMAIN restored(w) |->
                   IF a \in DOMAIN restored(w) THEN restored(w)[a] ELSE mem[a]]
  BY DEF recovery_fastlz
<1>4. m \in Nat /\ m + 1 \in Nat /\ L + 1 \in Nat
  BY <1>1
<1>5. PICK e \in Nat : IsWindow(firstloads, w, m + 1, e) /\ Holds(firstloads, r, e, L + 1)
  BY <1>2, <1>3, <1>4, HoldsRest
<1> HIDE DEF w, r
<1>6. UpTo(firstloads, e - 1, mem')
  BY <1>2, <1>3, <1>4, <1>5, WindowRestored
<1>7. e \in ((m + 1) + 1)..(L + 1)
  BY <1>5 DEF IsWindow
<1>8. e - 1 \in 0..L /\ (e - 1) + 1 = e
  BY <1>1, <1>4, <1>7
<1>9. QED
  BY <1>3, <1>5, <1>6, <1>8 DEF LoadInv

(* The invariant holds at the start. *)
LEMMA IInvInit ==
  Init => IInv
<1> SUFFICES ASSUME Init PROVE IInv
  OBVIOUS
<1>1. Apart(<<>>)
  BY DEF Apart
<1>2. QED
  BY <1>1 DEF Init, IInv, CombineInv, NoWord

(* Every step keeps it. *)
LEMMA IInvStep ==
  IInv /\ [Next]_vars => IInv'
<1> SUFFICES ASSUME IInv, [Next]_vars PROVE IInv'
  OBVIOUS
<1>1. CASE combine_loads
  <2>1. phase = "combine" /\ phase' = phase /\ i' = i /\ tempdata' = tempdata /\ file' = file
        /\ mem' = mem
    BY <1>1 DEF combine_loads
  <2>2. CombineInv' /\ loads' = loads
    BY <1>1, <2>1, CombineStep DEF IInv
  <2>3. QED
    BY <2>1, <2>2 DEF IInv
<1>2. CASE combined
  <2>1. /\ phase = "combine" /\ phase' = "save" /\ loads' = loads /\ i' = i /\ mem' = mem
        /\ tempdata' = tempdata /\ file' = file
    BY <1>2 DEF combined
  <2>2. WordsInv'
    BY <1>2, <2>1, CombinedWords DEF IInv
  <2>3. SaveInv'
    <3>1. i' = 1 /\ tempdata' = <<>> /\ file' = <<>> /\ Len(firstloads') \in Nat
      BY <2>1, <2>2, ApartFacts DEF IInv, WordsInv
    <3>2. Holds(firstloads', <<>>, 1, 1)
      BY EmptySeq DEF Holds
    <3>3. QED
      BY <3>1, <3>2, EmptySeq DEF SaveInv, chunks
  <2>4. QED
    BY <2>1, <2>2, <2>3 DEF IInv
<1>3. CASE saveFLoads_comp
  <2>1. /\ phase = "save" /\ phase' = phase /\ loads' = loads /\ firstloads' = firstloads
        /\ mem' = mem
    BY <1>3 DEF saveFLoads_comp
  <2>2. SaveInv'
    BY <1>3, <2>1, SaveStep DEF IInv, WordsInv
  <2>3. WordsInv'
    BY <2>1 DEF IInv, WordsInv
  <2>4. QED
    BY <2>1, <2>2, <2>3 DEF IInv
<1>4. CASE saveDone
  <2>1. /\ phase = "save" /\ phase' = "load" /\ loads' = loads /\ firstloads' = firstloads
        /\ mem' = mem /\ file' = file /\ i > Len(firstloads)
    BY <1>4 DEF saveDone
  <2>2. WordsInv' /\ Len(firstloads) \in Nat
    BY <2>1, ApartFacts DEF IInv, WordsInv
  <2>3. i = Len(firstloads) + 1 /\ chunks(file, tempdata) = file
    BY <2>1, <2>2 DEF IInv, SaveInv, chunks
  <2>4. Holds(firstloads, file, 0 + 1, Len(firstloads) + 1)
    BY <2>1, <2>3 DEF IInv, SaveInv
  <2>5. UpTo(firstloads, 0, mem)
    BY <2>1 DEF IInv, UpTo, byteOf, IsByte
  <2>6. LoadInv'
    BY <2>1, <2>2, <2>4, <2>5 DEF LoadInv
  <2>7. QED
    BY <2>1, <2>2, <2>6 DEF IInv
<1>5. CASE recovery_fastlz
  <2>1. phase = "load" /\ phase' = phase /\ loads' = loads /\ firstloads' = firstloads
    BY <1>5 DEF recovery_fastlz
  <2>2. LoadInv'
    BY <1>5, <2>1, LoadStep DEF IInv, WordsInv
  <2>3. WordsInv'
    BY <2>1 DEF IInv, WordsInv
  <2>4. QED
    BY <2>1, <2>2, <2>3 DEF IInv
<1>6. CASE recovered
  <2>1. /\ phase = "load" /\ phase' = "done" /\ loads' = loads /\ firstloads' = firstloads
        /\ mem' = mem /\ file = <<>>
    BY <1>6 DEF recovered
  <2>2. WordsInv' /\ Len(firstloads) \in Nat
    BY <2>1, ApartFacts DEF IInv, WordsInv
  <2>3. UpTo(firstloads, Len(firstloads), mem)
    <3>1. PICK m \in 0..Len(firstloads) :
                 /\ UpTo(firstloads, m, mem)
                 /\ Holds(firstloads, file, m + 1, Len(firstloads) + 1)
      BY <2>1 DEF IInv, LoadInv
    <3>2. m + 1 = Len(firstloads) + 1
      BY <2>1, <3>1 DEF Holds
    <3>3. m = Len(firstloads)
      BY <2>2, <3>2
    <3>4. QED
      BY <3>1, <3>3
  <2>4. QED
    BY <2>1, <2>2, <2>3 DEF IInv
<1>7. CASE UNCHANGED vars
  BY <1>7 DEF vars, IInv, CombineInv, Visited, WordsInv, SaveInv, LoadInv
<1>8. QED
  BY <1>1, <1>2, <1>3, <1>4, <1>5, <1>6, <1>7 DEF Next

(* When the replay starts, the loader's memory holds every byte that the   *)
(* recorder saw loaded first, for every word, window and chunk size and    *)
(* every set of recorded bytes: combine_loads, saveFLoads_comp and         *)
(* recovery_fastlz together lose and mix up nothing.                       *)
THEOREM BytesSurvive ==
  Spec => []BytesRestored
<1>1. IInv => BytesRestored
  <2> SUFFICES ASSUME IInv, phase = "done", NEW a \in DOMAIN loads
               PROVE  loads[a] = IF a \in DOMAIN mem THEN mem[a] ELSE 0
    BY DEF BytesRestored
  <2>1. /\ Apart(firstloads) /\ Len(firstloads) \in Nat /\ a \in Nat
        /\ IsByte(firstloads, 1, Len(firstloads), a, loads[a])
    BY ApartFacts, LoadFacts DEF IInv, WordsInv
  <2>2. IsByte(firstloads, 1, Len(firstloads), a, byteOf(mem, a))
    BY <2>1 DEF IInv, UpTo
  <2>3. loads[a] = byteOf(mem, a)
    BY <2>1, <2>2, ByteUnique
  <2>4. QED
    BY <2>3 DEF byteOf
<1>2. QED
  BY IInvInit, IInvStep, <1>1, PTL DEF Spec

-----------------------------------------------------------------------------
(* compress_write waits only while the chunk is short of the limit. *)
SizeInv == tdsize \in Nat /\ tdsize <= MaxCompressSize

(* The chunk that saveFLoads_comp collects never outgrows the buffer of    *)
(* the simulator or of the loader: a window more always fits.              *)
THEOREM BufferSuffices ==
  Spec => []BufferFits
<1>1. /\ HeadSize \in Nat /\ MaxCompressSize \in Nat /\ Word \in Nat /\ Cover \in Nat
      /\ ExtraDataSize \in Nat /\ ExtraDataSize >= HeadSize + Cover
  BY FileAssumption
<1>2. Init => SizeInv
  BY <1>1 DEF Init, SizeInv
<1>3. SizeInv /\ [Next]_vars => SizeInv'
  <2> SUFFICES ASSUME SizeInv, [Next]_vars PROVE SizeInv'
    OBVIOUS
  <2>1. CASE saveFLoads_comp
    <3> DEFINE n == Cardinality(map1)
               size == tdsize + HeadSize + Word * n
               end == nextWindow = Len(firstloads) + 1
    <3>1. n \in Nat
      <4>1. map1 \subseteq 0..(Cover \div Word - 1)
        BY DEF map1
      <4>2. IsFiniteSet(0..(Cover \div Word - 1))
        BY CoverFacts, FS_Interval
      <4>3. IsFiniteSet(map1)
        BY <4>1, <4>2, FS_Subset
      <4>4. QED
        BY <4>3, FS_CardinalityType
    <3>2. tdsize' = IF isFull(size, end) THEN 0 ELSE size
      BY <2>1 DEF saveFLoads_comp
    <3> HIDE DEF n
    <3>3. Word * n \in Nat
      BY <1>1, <3>1
    <3>4. size \in Nat
      BY <1>1, <3>3 DEF SizeInv
    <3> HIDE DEF size, end
    <3>5. CASE isFull(size, end)
      BY <1>1, <3>2, <3>5 DEF SizeInv
    <3>6. CASE ~isFull(size, end)
      BY <1>1, <3>2, <3>4, <3>6 DEF SizeInv, isFull
    <3>7. QED
      BY <3>5, <3>6
  <2>2. CASE combine_loads \/ combined \/ saveDone \/ recovery_fastlz \/ recovered \/ UNCHANGED vars
    <3>1. tdsize' = tdsize
      BY <2>2 DEF combine_loads, combined, saveDone, recovery_fastlz, recovered, vars
    <3>2. QED
      BY <3>1 DEF SizeInv
  <2>3. QED
    BY <2>1, <2>2 DEF Next
<1>4. SizeInv => BufferFits
  BY <1>1 DEF SizeInv, BufferFits
<1>5. QED
  BY <1>2, <1>3, <1>4, PTL DEF Spec

=============================================================================
