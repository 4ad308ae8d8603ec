------------------------------- MODULE Ranges -------------------------------
(***************************************************************************)
(* The address ranges of a checkpoint.  CkptInfo::detectOver adds the      *)
(* pages of system call buffers and of first loads to the accessed blocks, *)
(* turns the code addresses and the blocks into ranges (getRange), and     *)
(* takes away from the memory ranges what lies below the end of the code.  *)
(* The loader maps one segment for all the code (loadelf), then every      *)
(* memory range over whatever is there (alloc_memrange), and only then     *)
(* writes the first loads.                                                 *)
(*                                                                         *)
(* Every loop iteration is a step; ranges are [addr, size].                *)
(***************************************************************************)
EXTENDS Integers, Sequences, FiniteSets

CONSTANTS
  PageSize,     (* 4096 in the code.                                       *)
  Block,        (* AccessRange, a multiple of the page size (8192).        *)
  Word,         (* Bytes of a first load (8).                              *)
  IntMax,       (* Values of a 32-bit int: -IntMax .. IntMax - 1.          *)
  Inputs        (* Slices: what each executed and accessed.                *)

(* A slice: the recorded instruction addresses, the bytes accessed by      *)
(* loads and stores, the addresses of the first-load words and the         *)
(* buffers written by system calls.  First-load words begin at bytes that  *)
(* were loaded.                                                            *)
ASSUME InputAssumption ==
  /\ PageSize \in Nat \ {0}
  /\ Block \in Nat \ {0} /\ Block % PageSize = 0
  /\ Word \in 1..PageSize
  /\ IntMax \in Nat \ {0}
  /\ \A x \in Inputs :
       /\ x.text \subseteq Nat /\ x.text # {}
       /\ x.data \subseteq Nat /\ x.data # {}
       /\ x.words \subseteq x.data
       /\ x.bufs \subseteq [addr : Nat, size : Nat \ {0}]

VARIABLES
  input,      (* the slice                                                 *)
  phase,      (* loop being executed                                       *)
  preAccess,  (* accessed blocks                                           *)
  todo,       (* addresses that getRange has still to visit                *)
  r,          (* the range that getRange is building                       *)
  textrange, memrange,
  i,          (* position in memrange                                      *)
  mapped,     (* loader: pages that are mapped                             *)
  code        (* loader: pages that hold the program's code                *)

vars == <<input, phase, preAccess, todo, r, textrange, memrange, i, mapped, code>>

Page(a) == (a \div PageSize) * PageSize

BlockOf(a) == (a \div Block) * Block

Least(S) == CHOOSE a \in S : \A b \in S : a <= b

Init ==
  /\ input \in Inputs
  /\ phase = "access"
  /\ preAccess = {BlockOf(a) : a \in input.data}
  /\ todo = {}
  /\ r = [addr |-> 0, size |-> 0]
  /\ textrange = <<>>
  /\ memrange = <<>>
  /\ i = 1
  /\ mapped = {}
  /\ code = {}

-----------------------------------------------------------------------------
(* The pages of the system call buffers, with a page to spare, and of the  *)
(* first-load words.                                                       *)
bufPages(b) ==
  {p \in Page(b.addr) .. (b.addr + b.size + PageSize) : Page(p) = p}

wordPages(a) ==
  {Page(a)} \cup IF Page(a) + PageSize < a + Word THEN {Page(a) + PageSize}
                                                  ELSE {}

addPages ==
  /\ phase = "access"
  /\ preAccess' = preAccess
       \cup {BlockOf(p) : p \in UNION {bufPages(b) : b \in input.bufs}}
       \cup {BlockOf(p) : p \in UNION {wordPages(a) : a \in input.words}}
  /\ todo' = input.text
  /\ r' = [addr |-> Page(Least(input.text)), size |-> PageSize]
  /\ phase' = "text"
  /\ UNCHANGED <<input, textrange, memrange, i, mapped, code>>

(* One iteration of getRange with ranges made of units: skip an address    *)
(* inside the range, extend the range by the unit behind it, or begin a    *)
(* new one.                                                                *)
getRange_Gap(unit, a, ranges) ==
  LET len == a - (r.addr + r.size) IN
  CASE len < 0     -> [r |-> r, ranges |-> ranges]
    [] len = 0     -> [r |-> [r EXCEPT !.size = @ + unit], ranges |-> ranges]
    [] OTHER       -> [r |-> [addr |-> Page(a), size |-> unit],
                       ranges |-> Append(ranges, r)]

getRange(unit, a, ranges) ==
  LET len == a - (r.addr + r.size) IN
  CASE len < 0     -> [r |-> r, ranges |-> ranges]
    [] 0 <= len /\ len < unit ->
         [r |-> [r EXCEPT !.size = @ + unit], ranges |-> ranges]
    [] OTHER       -> [r |-> [addr |-> Page(a), size |-> unit],
                       ranges |-> Append(ranges, r)]

TextRange ==
  /\ phase = "text"
  /\ todo # {}
  /\ LET next == getRange(PageSize, Least(todo), textrange)
     IN r' = next.r /\ textrange' = next.ranges
  /\ todo' = todo \ {Least(todo)}
  /\ UNCHANGED <<input, phase, preAccess, memrange, i, mapped, code>>

(* The last code range.  With no block, getRange would read the end        *)
(* iterator of an empty map; InputAssumption leaves out slices that access *)
(* no memory.                                                              *)
TextDone ==
  /\ phase = "text"
  /\ todo = {}
  /\ textrange' = Append(textrange, r)
  /\ todo' = preAccess
  /\ r' = [addr |-> Page(Least(preAccess)), size |-> Block]
  /\ phase' = "mem"
  /\ UNCHANGED <<input, preAccess, memrange, i, mapped, code>>

MemRange ==
  /\ phase = "mem"
  /\ todo # {}
  /\ LET next == getRange(Block, Least(todo), memrange)
     IN r' = next.r /\ memrange' = next.ranges
  /\ todo' = todo \ {Least(todo)}
  /\ UNCHANGED <<input, phase, preAccess, textrange, i, mapped, code>>

MemDone ==
  /\ phase = "mem"
  /\ todo = {}
  /\ memrange' = Append(memrange, r)
  /\ phase' = "trim"
  /\ i' = 1
  /\ UNCHANGED <<input, preAccess, todo, r, textrange, mapped, code>>

-----------------------------------------------------------------------------
(* int textend: the end of the code, as a 32-bit int that is converted     *)
(* back to an unsigned 64-bit value for the comparisons.  A negative value *)
(* becomes larger than every address.                                      *)
last(s) == s[Len(s)]

textEnd == last(textrange).addr + last(textrange).size

Huge == 2 * IntMax * IntMax

textend == IF textEnd % (2 * IntMax) < IntMax THEN textEnd % (2 * IntMax) ELSE Huge

(* What becomes of a memory range that begins below textend. *)
trimmed_Whole(range) == <<>>

trimmed_Nothing(range) == <<range>>

trimmed(range) ==
  IF range.addr + range.size > textend
    THEN <<[addr |-> textend, size |-> range.addr + range.size - textend]>>
    ELSE <<>>

Trim ==
  LET kept == trimmed(memrange[i]) IN
  /\ phase = "trim"
  /\ i <= Len(memrange)
  /\ memrange[i].addr < textend
  /\ memrange' = SubSeq(memrange, 1, i - 1) \o kept
                   \o SubSeq(memrange, i + 1, Len(memrange))
  /\ i' = i + Len(kept)
  /\ UNCHANGED <<input, phase, preAccess, todo, r, textrange, mapped, code>>

-----------------------------------------------------------------------------
(* The loader. *)
PagesOf(addr, size) == {p \in addr .. (addr + size - 1) : Page(p) = p}

(* loadelf: one mapping from the first to behind the last code range, into *)
(* which the code ranges are read.                                         *)
text_seg ==
  [addr |-> textrange[1].addr, size |-> textEnd + PageSize - textrange[1].addr]

loadelf ==
  /\ phase = "trim"
  /\ i <= Len(memrange) => memrange[i].addr >= textend
  /\ mapped' = PagesOf(text_seg.addr, text_seg.size)
  /\ code' = UNION {PagesOf(textrange[n].addr, textrange[n].size) :
                      n \in DOMAIN textrange}
  /\ phase' = "map"
  /\ i' = 1
  /\ UNCHANGED <<input, preAccess, todo, r, textrange, memrange>>

(* alloc_memrange: a fresh mapping, a page larger than the range; what was *)
(* there is gone.                                                          *)
alloc_memrange ==
  LET pages == PagesOf(memrange[i].addr, memrange[i].size + PageSize) IN
  /\ phase = "map"
  /\ i <= Len(memrange)
  /\ mapped' = mapped \cup pages
  /\ code' = code \ pages
  /\ i' = i + 1
  /\ UNCHANGED <<input, phase, preAccess, todo, r, textrange, memrange>>

Mapped ==
  /\ phase = "map"
  /\ i > Len(memrange)
  /\ phase' = "done"
  /\ UNCHANGED <<input, preAccess, todo, r, textrange, memrange, i, mapped, code>>

-----------------------------------------------------------------------------
(* The simulator, when it replays the checkpoint to create others: one     *)
(* flag per page from the first to the last code range (initCkptSysInfo),  *)
(* by which isCkptInst tells the program's instructions from the loader's. *)
(* The map has 64K flags; the guest's code is taken to be smaller.         *)
ckptinst_map ==
  UNION {LET start == (textrange[n].addr - textrange[1].addr) \div PageSize
         IN start .. (start + textrange[n].size \div PageSize - 1) :
           n \in DOMAIN textrange}

isCkptInst_Segment(a) == textrange[1].addr <= a /\ a <= textEnd

isCkptInst(a) ==
  /\ textrange[1].addr <= a /\ a < textEnd
  /\ (a \div PageSize) - (textrange[1].addr \div PageSize) \in ckptinst_map

Next ==
  \/ addPages \/ TextRange \/ TextDone \/ MemRange \/ MemDone
  \/ Trim \/ loadelf \/ alloc_memrange \/ Mapped

Spec == Init /\ [][Next]_vars

-----------------------------------------------------------------------------
(* The bytes that the restore and the replay touch: accesses, first-load   *)
(* words and system call buffers.                                          *)
Touched ==
  input.data \cup {a + k : a \in input.words, k \in 0..(Word - 1)}
    \cup UNION {b.addr .. (b.addr + b.size - 1) : b \in input.bufs}

(* Everything that the restore and the replay touch is mapped, although    *)
(* the memory ranges were cut at the end of the code and the code segment  *)
(* begins only at the first executed page.                                 *)
TouchedIsMapped ==
  phase = "done" => \A a \in Touched : Page(a) \in mapped

(* Mapping the memory ranges after the code was read does not wipe a page  *)
(* from which the slice executed.                                          *)
CodeIntact ==
  phase = "done" => \A a \in input.text : Page(a) \in code

(* The ranges written to the file are sorted and disjoint, which           *)
(* getRangeInfo relies on when it looks for gaps between them.             *)
RangesSorted ==
  phase \in {"map", "done"} =>
    /\ \A n \in 1..(Len(textrange) - 1) :
         textrange[n].addr + textrange[n].size < textrange[n + 1].addr
    /\ \A n \in 1..(Len(memrange) - 1) :
         memrange[n].addr + memrange[n].size < memrange[n + 1].addr

(* In a re-creation exactly the pages from which the slice executed count  *)
(* as the program: a trampoline of the loader in a gap between code ranges *)
(* is not taken for it, and no instruction of the program is missed.       *)
BenchExactlyCode ==
  phase = "done" =>
    \A a \in textrange[1].addr - PageSize .. textEnd + PageSize :
      isCkptInst(a) <=> \E t \in input.text : Page(t) = Page(a)
=============================================================================
