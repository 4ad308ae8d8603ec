------------------------------ MODULE JmpPlan ------------------------------
(***************************************************************************)
(* How newreadckpt plans its jumps (user_jmp.cpp).  A program address and  *)
(* the loader are too far apart for one jal, so every recorded ecall, the  *)
(* first and the exit instruction get a trampoline ("midpoint") in a gap   *)
(* between the code ranges: four instructions that jump on to the loader,  *)
(* and 32 bytes behind them four that restore a0 and jump back.            *)
(*                                                                         *)
(* getRangeInfo collects the gaps; findMidPoints walks through the sorted  *)
(* addresses and the gaps with one cursor each.  Every iteration of a loop *)
(* is a step.  Addresses and distances have their real values.             *)
(***************************************************************************)
EXTENDS Integers, Sequences, FiniteSets

CONSTANTS
  IntMax,    (* Values of an int: -IntMax .. IntMax - 1 (2^31 in the code). *)
  Inputs     (* Checkpoints: code ranges, and the addresses to reach. *)

MaxJALOffset == 1048560     (* 0xFFFF0 *)

freemem == 64               (* 0x40 *)

ASSUME InputAssumption ==
  /\ IntMax \in Nat \ {0}
  /\ \A x \in Inputs :
       /\ x.text \in Seq([addr : Nat, size : Nat \ {0}])
       /\ x.pcs \subseteq Nat

VARIABLES
  input,     (* the checkpoint                                              *)
  i,         (* code range that getRangeInfo looks at                       *)
  freeRanges, (* the gaps                                                   *)
  todo,      (* addresses without a midpoint yet                            *)
  r,         (* cursor into the gaps, never moved back                      *)
  midpoint,  (* midpoints found, by address                                 *)
  status     (* "gaps", "plan", "planned", or "failed" when the loader      *)
             (* gives up                                                    *)

vars == <<input, i, freeRanges, todo, r, midpoint, status>>

Init ==
  /\ input \in Inputs
  /\ i = 2
  /\ freeRanges = <<>>
  /\ todo = input.pcs
  /\ r = 1
  /\ midpoint = [pc \in {} |-> 0]
  /\ status = "gaps"

-----------------------------------------------------------------------------
(* getRangeInfo: the gap between two consecutive code ranges.  Its test    *)
(* against the end of text_seg is left out: loadelf sets that end behind   *)
(* the last range, so that no range lies above it.                         *)
gap ==
  LET before == input.text[i - 1] IN
  [addr |-> before.addr + before.size,
   size |-> input.text[i].addr - (before.addr + before.size)]

getRangeInfo ==
  /\ status = "gaps"
  /\ i <= Len(input.text)
  /\ freeRanges' = IF gap.size > 0 THEN Append(freeRanges, gap) ELSE freeRanges
  /\ i' = i + 1
  /\ UNCHANGED <<input, todo, r, midpoint, status>>

processJmp ==
  /\ status = "gaps"
  /\ i > Len(input.text)
  /\ status' = "plan"
  /\ UNCHANGED <<input, i, freeRanges, todo, r, midpoint>>

-----------------------------------------------------------------------------
(* The address that is planned next: the least one. *)
pc == CHOOSE a \in todo : \A b \in todo : a <= b

(* The midpoint that a gap offers an address: its begin to an address      *)
(* below it, its end to any other address.                                 *)
midpointIn_NoRoom(a, g) == IF a < g.addr THEN g.addr ELSE g.addr + g.size

midpointIn(a, g) == IF a < g.addr THEN g.addr ELSE g.addr + g.size - freemem

(* An address difference stored in an int. *)
toInt(x) ==
  LET low == x % (2 * IntMax) IN IF low < IntMax THEN low ELSE low - 2 * IntMax

distance(a, g) ==
  toInt(IF a < g.addr THEN g.addr + freemem - a ELSE a - midpointIn(a, g))

inReach_Twice(a, g) == distance(a, g) <= 2 * MaxJALOffset

inReach(a, g) == distance(a, g) <= MaxJALOffset

midpointFound ==
  [a \in DOMAIN midpoint \cup {pc} |->
     IF a = pc THEN midpointIn(pc, freeRanges[r]) ELSE midpoint[a]]

Found_NextGap ==
  /\ status = "plan"
  /\ todo # {}
  /\ r <= Len(freeRanges)
  /\ inReach(pc, freeRanges[r])
  /\ midpoint' = midpointFound
  /\ todo' = todo \ {pc}
  /\ r' = r + 1
  /\ UNCHANGED <<input, i, freeRanges, status>>

(* The gap is in reach; the cursor stays, so the next address may use it. *)
Found ==
  /\ status = "plan"
  /\ todo # {}
  /\ r <= Len(freeRanges)
  /\ inReach(pc, freeRanges[r])
  /\ midpoint' = midpointFound
  /\ todo' = todo \ {pc}
  /\ UNCHANGED <<input, i, freeRanges, r, status>>

(* A gap that lies too far behind is skipped for good. *)
SkipGap ==
  /\ status = "plan"
  /\ todo # {}
  /\ r <= Len(freeRanges)
  /\ ~inReach(pc, freeRanges[r])
  /\ pc >= freeRanges[r].addr
  /\ r' = r + 1
  /\ UNCHANGED <<input, i, freeRanges, todo, midpoint, status>>

(* The loader exits when the gap lies too far ahead or no gap is left. *)
GiveUp ==
  /\ status = "plan"
  /\ todo # {}
  /\ r <= Len(freeRanges) =>
       ~inReach(pc, freeRanges[r]) /\ pc < freeRanges[r].addr
  /\ status' = "failed"
  /\ UNCHANGED <<input, i, freeRanges, todo, r, midpoint>>

Planned ==
  /\ status = "plan"
  /\ todo = {}
  /\ status' = "planned"
  /\ UNCHANGED <<input, i, freeRanges, todo, r, midpoint>>

Next == getRangeInfo \/ processJmp \/ Found \/ SkipGap \/ GiveUp \/ Planned

Spec == Init /\ [][Next]_vars

-----------------------------------------------------------------------------
(* createJAL: the 20 immediate bits of the instruction, in the order of    *)
(* the encoding (bits 19:12, 11, 10:1, 20 of the offset, upwards).  Shifts *)
(* are by powers of two.                                                   *)
bits(x, shift, n) == (x \div shift) % n

immOf(offset) ==
  bits(offset, 4096, 256) + bits(offset, 2048, 2) * 256
    + bits(offset, 2, 1024) * 512 + bits(offset, 1048576, 2) * 524288

createJAL(from, to) == immOf((to - from) % 2097152)

(* The processor: how far a jal with these immediate bits goes, and where  *)
(* it goes from an address.                                                *)
offsetOf(imm20) ==
  bits(imm20, 512, 1024) * 2 + bits(imm20, 256, 2) * 2048
    + bits(imm20, 1, 256) * 4096 - bits(imm20, 524288, 2) * 1048576

execJAL(at, imm20) == at + offsetOf(imm20)

(* createInsts_jmp2loader: the jal that replaces the instruction.          *)
jmp2loader(a) == execJAL(a, createJAL(a, midpoint[a]))

(* createInsts_jmp2prog: the jal in the last word of the way back.         *)
jalAddr(a) == midpoint[a] + 32 + 12

jmp2prog(a, ret_addr) == execJAL(jalAddr(a), createJAL(jalAddr(a), ret_addr))

(* The bytes of the trampoline of an address. *)
stub(a) == midpoint[a] .. (midpoint[a] + 47)

-----------------------------------------------------------------------------
(* Every planned jal goes where it should: from the replaced instruction   *)
(* to its midpoint, and back behind it or, for the first instruction, to   *)
(* it.  This covers offsets up to the limit in both directions.            *)
JumpsLand ==
  \A a \in DOMAIN midpoint :
    /\ jmp2loader(a) = midpoint[a]
    /\ jmp2prog(a, a + 4) = a + 4
    /\ jmp2prog(a, a) = a

(* Trampolines are written into gaps, not over code, and two of them       *)
(* overlap only if they are the same one.                                  *)
StubsInGaps ==
  \A a \in DOMAIN midpoint :
    /\ \E n \in DOMAIN freeRanges :
         /\ midpoint[a] >= freeRanges[n].addr
         /\ midpoint[a] + freemem <= freeRanges[n].addr + freeRanges[n].size
    /\ \A b \in DOMAIN midpoint :
         midpoint[a] = midpoint[b] \/ stub(a) \cap stub(b) = {}

(* The cursor never passes a gap that a later address needs: the loader    *)
(* gives up only if some address has no gap in reach at all.               *)
GiveUpOnlyIfHopeless ==
  status = "failed" =>
    \E a \in input.pcs : \A n \in DOMAIN freeRanges : ~inReach(a, freeRanges[n])

=============================================================================
