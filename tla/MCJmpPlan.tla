----------------------------- MODULE MCJmpPlan -----------------------------
(* Instances of the jump planner for TLC, with real addresses.             *)
EXTENDS JmpPlan, SequencesExt

KB == 1024

MB == KB * KB

Pages(addr, n) == [addr |-> addr, size |-> n * 4 * KB]

(* Code ranges around 64 KB, 1 MB and 2 MB further up, so that some        *)
(* distances lie just below and some just above the reach of a jal.        *)
Ranges ==
  {Pages(64 * KB, 1), Pages(72 * KB, 2), Pages(64 * KB + MB, 1),
   Pages(72 * KB + MB, 1), Pages(76 * KB + 2 * MB, 1), Pages(84 * KB + 2 * MB, 1)}

Texts ==
  {SetToSortSeq(S, LAMBDA a, b : a.addr < b.addr) : S \in SUBSET Ranges \ {{}}}

(* The page offsets at which the distance to a gap a whole number of pages *)
(* away is at the limit, and the ends of a page.                           *)
Offsets == {0, 76, 80, 4016, 4020, 4092}

Pcs(text) ==
  UNION {{text[n].addr + o : o \in Offsets} : n \in DOMAIN text}

Checkpoints ==
  UNION {[text : {t}, pcs : {{a, b} : a, b \in Pcs(t)}] : t \in Texts}
=============================================================================
