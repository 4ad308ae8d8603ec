---------------------------- MODULE MCFirstLoads ----------------------------
(* Small instances of the first-load recorder for TLC. *)
EXTENDS FirstLoads

Access(ops, a, n) == [op : ops, addr : {a}, size : {n}]

(* Two bytes on each side of a block boundary, which is also the border    *)
(* of a line and of a page.                                                *)
FourBytes == 2..5

AlignedAccesses ==
  Access(Ops, 2, 2) \cup Access(Ops, 3, 1) \cup Access(Ops, 4, 1)
                    \cup Access(Ops, 4, 2)

(* A misaligned store with three bytes in the first block and one in the   *)
(* second, and byte loads.                                                 *)
SixBytes == 1..6

BlockCrossingStore ==
  Access({"store"}, 1, 4) \cup Access({"load"}, 4, 1) \cup Access({"load"}, 5, 1)
=============================================================================
