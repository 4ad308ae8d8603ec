----------------------------- MODULE MCRecreate -----------------------------
(* A small replayed checkpoint with three calls from the ecalls at 16 and  *)
(* 4, from which overlapping checkpoints and consecutive traces are made.  *)
EXTENDS Recreate

TwoEcalls == <<16, 4, 16>>

OverlapCtrls ==
  <<[start |-> 1, length |-> 3], [start |-> 2, length |-> 1],
    [start |-> 6, length |-> 4]>>

(* A line with two intervals and a single one after a gap. *)
ConsecutiveTraces ==
  <<[start |-> 1, end |-> 4], [start |-> 4, end |-> 7], [start |-> 8, end |-> 10]>>
=============================================================================
