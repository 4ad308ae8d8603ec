------------------------------ MODULE MCReplay ------------------------------
(* Small instances of a recorded and replayed slice for TLC. *)
EXTENDS Replay

Call(a, num, p0, return, ret, bufaddr, data) ==
  [pc |-> a, num |-> num, p0 |-> p0, return |-> return, ret |-> ret,
   bufaddr |-> bufaddr, data |-> data]

(* Calls from ecalls at 8 and 16 that agree in all but one field, with     *)
(* different amounts of data, with a null buffer, and without a return     *)
(* value.                                                                  *)
TwoEcalls ==
  {Call(8, 1, 7, "value", 0, 0, <<>>),
   Call(8, 1, 7, "value", 1, 0, <<>>),
   Call(8, 1, 6, "value", 1, 0, <<>>),
   Call(8, 1, 7, "value", 1, 9, <<1>>),
   Call(8, 1, 7, "value", 1, 8, <<1>>),
   Call(8, 1, 7, "value", 1, 9, <<1, 2>>),
   Call(16, 1, 7, "value", 1, 9, <<1>>),
   Call(16, 2, 7, "suppressed", 0, 0, <<>>),
   Call(16, 2, 7, "value", 0, 0, <<3>>),
   Call(16, 2, 7, "value", 0, 0, <<4>>),
   Call(16, 2, 7, "value", 0, 9, <<>>)}

(* All jumps share the trampoline at 100. *)
SharedMidpoint == [a \in {4, 8, 12, 16, 20} |-> 100]
=============================================================================
