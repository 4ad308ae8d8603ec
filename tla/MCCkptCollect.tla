---------------------------- MODULE MCCkptCollect ----------------------------
(* Small instances of the recorder for TLC. *)
EXTENDS CkptCollect

Settings == INSTANCE CkptSettings WITH Width <- 2^16

(* Two lines whose checkpoints overlap, and one nested in another:         *)
(* starts 0, 1, 3 with lengths 4, 1, 2.                                    *)
OverlapCtrls ==
  Settings!init_ckpt_settings(
    <<Settings!Line(1, 3, 1, 1), Settings!Line(1, 1, 0, 1),
      Settings!Line(4, 1, 1, 1)>>)

(* Consecutive intervals with a warm-up, as in the README: each checkpoint *)
(* starts before the previous one ends.                                    *)
WarmupCtrls ==
  Settings!init_ckpt_settings(<<Settings!Line(2, 2, 1, 2)>>)

SingleUop == [pc \in Pc |-> 1]

(* Instruction 8 is an AMO or LR/SC with release semantics: a fence        *)
(* micro-op, then the memory access.                                       *)
ReleaseAmo == [pc \in Pc |-> IF pc = 8 THEN 2 ELSE 1]
=============================================================================
