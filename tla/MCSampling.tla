----------------------------- MODULE MCSampling -----------------------------
(* A small sampled replay for TLC. *)
EXTENDS Sampling

(* The second and the fourth instruction are system calls. *)
TwoEcalls == {2, 4}
=============================================================================
