---------------------------- MODULE MCFLoadFile ----------------------------
(* A small instance of the first-load file for TLC: words of two bytes,    *)
(* windows of three words, all choices of recorded bytes at 1 .. 10.       *)
EXTENDS FLoadFile

Bytes == 1..10

AllLoads == UNION {[S -> {0, 1}] : S \in SUBSET Bytes}
=============================================================================
