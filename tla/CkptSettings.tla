---------------------------- MODULE CkptSettings ----------------------------
(***************************************************************************)
(* How init_ckpt_settings (sim/ckpt_collect.cc) turns the ckptctrl lines   *)
(* of the settings file into the sorted list of control entries that       *)
(* isCkptStart walks through.                                              *)
(***************************************************************************)
EXTENDS Integers, Sequences, SequencesExt

CONSTANT Width  (* Number of values of a uint64_t (2^64 in the code). *)

(* One line "ckptctrl: startckpt interval warmupnum times": entry i starts *)
(* warmupnum instructions before startckpt + interval*i; the subtraction   *)
(* wraps.  The length is end - start.                                      *)
ctrlLine(start, interval, warmup, times) ==
  [i \in 1..times |->
     [start  |-> (start + interval * (i - 1) - warmup) % Width,
      length |-> interval + warmup]]

(* All lines of the file, sorted by start. *)
init_ckpt_settings(lines) ==
  SortSeq(FlattenSeq([i \in DOMAIN lines |->
                        ctrlLine(lines[i].start, lines[i].interval,
                                 lines[i].warmup, lines[i].times)]),
          LAMBDA c1, c2 : c1.start < c2.start)

Line(start, interval, warmup, times) ==
  [start |-> start, interval |-> interval, warmup |-> warmup, times |-> times]
=============================================================================
