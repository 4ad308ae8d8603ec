----------------------------- MODULE SliceReplay -----------------------------
(***************************************************************************)
(* What a checkpoint promises: a slice of a program is recorded, event by  *)
(* event, and later re-executed with the same events in the same order,    *)
(* from its first event to its last and no further.  An event is an        *)
(* instruction, or a system call with the effect it had on the program.    *)
(***************************************************************************)
EXTENDS Naturals, Sequences

VARIABLES
  outcome,  (* the recorded events                                         *)
  log,      (* the events of the replay                                    *)
  stage     (* "recording", "replaying" or "finished"                      *)

vars == <<outcome, log, stage>>

Init ==
  /\ outcome = <<>>
  /\ log = <<>>
  /\ stage = "recording"

Record ==
  /\ stage = "recording"
  /\ Len(outcome') = Len(outcome) + 1
  /\ outcome = SubSeq(outcome', 1, Len(outcome))
  /\ UNCHANGED <<log, stage>>

Start ==
  /\ stage = "recording"
  /\ stage' = "replaying"
  /\ UNCHANGED <<outcome, log>>

Replay ==
  /\ stage = "replaying"
  /\ Len(log) < Len(outcome)
  /\ log' = Append(log, outcome[Len(log) + 1])
  /\ UNCHANGED <<outcome, stage>>

Finish ==
  /\ stage = "replaying"
  /\ Len(log) = Len(outcome)
  /\ stage' = "finished"
  /\ UNCHANGED <<outcome, log>>

Next == Record \/ Start \/ Replay \/ Finish

Spec == Init /\ [][Next]_vars /\ WF_vars(Replay \/ Finish)
=============================================================================
