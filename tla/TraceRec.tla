------------------------------ MODULE TraceRec ------------------------------
(***************************************************************************)
(* The trace recorder (sim/trace_collect.cc): tick() calls record_traces   *)
(* for every micro-op.  Micro-ops with an address in the configured range  *)
(* are counted, and each interval of the settings becomes a trace file.    *)
(* A record is represented by its number in the count and the address of   *)
(* the instruction; the format of a record and the types of instructions   *)
(* are left out.                                                           *)
(***************************************************************************)
EXTENDS Naturals, Sequences

CONSTANTS
  TraceCtrls,   (* tracectrls, sorted: [start, end] of each interval.      *)
  Traced        (* Addresses between minpc and maxpc.                      *)

ASSUME TraceAssumption ==
  /\ TraceCtrls \in Seq([start : Nat, end : Nat]) /\ TraceCtrls # <<>>
  /\ \A n \in DOMAIN TraceCtrls : TraceCtrls[n].start < TraceCtrls[n].end
  /\ \A m, n \in DOMAIN TraceCtrls :
       m < n => TraceCtrls[m].start <= TraceCtrls[n].start

VARIABLES
  exeInstNum,  (* counted micro-ops                                        *)
  ctrlidx,     (* the current interval                                     *)
  logfp,       (* the file last opened, 0 for NULL                         *)
  files        (* for each interval its records, and is the file open?     *)

traceVars == <<exeInstNum, ctrlidx, logfp, files>>

TraceInit ==
  /\ exeInstNum = 0
  /\ ctrlidx = 1
  /\ logfp = 0
  /\ files = [n \in DOMAIN TraceCtrls |-> [open |-> FALSE, late |-> FALSE, recs |-> <<>>]]

-----------------------------------------------------------------------------
(* need_record: open the file of the current interval, then close it and   *)
(* go to the next interval.  logfp keeps its value when the file is        *)
(* closed.                                                                 *)
opens_AfterFirst == exeInstNum = TraceCtrls[ctrlidx].start + 1

opens == exeInstNum = TraceCtrls[ctrlidx].start

closes_AtEnd == exeInstNum = TraceCtrls[ctrlidx].end

closes == exeInstNum = TraceCtrls[ctrlidx].end - 1

logfpNow == IF opens THEN ctrlidx ELSE logfp

ctrlidxNow == IF closes THEN ctrlidx + 1 ELSE ctrlidx

filesNow ==
  [n \in DOMAIN files |->
     IF closes /\ n = logfpNow THEN [files[n] EXCEPT !.open = FALSE]
     ELSE IF opens /\ n = ctrlidx THEN [files[n] EXCEPT !.open = TRUE, !.recs = <<>>]
     ELSE files[n]]

(* The last interval is complete: exit(0). *)
lastTrace(pc) == pc \in Traced /\ closes /\ ctrlidx = Len(TraceCtrls)

inInterval ==
  /\ exeInstNum >= TraceCtrls[ctrlidxNow].start
  /\ exeInstNum < TraceCtrls[ctrlidxNow].end

(* save_traceinfo: late marks a write to a file that was closed. *)
save_traceinfo(pc) ==
  LET file == filesNow[logfpNow]
  IN  [filesNow EXCEPT ![logfpNow] =
         [file EXCEPT !.late = @ \/ ~file.open,
                      !.recs = Append(@, [num |-> exeInstNum, pc |-> pc])]]

(* record_traces for a micro-op at pc, when it does not end the simulation. *)
record_traces(pc) ==
  IF pc \in Traced
    THEN /\ exeInstNum' = exeInstNum + 1
         /\ ctrlidx' = ctrlidxNow
         /\ logfp' = logfpNow
         /\ files' = IF inInterval /\ logfpNow # 0 THEN save_traceinfo(pc) ELSE filesNow
    ELSE UNCHANGED traceVars

(* The file of the last interval is closed on the way out. *)
closeLastTrace ==
  /\ files' = filesNow
  /\ ctrlidx' = ctrlidxNow
  /\ logfp' = logfpNow
  /\ UNCHANGED exeInstNum

-----------------------------------------------------------------------------
(* No record is written to a file after it was closed, although logfp is   *)
(* not reset: an interval is closed one micro-op before its end, so that   *)
(* the next one can be opened where this one ends.                         *)
NoLateRecord == \A n \in DOMAIN files : ~files[n].late

(* Whatever the order of calls, checkpoints and intervals, a trace begins  *)
(* with the first traced micro-op of its interval and goes on without a    *)
(* gap, a repetition or a record of another interval, and the trace in     *)
(* progress has every micro-op up to now: need_record counts micro-ops in  *)
(* and between intervals, and opens a file by equality with the count.     *)
TraceConsecutive ==
  \A n \in DOMAIN files :
    /\ \A k \in DOMAIN files[n].recs :
         /\ files[n].recs[k].num = TraceCtrls[n].start + k - 1
         /\ files[n].recs[k].num < TraceCtrls[n].end
    /\ n = ctrlidx /\ exeInstNum > TraceCtrls[n].start =>
         Len(files[n].recs) = exeInstNum - TraceCtrls[n].start

(* A finished trace has as many records as its tracectrl line asks for and *)
(* as its file name says (_len_).  It does not: need_record closes the     *)
(* file at the last micro-op of the interval, before that is recorded.     *)
TraceLength ==
  \A n \in 1..(ctrlidx - 1) :
    Len(files[n].recs) = TraceCtrls[n].end - TraceCtrls[n].start
=============================================================================
