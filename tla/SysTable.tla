------------------------------ MODULE SysTable ------------------------------
(***************************************************************************)
(* The system calls of one slice on their way into the checkpoint file:    *)
(* EmuLinux::syscall and the ckpt_add_sys* hooks record them, and          *)
(* CkptInfo::saveSysInfo (sim/ckptinfo.cc) writes them.  The file holds a  *)
(* table in which equal calls share one entry, the index of the entry of   *)
(* every call, and behind the table the bytes that the calls wrote into    *)
(* guest memory.  The entries without bytes come first.  The loader finds  *)
(* a call's bytes by the byte offset stored in its entry, so the offsets   *)
(* that are computed while the table is written have to agree with the     *)
(* file positions at which the bytes land.                                 *)
(*                                                                         *)
(* Every loop iteration of saveSysInfo is a step.                          *)
(***************************************************************************)
EXTENDS Integers, Sequences

CONSTANTS
  Calls,     (* System calls that the program may make.                    *)
  MaxCalls   (* Bound: number of system calls in the slice.                *)

(***************************************************************************)
(* What a system call is and does: its address, number and first argument, *)
(* how its handler returns ("value", "suppressed" without touching a0, or  *)
(* "retry", which leaves a0 alone as well), and the bytes it writes        *)
(* to guest memory.                                                        *)
(***************************************************************************)
ASSUME CallAssumption ==
  /\ Calls \subseteq
       [pc : Nat \ {0}, num : Nat, p0 : Nat, return : {"value", "suppressed", "retry"},
        ret : Nat, bufaddr : Nat, data : Seq(Nat)]
  /\ \A c \in Calls : c.return = "retry" => c.ret = 0
  /\ MaxCalls \in Nat

(* The offset stored in an entry without bytes (0xffffffff). *)
invalid_addr == -1

VARIABLES
  phase,        (* "record", then the loops of saveSysInfo, then "done"    *)
  calls,        (* history: the system calls of the slice                  *)
  sysinfos,     (* the recorded calls                                      *)
  i,            (* loop counter                                            *)
  sys_idxs,     (* table index of every call                               *)
  newsysinfos,  (* calls kept as table entries without bytes ...           *)
  newsysinfos1, (* ... and with bytes                                      *)
  infos,        (* table entries written so far                            *)
  data_addr,    (* offset of the bytes of the next entry                   *)
  pos,          (* position of the next fwrite, relative to the section    *)
  blobs         (* bytes written behind the table, by position             *)

vars == <<phase, calls, sysinfos, i, sys_idxs, newsysinfos, newsysinfos1,
          infos, data_addr, pos, blobs>>

recording == <<calls, sysinfos>>
scanning  == <<sys_idxs, newsysinfos, newsysinfos1>>
writing   == <<infos, data_addr, pos, blobs>>

Init ==
  /\ phase = "record"
  /\ calls = <<>>
  /\ sysinfos = <<>>
  /\ i = 1
  /\ sys_idxs = <<>>
  /\ newsysinfos = <<>>
  /\ newsysinfos1 = <<>>
  /\ infos = <<>>
  /\ data_addr = 0
  /\ pos = 0
  /\ blobs = {}

-----------------------------------------------------------------------------
(* The hooks.  A handler that writes guest memory reports the bytes before *)
(* it returns; doSyscall then reports the return value, and takes a retry  *)
(* for a call that returned zero.                                          *)
add_sysenter(c) ==
  [pc |-> c.pc, num |-> c.num, p0 |-> c.p0,
   ret |-> 0, hasret |-> FALSE, bufaddr |-> 0, data |-> <<>>]

add_sysexe(info, c) ==
  [info EXCEPT !.ret = c.ret, !.bufaddr = c.bufaddr, !.data = @ \o c.data]

add_sysret(info, c) ==
  [info EXCEPT !.ret = c.ret, !.hasret = c.return # "suppressed"]

syscall(c) ==
  add_sysret(IF c.bufaddr = 0 /\ c.data = <<>>
               THEN add_sysenter(c) ELSE add_sysexe(add_sysenter(c), c), c)

RecordCall(c) ==
  /\ phase = "record"
  /\ Len(calls) < MaxCalls
  /\ calls' = Append(calls, c)
  /\ sysinfos' = Append(sysinfos, syscall(c))
  /\ UNCHANGED <<phase, i, scanning, writing>>

StartSave ==
  /\ phase = "record"
  /\ phase' = "scan"
  /\ UNCHANGED <<recording, i, scanning, writing>>

-----------------------------------------------------------------------------
(* isSameSyscall: the fields that the loader uses.  Calls without bytes    *)
(* are not told apart by bufaddr.                                          *)
isSameSyscall(a, b) ==
  /\ a.pc = b.pc
  /\ a.num = b.num
  /\ a.hasret = b.hasret
  /\ a.ret = b.ret
  /\ a.p0 = b.p0
  /\ a.data # <<>> => a.bufaddr = b.bufaddr /\ a.data = b.data

(* dectect_Sysinfos: the entries of news that call n could share.  Nothing *)
(* is compared when the call's pc or its number was not met before in a    *)
(* call of the same kind.                                                  *)
sameKind(n) ==
  {j \in 1..(n - 1) : (sysinfos[j].data = <<>>) <=> (sysinfos[n].data = <<>>)}

candidates_Never(n, news) == {}

candidates(n, news) ==
  IF /\ \E j \in sameKind(n) : sysinfos[j].pc = sysinfos[n].pc
     /\ \E j \in sameKind(n) : sysinfos[j].num = sysinfos[n].num
    THEN {c \in DOMAIN news : isSameSyscall(sysinfos[n], sysinfos[news[c]])}
    ELSE {}

(* Position of the entry for call n, counted from 1. *)
dectect_Sysinfos(n, news) ==
  IF candidates(n, news) = {} THEN Len(news) + 1
    ELSE CHOOSE c \in candidates(n, news) :
           \A d \in candidates(n, news) : c <= d

(* First loop: the table index of every call (counted from 0 in the file). *)
Scan ==
  LET news == IF sysinfos[i].data = <<>> THEN newsysinfos ELSE newsysinfos1
      res  == dectect_Sysinfos(i, news)
      more == IF res > Len(news) THEN Append(news, i) ELSE news
  IN
  /\ phase = "scan"
  /\ i <= Len(sysinfos)
  /\ sys_idxs' = Append(sys_idxs, res - 1)
  /\ IF sysinfos[i].data = <<>>
       THEN newsysinfos' = more /\ UNCHANGED newsysinfos1
       ELSE newsysinfos1' = more /\ UNCHANGED newsysinfos
  /\ i' = i + 1
  /\ UNCHANGED <<phase, recording, writing>>

(* The indices of calls with bytes move behind the entries without bytes;  *)
(* then the number of calls and the indices are written.                   *)
tableSize == Len(newsysinfos) + Len(newsysinfos1)

relocate_Backward ==
  [n \in DOMAIN sys_idxs |->
     IF sysinfos[n].data = <<>> THEN sys_idxs[n]
                                ELSE sys_idxs[n] - Len(newsysinfos)]

relocate ==
  [n \in DOMAIN sys_idxs |->
     IF sysinfos[n].data = <<>> THEN sys_idxs[n]
                                ELSE sys_idxs[n] + Len(newsysinfos)]

WriteIndexes ==
  /\ phase = "scan"
  /\ i > Len(sysinfos)
  /\ sys_idxs' = relocate
  /\ data_addr' = 4 * Len(sysinfos) + 40 * tableSize + 8
  /\ pos' = 8 + 4 * Len(sysinfos)
  /\ phase' = "info"
  /\ i' = 1
  /\ UNCHANGED <<recording, newsysinfos, newsysinfos1, infos, blobs>>

(* The five words of an entry. *)
entry(info, offset) ==
  [pc |-> info.pc, num |-> info.num, size |-> Len(info.data),
   p0 |-> info.p0, ret |-> info.ret, hasret |-> info.hasret,
   data_offset |-> offset]

WriteInfo ==
  /\ phase = "info"
  /\ i <= Len(newsysinfos)
  /\ infos' = Append(infos, entry(sysinfos[newsysinfos[i]], invalid_addr))
  /\ pos' = pos + 40
  /\ i' = i + 1
  /\ UNCHANGED <<phase, recording, scanning, data_addr, blobs>>

StartInfo1 ==
  /\ phase = "info"
  /\ i > Len(newsysinfos)
  /\ phase' = "info1"
  /\ i' = 1
  /\ UNCHANGED <<recording, scanning, writing>>

(* Bytes in front of a call's data: its buffer address. *)
bufaddrSize == 8

nextData_NoAddr(info) == data_addr + Len(info.data)

nextData(info) == data_addr + Len(info.data) + bufaddrSize

WriteInfo1 ==
  /\ phase = "info1"
  /\ i <= Len(newsysinfos1)
  /\ infos' = Append(infos, entry(sysinfos[newsysinfos1[i]], data_addr))
  /\ data_addr' = nextData(sysinfos[newsysinfos1[i]])
  /\ pos' = pos + 40
  /\ i' = i + 1
  /\ UNCHANGED <<phase, recording, scanning, blobs>>

StartData ==
  /\ phase = "info1"
  /\ i > Len(newsysinfos1)
  /\ phase' = "data"
  /\ i' = 1
  /\ UNCHANGED <<recording, scanning, writing>>

WriteData ==
  LET info == sysinfos[newsysinfos1[i]] IN
  /\ phase = "data"
  /\ i <= Len(newsysinfos1)
  /\ blobs' = blobs \cup
       {[at |-> pos, bufaddr |-> info.bufaddr, data |-> info.data]}
  /\ pos' = pos + bufaddrSize + Len(info.data)
  /\ i' = i + 1
  /\ UNCHANGED <<phase, recording, scanning, infos, data_addr>>

EndSave ==
  /\ phase = "data"
  /\ i > Len(newsysinfos1)
  /\ phase' = "done"
  /\ UNCHANGED <<recording, i, scanning, writing>>

saveSysInfo ==
  \/ Scan \/ WriteIndexes \/ WriteInfo \/ StartInfo1
  \/ WriteInfo1 \/ StartData \/ WriteData \/ EndSave

Next == (\E c \in Calls : RecordCall(c)) \/ StartSave \/ saveSysInfo

Spec == Init /\ [][Next]_vars

-----------------------------------------------------------------------------
(* What takeoverSyscall makes of the file for the n-th call: the value of  *)
(* a0 and the write to memory.                                             *)
lookup(n) == infos[sys_idxs[n] + 1]

a0_AlwaysRet(e) == e.ret

a0(e) == IF e.hasret THEN e.ret ELSE e.p0

NoWrite == [bufaddr |-> 0, data |-> <<>>]

(* The bytes are the e.size bytes behind the address at data_offset; what  *)
(* is read where nothing was written is no write at all (an empty set).    *)
blobAt(e) ==
  {[bufaddr |-> b.bufaddr, data |-> b.data] :
     b \in {x \in blobs : x.at = e.data_offset /\ Len(x.data) = e.size}}

memWrite(e) ==
  IF e.data_offset = invalid_addr THEN {NoWrite}
    ELSE {IF b.bufaddr = 0 THEN NoWrite ELSE b : b \in blobAt(e)}

(* What the call did when the slice was recorded. *)
a0After(c) == IF c.return = "value" THEN c.ret ELSE c.p0

memWritten(c) ==
  IF c.data = <<>> \/ c.bufaddr = 0 THEN NoWrite
    ELSE [bufaddr |-> c.bufaddr, data |-> c.data]

-----------------------------------------------------------------------------
SyscallInfo ==
  [pc : Nat \ {0}, num : Nat, p0 : Nat, ret : Nat, hasret : BOOLEAN,
   bufaddr : Nat, data : Seq(Nat)]

(* Type correctness of the recorded calls and of the file under            *)
(* construction: no index ever leaves the table.                           *)
TypeOK ==
  /\ phase \in {"record", "scan", "info", "info1", "data", "done"}
  /\ calls \in Seq(Calls)
  /\ sysinfos \in Seq(SyscallInfo)
  /\ i \in Nat \ {0}
  /\ sys_idxs \in Seq(Nat)
  /\ newsysinfos \in Seq(DOMAIN sysinfos)
  /\ newsysinfos1 \in Seq(DOMAIN sysinfos)
  /\ data_addr \in Nat
  /\ pos \in Nat

(* The loader finds, for every system call of the slice in turn, an entry  *)
(* with that call's address and number that leaves a0 and memory as the    *)
(* call left them, although calls share entries and the bytes are found by *)
(* computed offsets.                                                       *)
RoundTrip ==
  phase = "done" =>
    \A n \in DOMAIN calls :
      /\ sys_idxs[n] + 1 \in DOMAIN infos
      /\ lookup(n).pc = calls[n].pc
      /\ lookup(n).num = calls[n].num
      /\ a0(lookup(n)) = a0After(calls[n])
      /\ memWrite(lookup(n)) = {memWritten(calls[n])}

(* Equal calls share one entry: no two entries of the table serve the same *)
(* purpose, and every entry is used by some call.                          *)
NoDuplicates ==
  phase = "done" =>
    /\ \A j, k \in DOMAIN infos : j # k =>
         \/ [infos[j] EXCEPT !.data_offset = 0] # [infos[k] EXCEPT !.data_offset = 0]
         \/ blobAt(infos[j]) # blobAt(infos[k])
    /\ \A k \in DOMAIN infos : \E n \in DOMAIN calls : sys_idxs[n] + 1 = k

=============================================================================
