----------------------------- MODULE FirstLoads -----------------------------
(***************************************************************************)
(* The memory side of one open checkpoint: CkptInfo::addAddrInfo, addload  *)
(* and addstore (sim/ckptinfo.cc) as called by readMem, writeMem and       *)
(* amoMem (cpu/simple/atomic.cc).                                          *)
(*                                                                         *)
(* A checkpoint holds no memory image.  It holds the first loads: the      *)
(* bytes that the slice reads before it writes them.  The replay starts    *)
(* from zeroed memory into which the first loads are written, and it       *)
(* executes the same stores and the same effects of system calls.  The     *)
(* first loads are enough exactly when every byte that the slice reads     *)
(* before writing it has its initial value in that starting memory.        *)
(***************************************************************************)
EXTENDS Integers, FiniteSets

CONSTANTS
  Addr,       (* Byte addresses.                                           *)
  Val,        (* Byte values.                                              *)
  Accesses,   (* Accesses of the program: operation, address and size.     *)
  Block,      (* AccessRange: bytes per entry of preAccess (8192).         *)
  LineSize,   (* Cache line size (64); a block is a number of lines.       *)
  PageSize,   (* Size of a page of guest memory (4096).                    *)
  FileBacked, (* Pages that are filled from a mapped file when touched.    *)
  ScUnpaired  (* May a store-conditional fail on bytes the slice has not   *)
              (* accessed before (no load-reserved of them in the slice)?  *)

Ops == {"load", "store", "amo", "lr", "sc", "syscall"}

Bytes(x) == x.addr .. (x.addr + x.size - 1)

ASSUME MemAssumption ==
  /\ Addr \subseteq Nat
  /\ 0 \in Val
  /\ Accesses \subseteq [op : Ops, addr : Addr, size : Nat \ {0}]
  /\ \A x \in Accesses : Bytes(x) \subseteq Addr
  /\ Block \in Nat \ {0}
  /\ LineSize \in Nat \ {0}
  /\ PageSize \in Nat \ {0}
  /\ \A x \in Accesses : x.size <= LineSize
  /\ FileBacked \subseteq Nat
  /\ ScUnpaired \in BOOLEAN

NoResv == -1

VARIABLES
  mem,      (* guest memory                                                *)
  preAccess,(* bytes flagged as accessed; a block is present when one of   *)
            (* its bytes is flagged                                        *)
  loads,    (* recorded first-load bytes: pairs of address and value       *)
  absent,   (* pages of the address space not yet touched                  *)
  resv,     (* reserved address granule of the last load-reserved          *)
  mem0,     (* history: memory when the slice started                      *)
  written,  (* history: bytes written in the slice                         *)
  needed    (* history: bytes read in the slice before being written       *)

vars == <<mem, preAccess, loads, absent, resv, mem0, written, needed>>

Page(a) == a \div PageSize

Granule(a) == a \div 16

(* Memory that was never touched reads as zero, unless a file backs it.    *)
Init ==
  /\ mem \in [Addr -> Val]
  /\ absent \in SUBSET {Page(a) : a \in Addr}
  /\ \A a \in Addr : Page(a) \in absent \ FileBacked => mem[a] = 0
  /\ preAccess = {}
  /\ loads = {}
  /\ resv = NoResv
  /\ mem0 = mem
  /\ written = {}
  /\ needed = {}

-----------------------------------------------------------------------------
(* CkptInfo::addAddrInfo splits an access at the block boundary.           *)
base(x) == (x.addr \div Block) * Block

addr1(x) == base(x) + Block

len2(x) == IF x.addr + x.size - 1 >= addr1(x) THEN x.addr + x.size - addr1(x)
                                              ELSE 0

len1(x) == x.size - len2(x)

secondPresent(x) == \E a \in preAccess : a \div Block = addr1(x) \div Block

(* The bytes it flags.  When the second block is already present its loop  *)
(* runs to len1 instead of len2 (line 50).                                 *)
flagged_WholeBlock(x) == base(x) .. (addr1(x) - 1)

flagged_Nothing(x) == {}

flagged(x) ==
  (x.addr .. (x.addr + len1(x) - 1))
    \cup (addr1(x) .. (addr1(x) + (IF len2(x) = 0 THEN 0
                                   ELSE IF secondPresent(x) THEN len1(x)
                                   ELSE len2(x)) - 1))

(* The bytes whose entry of the array exist[] it does not assign.          *)
unassigned(x) ==
  IF len2(x) # 0 /\ secondPresent(x)
    THEN {b \in Bytes(x) : b >= addr1(x) + len1(x)} ELSE {}

(* The bytes that addload takes for first accesses: those not flagged yet; *)
(* an unassigned entry of exist[] may hold anything.                       *)
firsts(x) ==
  {F \in SUBSET Bytes(x) :
     \A b \in Bytes(x) \ unassigned(x) : b \in F <=> b \notin preAccess}

(* CkptInfo::addload with d[b] the byte that data[b - addr] points to.     *)
addload(x, d) ==
  /\ \E F \in firsts(x) : loads' = loads \cup {<<b, d[b]>> : b \in F}
  /\ preAccess' = preAccess \cup flagged(x)

addstore(x) == preAccess' = preAccess \cup flagged(x)

(* readMem advances its data pointer to the second fragment of an access   *)
(* that crosses a cache line, and passes that pointer to ckpt_addload:     *)
(* byte i of the record is byte i + frag of the access, and past the end   *)
(* of the access whatever follows the buffer.                              *)
frag(x) ==
  IF x.addr \div LineSize = (x.addr + x.size - 1) \div LineSize
    THEN 0 ELSE LineSize - (x.addr % LineSize)

loadData(x) ==
  {d \in [Bytes(x) -> Val] :
     \A b \in Bytes(x) : b + frag(x) \in Bytes(x) => d[b] = mem[b + frag(x)]}

(* A first touch of a page faults; MemState::fixupFault allocates it and   *)
(* the instruction is executed again.                                      *)
touch(x) == absent' = absent \ {Page(b) : b \in Bytes(x)}

read(x) == needed' = needed \cup (Bytes(x) \ written)

write(x) ==
  /\ \E d \in [Bytes(x) -> Val] :
       mem' = [a \in Addr |-> IF a \in Bytes(x) THEN d[a] ELSE mem[a]]
  /\ written' = written \cup Bytes(x)

-----------------------------------------------------------------------------
(* readMem: a fault returns before the record is made. *)
readMem(x) ==
  /\ \E d \in loadData(x) : addload(x, d)
  /\ read(x)
  /\ touch(x)
  /\ UNCHANGED <<mem, mem0, written>>

Load(x) == x.op = "load" /\ readMem(x) /\ UNCHANGED resv

LoadReserved(x) ==
  /\ x.op = "lr"
  /\ frag(x) = 0
  /\ readMem(x)
  /\ resv' = Granule(x.addr)

(* writeMem calls ckpt_addstore first; a store-conditional then writes     *)
(* only if it matches the reservation.                                     *)
Store(x) ==
  /\ x.op = "store"
  /\ addstore(x)
  /\ write(x)
  /\ touch(x)
  /\ UNCHANGED <<loads, resv, mem0, needed>>

StoreCond(x) ==
  /\ x.op = "sc"
  /\ frag(x) = 0
  /\ addstore(x)
  /\ \/ resv = Granule(x.addr) /\ write(x)
     \/ /\ resv # Granule(x.addr)
        /\ ScUnpaired \/ Bytes(x) \subseteq preAccess
        /\ UNCHANGED <<mem, written>>
  /\ touch(x)
  /\ UNCHANGED <<loads, resv, mem0, needed>>

(* amoMem never crosses a line (panic_if) and records the old value.  On a *)
(* page fault it records as well, before it returns the fault: the zeros   *)
(* that amoMemAtomic put into the buffer; the retry then finds the bytes   *)
(* flagged.                                                                *)
amoData(x) ==
  [b \in Bytes(x) |-> IF Page(b) \in absent THEN 0 ELSE mem[b]]

Amo(x) ==
  /\ x.op = "amo"
  /\ frag(x) = 0
  /\ addload(x, amoData(x))
  /\ read(x)
  /\ write(x)
  /\ touch(x)
  /\ UNCHANGED <<resv, mem0>>

(* A system call writes a guest buffer.  The bytes are not flagged: they   *)
(* travel in the system call record, and the loader writes them when it    *)
(* takes over the same call.                                               *)
SyscallWrite(x) ==
  /\ x.op = "syscall"
  /\ write(x)
  /\ touch(x)
  /\ UNCHANGED <<preAccess, loads, resv, mem0, needed>>

Next ==
  \E x \in Accesses :
    \/ Load(x) \/ Store(x) \/ Amo(x)
    \/ LoadReserved(x) \/ StoreCond(x) \/ SyscallWrite(x)

Spec == Init /\ [][Next]_vars

-----------------------------------------------------------------------------
(* Type correctness of memory and of what has been recorded of it. *)
TypeOK ==
  /\ mem \in [Addr -> Val]
  /\ mem0 \in [Addr -> Val]
  /\ preAccess \subseteq Int
  /\ loads \subseteq Addr \X Val
  /\ absent \subseteq Nat
  /\ resv \in Int
  /\ written \subseteq Addr
  /\ needed \subseteq Addr

recorded(a) == {l[2] : l \in {k \in loads : k[1] = a}}

(* Every byte that the slice read before writing it will have its initial  *)
(* value when the replay starts: its first load was recorded with that     *)
(* value, or nothing was recorded and it is zero.  This relates what       *)
(* addAddrInfo has flagged, over any sequence of loads, stores, atomics    *)
(* and system calls, to the memory at the start of the slice.              *)
FirstLoadsComplete ==
  \A a \in needed :
    recorded(a) = {mem0[a]} \/ (recorded(a) = {} /\ mem0[a] = 0)

(* No byte is recorded twice with different values, so the unstable sort   *)
(* in combine_loads cannot make the checkpoint file depend on the order of *)
(* equal addresses.                                                        *)
FirstLoadsUnique == \A l, k \in loads : l[1] = k[1] => l = k

=============================================================================
