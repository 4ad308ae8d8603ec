----------------------------- MODULE FLoadFile -----------------------------
(***************************************************************************)
(* The first loads of a checkpoint on their way through the file.          *)
(* CkptInfo::combine_loads (sim/ckptinfo.cc) packs the recorded bytes into *)
(* words that need not be aligned; saveFLoads_comp (ckpt_saveFLoads.cc)    *)
(* lays the words into windows, keeps the words of a window that are not   *)
(* zero, and compresses the windows in chunks; recovery_fastlz of the      *)
(* loader writes the kept words into fresh memory, in the order of the     *)
(* file.  A window may begin before the one in front of it ends, and both  *)
(* may then write the same byte.                                           *)
(*                                                                         *)
(* Compression returns what was compressed; a chunk is its windows.        *)
(***************************************************************************)
EXTENDS Integers, Sequences, FiniteSets

CONSTANTS
  Word,            (* Bytes of a first load (8).                           *)
  Cover,           (* MaxCoverSize: bytes of a window (4096).              *)
  HeadSize,        (* Bytes of a window's address, size and map (80).      *)
  MaxCompressSize, (* A chunk is closed at this size (30 MB).              *)
  ExtraDataSize,   (* Room of the buffer beyond it (6 KB).                 *)
  Inputs           (* First loads: the value of each recorded byte.        *)

ASSUME FileAssumption ==
  /\ Word \in Nat \ {0}
  /\ Cover \in Nat \ {0} /\ Cover % Word = 0
  /\ {HeadSize, MaxCompressSize} \subseteq Nat
  /\ ExtraDataSize \in Nat /\ ExtraDataSize >= HeadSize + Cover
  /\ \A f \in Inputs : DOMAIN f \subseteq Nat \ {0}

VARIABLES
  loads,       (* the recorded bytes                                       *)
  phase,       (* "combine", "save", "load", "done"                        *)
  todo,        (* recorded bytes that are not combined yet                 *)
  info,        (* the word that combine_loads is filling                   *)
  firstloads,  (* the words                                                *)
  i,           (* position in firstloads                                   *)
  tempdata,    (* windows of the chunk being collected                     *)
  tdsize,      (* its size in bytes                                        *)
  file,        (* the chunks written                                       *)
  mem          (* the loader's memory, where it was written                *)

vars == <<loads, phase, todo, info, firstloads, i, tempdata, tdsize, file, mem>>

NoWord == [addr |-> 0, data |-> <<>>]

Least(S) == CHOOSE a \in S : \A b \in S : a <= b

Init ==
  /\ loads \in Inputs
  /\ phase = "combine"
  /\ todo = DOMAIN loads
  /\ info = NoWord
  /\ firstloads = <<>>
  /\ i = 1
  /\ tempdata = <<>>
  /\ tdsize = 0
  /\ file = <<>>
  /\ mem = [a \in {} |-> 0]

-----------------------------------------------------------------------------
(* combine_loads: the least byte that is left goes into the current word   *)
(* or begins a new one.  Words of zeros are dropped, except the last.      *)
IsZero(f) == \A n \in DOMAIN f : f[n] = 0

wordAt(a) == [addr |-> a, data |-> [n \in 0..(Word - 1) |->
                                      IF n = 0 THEN loads[a] ELSE 0]]

fits(a) == info # NoWord /\ a - info.addr < Word

kept(unit) == IF IsZero(unit.data) THEN <<>> ELSE <<unit>>

combine_loads ==
  LET a == Least(todo) IN
  /\ phase = "combine"
  /\ todo # {}
  /\ IF fits(a)
       THEN /\ info' = [info EXCEPT !.data[a - info.addr] = loads[a]]
            /\ UNCHANGED firstloads
       ELSE /\ firstloads' = firstloads \o kept(info)
            /\ info' = wordAt(a)
  /\ todo' = todo \ {a}
  /\ UNCHANGED <<loads, phase, i, tempdata, tdsize, file, mem>>

combined ==
  /\ phase = "combine"
  /\ todo = {}
  /\ firstloads' = IF info = NoWord THEN firstloads ELSE Append(firstloads, info)
  /\ phase' = "save"
  /\ UNCHANGED <<loads, todo, info, i, tempdata, tdsize, file, mem>>

-----------------------------------------------------------------------------
(* saveFLoads_comp: the first word that does not fit into the window that  *)
(* begins at word i.                                                       *)
nextWindow ==
  Least({Len(firstloads) + 1} \cup
        {j \in (i + 1)..Len(firstloads) :
           firstloads[j].addr + Word > firstloads[i].addr + Cover})

(* pagedata: the bytes of words i up to there, relative to word i. *)
pagedata ==
  [o \in 0..(Cover - 1) |->
     LET at == firstloads[i].addr + o
         owner == {c \in i..(nextWindow - 1) :
                     firstloads[c].addr <= at /\ at < firstloads[c].addr + Word}
     IN IF owner = {} THEN 0
        ELSE firstloads[Least(owner)].data[at - firstloads[Least(owner)].addr]]

(* The aligned words of the window, and those of them that are not zero    *)
(* (map1): a word of firstloads touches one or two of them.                *)
slot(k) == [n \in 0..(Word - 1) |-> pagedata[k * Word + n]]

map1 == {k \in 0..(Cover \div Word - 1) : ~IsZero(slot(k))}

window == [addr |-> firstloads[i].addr, data |-> [k \in map1 |-> slot(k)]]

(* compress_write: when the chunk is closed. *)
isFull_AtEndOnly(size, end) == end

isFull(size, end) == size >= MaxCompressSize \/ end

compress_write(size, end) ==
  IF isFull(size, end)
    THEN /\ file' = Append(file, Append(tempdata, window))
         /\ tempdata' = <<>>
    ELSE /\ tempdata' = Append(tempdata, window)
         /\ UNCHANGED file

saveFLoads_comp ==
  /\ phase = "save"
  /\ i <= Len(firstloads)
  /\ LET size == tdsize + HeadSize + Word * Cardinality(map1)
         end  == nextWindow = Len(firstloads) + 1
     IN /\ compress_write(size, end)
        /\ tdsize' = IF isFull(size, end) THEN 0 ELSE size
  /\ i' = nextWindow
  /\ UNCHANGED <<loads, phase, todo, info, firstloads, mem>>

saveDone ==
  /\ phase = "save"
  /\ i > Len(firstloads)
  /\ phase' = "load"
  /\ UNCHANGED <<loads, todo, info, firstloads, i, tempdata, tdsize, file, mem>>

-----------------------------------------------------------------------------
(* recovery_fastlz: the words of the first window left in the file. *)
restored_FirstWins(w) ==
  [a \in UNION {(w.addr + k * Word)..(w.addr + k * Word + Word - 1) :
                  k \in DOMAIN w.data} \ DOMAIN mem |->
     w.data[(a - w.addr) \div Word][(a - w.addr) % Word]]

restored(w) ==
  [a \in UNION {(w.addr + k * Word)..(w.addr + k * Word + Word - 1) :
                  k \in DOMAIN w.data} |->
     w.data[(a - w.addr) \div Word][(a - w.addr) % Word]]

recovery_fastlz ==
  LET new == restored(Head(Head(file))) IN
  /\ phase = "load"
  /\ file # <<>>
  /\ mem' = [a \in DOMAIN mem \cup DOMAIN new |->
               IF a \in DOMAIN new THEN new[a] ELSE mem[a]]
  /\ file' = IF Len(Head(file)) = 1 THEN Tail(file)
               ELSE <<Tail(Head(file))>> \o Tail(file)
  /\ UNCHANGED <<loads, phase, todo, info, firstloads, i, tempdata, tdsize>>

recovered ==
  /\ phase = "load"
  /\ file = <<>>
  /\ phase' = "done"
  /\ UNCHANGED <<loads, todo, info, firstloads, i, tempdata, tdsize, file, mem>>

Next ==
  \/ combine_loads \/ combined \/ saveFLoads_comp \/ saveDone
  \/ recovery_fastlz \/ recovered

Spec == Init /\ [][Next]_vars

-----------------------------------------------------------------------------
(* When the replay starts, every recorded byte has its recorded value:     *)
(* words that were dropped or not kept were zero, words that share a slot  *)
(* of a window keep their bytes apart, and where windows overlap the later *)
(* one has the last word.                                                  *)
BytesRestored ==
  phase = "done" =>
    \A a \in DOMAIN loads :
      loads[a] = IF a \in DOMAIN mem THEN mem[a] ELSE 0

(* The chunk being collected never outgrows the simulator's buffer, which  *)
(* has room for one more window when compress_write decides to wait; the   *)
(* loader decompresses into a buffer of the same size.                     *)
BufferFits ==
  tdsize + HeadSize + Cover <= MaxCompressSize + ExtraDataSize

=============================================================================
