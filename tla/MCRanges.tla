------------------------------ MODULE MCRanges ------------------------------
(* Small instances of the range computation for TLC: pages of two bytes,   *)
(* blocks of two pages, words of two bytes, addresses below 16.            *)
EXTENDS Ranges

Code == {4, 5, 7, 10}

Buffers == {{}} \cup {{[addr |-> a, size |-> n]} : a \in {0, 5, 11}, n \in {1, 4}}

Slices(low) ==
  {x \in [text : SUBSET Code \ {{}}, data : {{a, b} : a, b \in low..14},
          words : {{}} \cup {{a} : a \in low..14}, bufs : Buffers] :
     /\ x.words \subseteq x.data
     /\ \A b \in x.bufs : b.addr >= low}

(* Slices that access nothing below their first code page. *)
DataAboveText ==
  {x \in Slices(4) : \A a \in x.data \cup {b.addr : b \in x.bufs} :
                       a >= (CHOOSE t \in {Page(c) : c \in x.text} :
                               \A c \in x.text : t <= c)}
=============================================================================
