----------------------------- MODULE Replication -----------------------------
(***************************************************************************)
(* What the nodes of a network promise about their chains: a tip is a      *)
(* block somebody mined, and a node leaves its tip only for a block it has *)
(* just mined on it or for one with more work behind it.                   *)
(***************************************************************************)
EXTENDS Integers

CONSTANTS
  Node,
  Blk,      (* block hashes                                                *)
  Genesis,  (* GENESIS_HASH                                                *)
  Prev,     (* prevHash of every other block                               *)
  Work      (* the work of the chain that ends in a block                  *)

VARIABLES
  mined,    (* the blocks mined so far                                     *)
  tip       (* the last block of each node's chain                         *)

Init ==
  /\ mined \in SUBSET Blk /\ Genesis \in mined
  /\ \A b \in mined \ {Genesis} : Prev[b] \in mined
  /\ tip \in [Node -> mined]

Mine(n) ==
  \E b \in Blk \ mined :
    /\ b # Genesis /\ Prev[b] = tip[n]
    /\ mined' = mined \cup {b}
    /\ tip' = [tip EXCEPT ![n] = b]

Adopt(n) ==
  \E b \in mined :
    /\ Work[b] > Work[tip[n]]
    /\ tip' = [tip EXCEPT ![n] = b]
    /\ UNCHANGED mined

Next == \E n \in Node : Mine(n) \/ Adopt(n)

Spec == Init /\ [][Next]_<<mined, tip>>
=============================================================================
