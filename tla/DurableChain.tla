---------------------------- MODULE DurableChain ----------------------------
(***************************************************************************)
(* What the node's files promise, whatever the disk and crashes do.  The   *)
(* saves are numbered in the order they are made; 0 stands for none.  A    *)
(* save first lands, when a start would find it, and later settles, when   *)
(* the loss of one file cannot take it back.                               *)
(***************************************************************************)
EXTENDS Integers

VARIABLES
  running,  (* is the node's process running?                              *)
  latest,   (* the save a process stands on or, not yet loaded, will load  *)
  durable,  (* the save a start would load                                 *)
  settled   (* the last save that has settled                              *)

vars == <<running, latest, durable, settled>>

Init == ~ running /\ latest = 0 /\ durable = 0 /\ settled = 0

\* The process saves, after a change of the chain or of the pool.
Save ==
  /\ running /\ running'
  /\ latest' \in Nat /\ latest' > latest
  /\ UNCHANGED <<durable, settled>>

\* Saves land in order; some may be skipped.
Land ==
  /\ running /\ running'
  /\ durable' \in (durable + 1)..latest
  /\ UNCHANGED <<latest, settled>>

Settle ==
  /\ running /\ running'
  /\ settled' \in (settled + 1)..durable
  /\ UNCHANGED <<latest, durable>>

\* A crash, at any moment.
Stop ==
  /\ running /\ ~ running'
  /\ latest' = durable
  /\ UNCHANGED <<durable, settled>>

\* A file is damaged while the node is down: back to a save not older than
\* the last settled one.
Lose ==
  /\ ~ running /\ ~ running'
  /\ durable' \in settled..durable
  /\ latest' = durable'
  /\ UNCHANGED settled

\* The node starts on what is durable.
Start ==
  /\ ~ running /\ running'
  /\ latest' = durable
  /\ UNCHANGED <<durable, settled>>

Next == Save \/ Land \/ Settle \/ Stop \/ Lose \/ Start

Spec == Init /\ [][Next]_vars
=============================================================================
