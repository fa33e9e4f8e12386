------------------------------ MODULE MCJournal ------------------------------
(***************************************************************************)
(* Two branches of one block on genesis, a snapshot of each; nothing is    *)
(* spared, neither the chain's files nor the journal's.                    *)
(***************************************************************************)
EXTENDS Journal, TLC

CONSTANTS g, a1, b1

MCKind == {"chain", "chainstate", "snapshot"}
MCBlk == {g, a1, b1}
MCPathTo == g :> <<g>> @@ a1 :> <<g, a1>> @@ b1 :> <<g, b1>>
=============================================================================
