---------------------------- MODULE MCPersistence ----------------------------
(***************************************************************************)
(* Two branches of two blocks on genesis, a snapshot at height 2, pruning  *)
(* to two blocks: reorganisations to the same height, imports, pruned and  *)
(* whole chains, each over the files the others left.                      *)
(***************************************************************************)
EXTENDS Persistence, TLC

CONSTANTS g, a1, a2, b1, b2

MCKind == {"chain", "chainstate", "snapshot"}
MCBlk == {g, a1, a2, b1, b2}
MCPathTo ==
  g :> <<g>> @@ a1 :> <<g, a1>> @@ a2 :> <<g, a1, a2>> @@ b1 :> <<g, b1>> @@ b2 :> <<g, b1, b2>>
=============================================================================
