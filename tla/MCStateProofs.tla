---------------------------- MODULE MCStateProofs ----------------------------
(***************************************************************************)
(* Five ledgers, made by the functions of module Ledger: genesis, two      *)
(* blocks of one miner, a third that lets the first reward mature and      *)
(* spends all of it, and the second block of another miner.                *)
(***************************************************************************)
EXTENDS StateProofs

CONSTANTS x, y, g, b1, b2, b3, c2, cli

MCAccount == {x, y}
MCAccounts == <<x, y>>
MCBlk == {g, b1, b2, b3, c2}

Body(miner, n, txs) == [miner |-> miner, reward |-> 8 + n, txs |-> txs]
Pay == [from |-> x, to |-> y, amount |-> 7, fee |-> 1, nonce |-> 1, bytes |-> 1]

L1 == PostState(EmptyLedger, Body(x, 0, <<>>), 1).st
L2 == PostState(L1, Body(x, 0, <<>>), 2).st
L3 == PostState(L2, Body(x, 1, <<Pay>>), 3).st
Fork2 == PostState(L1, Body(y, 0, <<>>), 2).st
LedgerList == <<EmptyLedger, L1, L2, L3, Fork2>>

Place(b) == CASE b = g -> 1 [] b = b1 -> 2 [] b = b2 -> 3 [] b = b3 -> 4 [] OTHER -> 5
MCLedgerAt == [b \in MCBlk |-> LedgerList[Place(b)]]

MCWanted ==
  {[kind |-> "minted", address |-> "none", index |-> 0]}
  \cup [kind : {"balance", "nonce"}, address : {x, y}, index : {0}]
  \cup [kind : {"pending"}, address : {x}, index : {0, 1}]
=============================================================================
