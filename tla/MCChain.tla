------------------------------- MODULE MCChain -------------------------------
(***************************************************************************)
(* A tree of fourteen blocks for Chain.  Two miners, m1 and m2, are also   *)
(* the only accounts.  Block names give the branch and the height:         *)
(*                                                                         *)
(*   g -- a1 -- a2(t0) -- a3(t1)      a plain chain with transfers         *)
(*    |     |       |-- e3            empty                                *)
(*    |     |       `-- c3 -- c4(u1)  heavier than a3: an exact undo       *)
(*    |     |-- b2(t0)                heavier than a2, shorter             *)
(*    |     `-- e2 -- f3              without the transfer                 *)
(*    `-- d1                          heavier than all of them             *)
(*   and on a2: x3 with a wrong root, y3 confirming t0 again, w3 paying    *)
(*   its miner one too many.                                               *)
(***************************************************************************)
EXTENDS Explorer

CONSTANTS m1, m2, g, a1, a2, a3, e2, e3, f3, c3, c4, b2, d1, x3, y3, w3

MCAccount == {m1, m2}

Pay(amount, fee, nonce) ==
  [from |-> m1, to |-> m2, amount |-> amount, fee |-> fee, nonce |-> nonce, bytes |-> 200]

t0 == Pay(1, 2, 1)
t1 == Pay(1, 2, 2)
u1 == Pay(2, 3, 2)

Transfers == {t0, t1, u1}

\* prev, difficulty, miner, transfers, what the coinbase pays in excess
Plan(prev, difficulty, miner, txs, excess) ==
  [prev |-> prev, difficulty |-> difficulty, miner |-> miner, txs |-> txs, excess |-> excess]

Plans ==
  a1 :> Plan(g, 1, m1, <<>>, 0)    @@ a2 :> Plan(a1, 1, m1, <<t0>>, 0) @@
  a3 :> Plan(a2, 1, m1, <<t1>>, 0) @@ e3 :> Plan(a2, 1, m1, <<>>, 0) @@
  c3 :> Plan(a2, 2, m2, <<>>, 0)   @@ c4 :> Plan(c3, 1, m1, <<u1>>, 0) @@
  e2 :> Plan(a1, 1, m2, <<>>, 0)   @@ f3 :> Plan(e2, 1, m1, <<>>, 0) @@
  b2 :> Plan(a1, 2, m2, <<t0>>, 0)   @@ d1 :> Plan(g, 3, m2, <<>>, 0) @@
  x3 :> Plan(a2, 1, m2, <<>>, 0)   @@ y3 :> Plan(a2, 2, m2, <<t0>>, 0) @@
  w3 :> Plan(a2, 2, m2, <<>>, 1)

Hashes == DOMAIN Plans \cup {g}

Height0[h \in Hashes] == IF h = g THEN 0 ELSE 1 + Height0[Plans[h].prev]

\* A planned block before its root is known.
Draft(h) ==
  [prev |-> Plans[h].prev, difficulty |-> Plans[h].difficulty, sound |-> TRUE,
   miner |-> Plans[h].miner, txs |-> Plans[h].txs,
   reward |-> BlockReward(Height0[h]) + Fees(Plans[h]) + Plans[h].excess]

\* The roots its miner commits to: what the block's own ledger is.
Ledgers[h \in Hashes] ==
  IF h = g THEN EmptyLedger ELSE PostState(Ledgers[Plans[h].prev], Draft(h), Height0[h]).st

Tree ==
  [h \in Hashes |->
     IF h = g
     THEN [prev |-> "", difficulty |-> 1, sound |-> TRUE, miner |-> m1, reward |-> 0,
           txs |-> <<>>, root |-> EmptyLedger]
     ELSE Draft(h) @@ [root |-> IF h = x3 THEN EmptyLedger ELSE Ledgers[h]]]

\* Every end of a branch without genesis.
Ends ==
  UNION {{SubSeq(PathTo[h], i, Len(PathTo[h])) : i \in 2..Len(PathTo[h])} : h \in Hashes \ {g}}

\* The constants' values.  TLC keeps the value of a definition, but evaluates
\* what replaces a constant at each use: hence the names above and the LETs.
MCTx == LET txs == Transfers IN txs
MCBlk == LET hashes == Hashes IN hashes
MCHeader == LET tree == Tree IN tree
MCTails == LET ends == Ends IN ends
=============================================================================
