------------------------------- MODULE Mempool -------------------------------
(***************************************************************************)
(* The life of the mempool of one node (class Chain of chain.ts): what     *)
(* admission, block connection, a reorganisation, a checkpoint import and  *)
(* a restart do to it and to the copies of it that save() writes.          *)
(*                                                                         *)
(* Of the ledger the pool reads two things, the confirmed nonce and the    *)
(* spendable balance of a sender.  Blocks move the nonces by the transfers *)
(* they confirm; balances move with transfers to and from anybody and with *)
(* maturing rewards, so a block may leave any balance.  Module Chain has   *)
(* the same pool over the full ledger and is shown to implement this one.  *)
(***************************************************************************)
EXTENDS MempoolPolicy

CONSTANTS
  Tx,       (* the signed transfers that may be offered                    *)
  Balance   (* the balances an account may have (bounds the model)         *)

ASSUME MempoolAssumption ==
  /\ Tx \subseteq TransferType
  /\ IsFiniteSet(Tx)
  /\ Balance \subseteq Nat

VARIABLES
  confirmed,  (* account -> confirmed nonce                                *)
  spendable,  (* account -> spendable balance                              *)
  pool,       (* mempool, mempoolNextNonce, mempoolReserved                *)
  readmit,    (* transfers reorgToIncoming has still to offer to the pool  *)
  saved       (* what the last save() wrote: pool transfers and ledger     *)

vars == <<confirmed, spendable, pool, readmit, saved>>

\* Confirmed nonces: an account's transfers are all in Tx.
Nonces == {c \in [Account -> 0..MaxNonce] : \A a \in Account : c[a] \in {0} \cup NoncesOf(Tx, a)}
Balances0 == [Account -> Balance]

Standing == [nonce |-> confirmed, bal |-> spendable]

UniqueNonces(txs) ==
  \A t, u \in txs : t.from = u.from /\ t.nonce = u.nonce => t = u

\* save(): the pool and the chain go to disk together.
Save == saved' = [txs |-> pool'.txs, confirmed |-> confirmed', spendable |-> spendable']

\* The transfers by which the nonces from move to the nonces to.
Moves(body, from, to) ==
  /\ UniqueNonces(body)
  /\ \A a \in Account : from[a] <= to[a] /\ NoncesOf(body, a) = (from[a] + 1)..to[a]

\* The orders in which a chain may have confirmed the transfers.
ChainOrders(body) ==
  {s \in SetToSeqs(body) :
     \A i, j \in DOMAIN s : i < j /\ s[i].from = s[j].from => s[i].nonce < s[j].nonce}

Init ==
  /\ confirmed = [a \in Account |-> 0]
  /\ spendable \in Balances0
  /\ pool = EmptyPool
  /\ readmit = <<>>
  /\ saved = [txs |-> {}, confirmed |-> confirmed, spendable |-> spendable]

\* addToMempool: it saves only what it accepts.
Offer(t, saveAnyway) ==
  \E outcome \in AddToMempool(pool, Standing, t) :
    /\ pool' = outcome.pool
    /\ UNCHANGED <<confirmed, spendable>>
    /\ IF outcome.added \/ saveAnyway THEN Save ELSE UNCHANGED saved

\* A transfer offered by a peer's message or by the wallet.
Submit(t) ==
  /\ readmit = <<>>
  /\ Offer(t, FALSE)
  /\ UNCHANGED readmit

\* tryAddBlock succeeds, once or several times in a row (applyBlockRange).
Connect(body) ==
  /\ readmit = <<>>
  /\ confirmed' \in Nonces
  /\ Moves(body, confirmed, confirmed')
  /\ spendable' \in Balances0
  /\ pool' = Rebuilt(pool.txs \ body, Standing')
  /\ Save
  /\ UNCHANGED readmit

(***************************************************************************)
(* reorgToIncoming when undoing the old blocks reproduces the state roots: *)
(* the pool is emptied and the undone transfers, then the old pool's, are  *)
(* offered to it again, each a step here because each that is accepted     *)
(* queues a save of its own.  The node is single-threaded, so only a crash *)
(* comes between; the save at the end is part of the last step.            *)
(***************************************************************************)
StartReorg(undone, fork) ==
  /\ readmit = <<>>
  /\ Moves(undone, fork, confirmed)
  /\ confirmed' \in Nonces
  /\ \A a \in Account : fork[a] <= confirmed'[a]
  /\ spendable' \in Balances0
  /\ pool' = EmptyPool
  /\ \E first \in ChainOrders(undone), rest \in SetToSeqs(pool.txs) :
       readmit' = first \o rest
  /\ IF readmit' = <<>> THEN Save ELSE UNCHANGED saved

Readmit ==
  /\ readmit # <<>>
  /\ readmit' = Tail(readmit)
  /\ Offer(Head(readmit), readmit' = <<>>)

\* Mutant: the index is left as it was.
ReorgRebuild_Stale ==
  /\ readmit = <<>>
  /\ confirmed' \in Nonces
  /\ spendable' \in Balances0
  /\ pool' = pool
  /\ Save
  /\ UNCHANGED readmit

\* reorgToIncoming when they differ: the pool is kept, only its index is new.
ReorgRebuild ==
  /\ readmit = <<>>
  /\ confirmed' \in Nonces
  /\ spendable' \in Balances0
  /\ pool' = Rebuilt(pool.txs, Standing')
  /\ Save
  /\ UNCHANGED readmit

\* importCheckpointSnapshot.
ImportCheckpoint ==
  /\ readmit = <<>>
  /\ confirmed' \in Nonces
  /\ spendable' \in Balances0
  /\ pool' = EmptyPool
  /\ Save
  /\ UNCHANGED readmit

\* setPruneConfig saves whatever is there.
SetPruneConfig ==
  /\ readmit = <<>>
  /\ UNCHANGED <<confirmed, spendable, pool, readmit>>
  /\ Save

(***************************************************************************)
(* The process dies and load() reads the last save.  Saves are queued and  *)
(* land in order, so a crash may also leave an earlier one; the node then  *)
(* restarts as it would have right after that save, which is a behaviour   *)
(* of this action too, because every save is one step and the step may be  *)
(* followed by Restart.                                                    *)
(***************************************************************************)
Restart ==
  /\ confirmed' = saved.confirmed
  /\ spendable' = saved.spendable
  /\ pool' = Rebuilt({t \in saved.txs : PolicyOk(t)}, Standing')
  /\ readmit' = <<>>
  /\ UNCHANGED saved

Next ==
  \/ \E t \in Tx : Submit(t)
  \/ \E body \in SUBSET Tx : Connect(body)
  \/ \E undone \in SUBSET Tx, fork \in Nonces : StartReorg(undone, fork)
  \/ Readmit
  \/ ReorgRebuild
  \/ ImportCheckpoint
  \/ SetPruneConfig
  \/ Restart

Spec == Init /\ [][Next]_vars

-----------------------------------------------------------------------------
(* Properties. *)

TypeOK ==
  /\ confirmed \in Nonces
  /\ spendable \in Balances0
  /\ pool.txs \subseteq Tx
  /\ readmit \in Seq(Tx)
  /\ saved \in [txs : SUBSET Tx, confirmed : Nonces, spendable : Balances0]

(* mempoolNextNonce and mempoolReserved are caches of what the pool and the *)
(* ledger say.  Whatever moved either of them has rebuilt them, so no       *)
(* handler ever decides on a nonce or a reservation of an older ledger.     *)
IndexFresh == pool = Rebuilt(pool.txs, Standing)

(* Two waiting transfers of one sender never carry the same nonce, although *)
(* admission checks the nonce before it evicts, blocks confirm conflicting  *)
(* transfers that leave stale ones behind, and reorganisations move the     *)
(* confirmed nonces back under them.                                        *)
UniqueNonce == UniqueNonces(pool.txs)

(* The pool keeps to MAX_MEMPOOL_TXS and to MAX_MEMPOOL_TXS_PER_SENDER.     *)
PoolBounded ==
  /\ Cardinality(pool.txs) <= MaxPoolTxs
  /\ \A a \in Account : Cardinality({t \in pool.txs : t.from = a}) <= MaxPerSender

(* A transfer the node holds is in its last save, also in the middle of a   *)
(* reorganisation: once the disk has caught up, a crash loses no accepted   *)
(* transfer.                                                                *)
AcceptedIsSaved == pool.txs \subseteq saved.txs

(* An eviction takes the tail of a sender's nonces: it never removes a      *)
(* transfer and leaves a later one of the same sender that was waiting      *)
(* behind it.                                                               *)
EvictionTakesTail ==
  [][\A t \in Tx : Submit(t) =>
       \A gone \in pool.txs \ pool'.txs, kept \in pool.txs \cap pool'.txs :
         gone.from = kept.from => kept.nonce < gone.nonce]_vars
=============================================================================
