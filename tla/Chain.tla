-------------------------------- MODULE Chain --------------------------------
(***************************************************************************)
(* One node's chain (class Chain of chain.ts): the blocks it holds, the    *)
(* ledger it caches for their tip, its mempool and its orphans, and what   *)
(* it writes to disk; driven by blocks and block ranges from peers,        *)
(* transfers, a checkpoint, a change of storage mode and restarts.         *)
(*                                                                         *)
(* Blocks are named by their hashes; Header maps a hash to the block, see  *)
(* Ledger.  A pruned or imported node's first block is an anchor: it has   *)
(* the hash and the root of the block it stands for, nothing else.         *)
(*                                                                         *)
(* A handler is a function on a node, the record of the state below        *)
(* without readmit, so that the calls it makes compose.                    *)
(***************************************************************************)
EXTENDS MempoolPolicy, OrphanPool

CONSTANTS
  Genesis,     (* GENESIS_HASH                                             *)
  Tx,          (* the signed transfers                                     *)
  Tails,       (* the block ranges a peer may send, sequences of hashes    *)
  MaxHeight,   (* bounds the heights a peer may name                       *)
  Retention    (* pruneConfig.retentionWindow                              *)

ASSUME ChainAssumption ==
  /\ Genesis \in Blk
  /\ Tx \subseteq TransferType
  /\ Tails \subseteq Seq(Blk) \ {<<>>}
  /\ MaxHeight \in Nat /\ Retention \in Nat \ {0}

(***************************************************************************)
(* Every block but genesis names one of Blk as its parent: for a hash that *)
(* nobody has a block to stands a block that is not sound.  A block has    *)
(* its parent's hash in it, so that the links make no circle.  The last    *)
(* line is arithmetic, of which the provers know nothing for powers.       *)
(***************************************************************************)
ASSUME HeaderAssumption ==
  /\ Header[Genesis].prev \notin Blk /\ Header[Genesis].txs = <<>>
  /\ Header[Genesis].root = EmptyLedger
  /\ \A h \in Blk \ {Genesis} : Header[h].prev \in Blk
  /\ \A h \in Blk : Header[h].miner \in Account /\ Header[h].txs \in Seq(TransferType)
  /\ \A S \in (SUBSET Blk) \ {{}} : \E h \in S : Header[h].prev \notin S
  /\ \A h \in Blk : Header[h].difficulty \in Nat /\ 16 ^ Header[h].difficulty \in Nat \ {0}

(***************************************************************************)
(* Tx has the transfers in blocks too: all that will ever be signed.       *)
(***************************************************************************)
ASSUME TransferAssumption ==
  IsFiniteSet(Tx) /\ \A h \in Blk : ToSet(Header[h].txs) \subseteq Tx

VARIABLES
  blocks,    (* the local blocks, oldest first                             *)
  anchor,    (* checkpoint: [height, state] of blocks[1]; genesis if null  *)
  cache,     (* stateCache                                                 *)
  pool,      (* mempool, mempoolNextNonce, mempoolReserved                 *)
  orphans,   (* orphanBlocks, orphanOrder, orphanReceivedAt, orphansByPrev *)
  pruning,   (* pruneConfig.enabled                                        *)
  readmit,   (* transfers reorgToIncoming has still to offer to the pool   *)
  saved      (* what the last save() wrote                                 *)

vars == <<blocks, anchor, cache, pool, orphans, pruning, readmit, saved>>

Node == [blocks |-> blocks, anchor |-> anchor, cache |-> cache, pool |-> pool,
         orphans |-> orphans, pruning |-> pruning, saved |-> saved]

Become(handled) ==
  \E n \in {handled} :
    /\ blocks' = n.blocks /\ anchor' = n.anchor /\ cache' = n.cache /\ pool' = n.pool
    /\ orphans' = n.orphans /\ pruning' = n.pruning /\ saved' = n.saved

Known(n) == ToSet(n.blocks)

Height(n) == n.anchor.height + Len(n.blocks) - 1

NoCheckpoint == [height |-> 0, state |-> EmptyLedger]

-----------------------------------------------------------------------------
(* Validation. *)

\* Mutant: the header's root is not compared.
Validate_NoRoot(h, height, st) ==
  LET Verdict(post) == [ok |-> Header[h].sound /\ post.ok, st |-> post.st]
  IN Verdict(PostState(st, Header[h], height))

\* Is h a valid block at this height, on the ledger st of its parent?
Validate(h, height, st) ==
  LET Verdict(post) == [ok |-> Header[h].sound /\ post.ok /\ Header[h].root = StateRoot(post.st),
                        st |-> post.st]
  IN Verdict(PostState(st, Header[h], height))

\* A block is put on what has been replayed so far.
ReplayStep(done, h) ==
  LET Extend(v) ==
        IF done.ok /\ v.ok /\ Header[h].prev = done.tip
        THEN [ok |-> TRUE, st |-> v.st, height |-> done.height + 1, tip |-> h]
        ELSE [done EXCEPT !.ok = FALSE]
  IN Extend(Validate(h, done.height + 1, done.st))

\* Replay of a path whose first block, at height, left the ledger st.
Replay(path, height, st) ==
  FoldLeft(ReplayStep, [ok |-> TRUE, st |-> st, height |-> height, tip |-> Head(path)], Tail(path))

Replayed(path, b) == Replay(path, b.height, b.state)

Weigh(work, h) == work + 16 ^ Header[h].difficulty

Work(path) == FoldLeft(Weigh, 0, Tail(path))

\* The path from genesis to h, its height, and the ledger it leaves.
PathTo[h \in Blk] == IF h = Genesis THEN <<h>> ELSE Append(PathTo[Header[h].prev], h)

Depth(h) == Len(PathTo[h]) - 1

\* The subsidy is a number, at every height there is a block of: powers again.
ASSUME SubsidyAssumption == \A h \in Blk : BlockReward(Depth(h)) \in Nat

FullReplay(h) == Replay(PathTo[h], 0, EmptyLedger)

Genuine == {h \in Blk : FullReplay(h).ok}

-----------------------------------------------------------------------------
(* Saving and pruning. *)

\* The ledger after the first blocks of a node.
StateAt(n, count) == Replayed(SubSeq(n.blocks, 1, count), n.anchor).st

\* Mutant: the height is taken for the position among the local blocks.
MaybePrune_Absolute(n) ==
  LET height == Height(n) - Retention
  IN IF n.pruning /\ height > n.anchor.height
     THEN [n EXCEPT
             !.anchor = [height |-> height, state |-> StateAt(n, height + 1)],
             !.blocks = SubSeq(@, height + 1, Len(@))]
     ELSE n

\* Mutant: the checkpoint gets the ledger of the tip.
MaybePrune_TipLedger(n) ==
  LET height == Height(n) - Retention
  IN IF n.pruning /\ height > n.anchor.height
     THEN [n EXCEPT
             !.anchor = [height |-> height, state |-> n.cache],
             !.blocks = SubSeq(@, height - n.anchor.height + 1, Len(@))]
     ELSE n

MaybePrune(n) ==
  LET height == Height(n) - Retention
      kept == height - n.anchor.height + 1
  IN IF n.pruning /\ height > n.anchor.height
     THEN [n EXCEPT
             !.anchor = [height |-> height, state |-> StateAt(n, kept)],
             !.blocks = SubSeq(@, kept, Len(@))]
     ELSE n

Swept(n) == [n EXCEPT !.orphans = PruneOrphans(@, Known(n))]

Save(n) ==
  LET Written(m) == [m EXCEPT !.saved = [blocks |-> m.blocks, anchor |-> m.anchor,
                                         txs |-> m.pool.txs, pruning |-> m.pruning]]
  IN Written(Swept(MaybePrune(n)))

-----------------------------------------------------------------------------
(* tryAddBlock. *)

Forget(n, h) == [n EXCEPT !.orphans = RemoveSubtrees(@, {h})]

StoreWaiting(n, h) == [n EXCEPT !.orphans = StoreOrphan(@, h, Known(n))]

\* Mutant: what the block confirms stays in the pool.
Connect_KeepPool(n, h) ==
  LET Added(st) == [n EXCEPT !.blocks = Append(@, h), !.cache = st,
                             !.pool = Rebuilt(@.txs, st)]
  IN Save(Forget(Added(Validate(h, Height(n) + 1, n.cache).st), h))

Connect(n, h) ==
  LET Added(st) == [n EXCEPT !.blocks = Append(@, h), !.cache = st,
                             !.pool = Rebuilt(@.txs \ ToSet(Header[h].txs), st)]
  IN Save(Forget(Added(Validate(h, Height(n) + 1, n.cache).st), h))

\* tryAddBlock without the orphans it goes on to.
TryConnect(n, h) ==
  LET parent == Header[h].prev
      Try(m) ==
        IF /\ h \notin Known(m) /\ parent = Last(m.blocks)
           /\ Validate(h, Height(m) + 1, m.cache).ok
        THEN Connect(m, h)
        ELSE IF h \notin Known(m) /\ parent \notin Known(m) THEN StoreWaiting(m, h)
        ELSE Forget(m, h)
  IN Try(Swept(n))

\* A waiting block whose parent has come is tried.
TryOrphan(n, h) ==
  LET Tried(m) ==
        IF h \in Known(m) THEN m
        ELSE IF Header[h].prev \notin Known(m) THEN StoreWaiting(m, h)
        ELSE Forget(m, h)
  IN Tried(TryConnect([n EXCEPT !.orphans = RemoveOrphans(@, {h})], h))

\* Of the orphans that are tried, those that connect become parents in the queue.
TryAll(n, tried, queue) ==
  LET Queued(m) == [node |-> m, queue |-> queue \o Within(tried, Known(m))]
  IN Queued(FoldLeft(TryOrphan, n, tried))

\* One parent is taken from the queue and its waiting children are tried.
Round(acc, i) ==
  LET Waiting(o, h) == Within(o.order, Children(o, h))
  IN IF acc.queue = <<>> THEN acc
     ELSE TryAll(acc.node, Waiting(acc.node.orphans, Head(acc.queue)), Tail(acc.queue))

(***************************************************************************)
(* The queue of parents runs empty within as many rounds as there can be   *)
(* orphans.  The code tries a connected orphan's own children inside the   *)
(* call that connects it and again from the queue; children of one parent  *)
(* exclude each other, so the order makes no difference.                   *)
(***************************************************************************)
ProcessOrphansFrom(n, parent) ==
  LET start == [node |-> Swept(n), queue |-> <<parent>>]
  IN Swept(FoldLeft(Round, start, [i \in 1..(MaxOrphans + 1) |-> i]).node)

TryAddBlock(n, h) ==
  LET Follow(m) == IF h \in Known(m) \ Known(n) THEN ProcessOrphansFrom(m, h) ELSE m
  IN Follow(TryConnect(n, h))

-----------------------------------------------------------------------------
(* applyBlockRange: either the range starts at the tip, or it is a fork.   *)

Linear(n, from, tail) == from = Height(n) + 1 /\ Header[Head(tail)].prev = Last(n.blocks)

AddNext(acc, h) ==
  LET Added(m) == [ok |-> h \in Known(m) \ Known(acc.node), node |-> m]
  IN IF acc.ok THEN Added(TryAddBlock(acc.node, h)) ELSE acc

\* The blocks are added one by one until one is refused.
AddRange(n, tail) == Swept(FoldLeft(AddNext, [ok |-> TRUE, node |-> n], tail).node)

\* The local blocks up to the height below from, then the range.
Incoming(n, from, tail) ==
  LET common == Min({Max({n.anchor.height, from - 1}), Height(n)})
  IN SubSeq(n.blocks, 1, common - n.anchor.height + 1) \o tail

Linked(path) == \A i \in 2..Len(path) : Header[path[i]].prev = path[i - 1]

\* Mutant: as much work is enough.
Adoptable_EqualWork(n, incoming) ==
  /\ Linked(incoming)
  /\ Work(incoming) >= Work(n.blocks)
  /\ Replayed(incoming, n.anchor).ok

Adoptable(n, incoming) ==
  /\ Linked(incoming)
  /\ Work(incoming) > Work(n.blocks)
  /\ Replayed(incoming, n.anchor).ok

\* Position of the last incoming block that is also a local one.
ForkPoint(n, incoming) == Max({i \in DOMAIN incoming : incoming[i] \in Known(n)})

Undone(n, incoming) == SubSeq(n.blocks, ForkPoint(n, incoming) + 1, Len(n.blocks))

\* The old blocks are undone on the cached ledger, the new ones applied to it.
Redo(n, incoming) ==
  LET fork == ForkPoint(n, incoming)
      undo == [k \in 1..(Len(n.blocks) - fork) |-> fork + k]
      st == FoldRight(LAMBDA i, acc : UndoBlock(acc, Header[n.blocks[i]], n.anchor.height + i - 1),
                      undo, n.cache)
  IN Replay(SubSeq(incoming, fork, Len(incoming)), n.anchor.height + fork - 1, st)

\* What every adoption ends with.
Settle(n) ==
  LET Follow(m) == ProcessOrphansFrom(m, Last(m.blocks)) IN Swept(Follow(Save(Swept(n))))

\* Mutant: the pool's index is not rebuilt.
AdoptByReplay_StalePool(n, incoming) ==
  LET Moved(st) == [n EXCEPT !.blocks = incoming, !.cache = st]
  IN Settle(Moved(Replayed(incoming, n.anchor).st))

\* The root differs after the undo: replay all, keep the pool.
AdoptByReplay(n, incoming) ==
  LET Moved(st) == [n EXCEPT !.blocks = incoming, !.cache = st, !.pool = Rebuilt(@.txs, st)]
  IN Settle(Moved(Replayed(incoming, n.anchor).st))

AdoptByUndo(n, incoming) ==
  [n EXCEPT !.blocks = incoming, !.cache = Redo(n, incoming).st, !.pool = EmptyPool]

\* Once there is nothing left to readmit.
Finished(n, left) == IF left = <<>> THEN Settle(n) ELSE n

AddBody(txs, h) == txs \o Header[h].txs

BodyOf(path) == FoldLeft(AddBody, <<>>, path)

-----------------------------------------------------------------------------
(* The node. *)

Init ==
  /\ blocks = <<Genesis>> /\ anchor = NoCheckpoint /\ cache = EmptyLedger
  /\ pool = EmptyPool /\ orphans = EmptyOrphans
  /\ pruning \in BOOLEAN
  /\ readmit = <<>>
  /\ saved = [blocks |-> blocks, anchor |-> anchor, txs |-> {}, pruning |-> pruning]

Idle == readmit = <<>>

\* A block from a peer or from the node's own miner.
Receive(h) ==
  /\ Idle
  /\ Become(TryAddBlock(Node, h))
  /\ UNCHANGED readmit

ReceiveLinear(from, tail) ==
  /\ Idle
  /\ Linear(Node, from, tail)
  /\ Become(AddRange(Swept(Node), tail))
  /\ UNCHANGED readmit

RefuseFork(from, tail) ==
  /\ Idle
  /\ ~ Linear(Node, from, tail)
  /\ ~ Adoptable(Node, Incoming(Node, from, tail))
  /\ Become(Swept(Node))
  /\ UNCHANGED readmit

ReplayFork(from, tail) ==
  /\ Idle
  /\ ~ Linear(Node, from, tail)
  /\ \E incoming \in {Incoming(Node, from, tail)} :
       /\ Adoptable(Node, incoming)
       /\ ~ Redo(Node, incoming).ok
       /\ Become(AdoptByReplay(Swept(Node), incoming))
  /\ UNCHANGED readmit

\* The undone transfers, then the pool's, go back to an empty pool.
RedoFork(from, tail) ==
  /\ Idle
  /\ ~ Linear(Node, from, tail)
  /\ \E incoming \in {Incoming(Node, from, tail)} :
       /\ Adoptable(Node, incoming)
       /\ Redo(Node, incoming).ok
       /\ \E waiting \in SetToSeqs(pool.txs) :
            readmit' = BodyOf(Undone(Node, incoming)) \o waiting
       /\ Become(Finished(AdoptByUndo(Swept(Node), incoming), readmit'))

\* addToMempool with the save of an accepted transfer.
Offered(n, outcome) ==
  LET Pooled == [n EXCEPT !.pool = outcome.pool]
  IN IF outcome.added THEN Save(Pooled) ELSE Pooled

Readmit ==
  /\ ~ Idle
  /\ readmit' = Tail(readmit)
  /\ \E outcome \in AddToMempool(pool, cache, Head(readmit)) :
       Become(Finished(Offered(Node, outcome), readmit'))

Submit(t) ==
  /\ Idle
  /\ \E outcome \in AddToMempool(pool, cache, t) : Become(Offered(Node, outcome))
  /\ UNCHANGED readmit

\* The oldest orphans pass ORPHAN_TTL_MS one after the other.
Expire ==
  /\ Idle
  /\ \E h \in orphans.blks \ orphans.old :
       /\ \A g \in orphans.blks \ orphans.old :
            h = g \/ \E i, j \in DOMAIN orphans.order :
                       i < j /\ orphans.order[i] = h /\ orphans.order[j] = g
       /\ orphans' = [orphans EXCEPT !.old = @ \cup {h}]
  /\ UNCHANGED <<blocks, anchor, cache, pool, pruning, readmit, saved>>

SetStorageMode(on) ==
  /\ Idle
  /\ Become(Save([Node EXCEPT !.pruning = on]))
  /\ UNCHANGED readmit

\* What a peer exports of its own tip.
SnapshotOf(h) == [height |-> Depth(h), state |-> FullReplay(h).st]

(***************************************************************************)
(* importCheckpointSnapshot of a peer's snapshot of its own tip.  That the *)
(* node is at genesis is checked by the network code when it asks, not     *)
(* when the answer arrives.                                                *)
(***************************************************************************)
ImportCheckpoint(h) ==
  /\ Idle
  /\ Become(Save([Node EXCEPT
                    !.blocks = <<h>>, !.anchor = SnapshotOf(h), !.cache = SnapshotOf(h).state,
                    !.pool = EmptyPool, !.orphans = EmptyOrphans]))
  /\ UNCHANGED readmit

\* load() of the last save (see Restart in Mempool); what does not replay is refused.
Restart ==
  /\ \E loaded \in {Replayed(saved.blocks, saved.anchor)} :
       /\ loaded.ok
       /\ Become([blocks |-> saved.blocks, anchor |-> saved.anchor, cache |-> loaded.st,
                  pool |-> Rebuilt({t \in saved.txs : PolicyOk(t)}, loaded.st),
                  orphans |-> EmptyOrphans, pruning |-> saved.pruning, saved |-> saved])
  /\ readmit' = <<>>

Next ==
  \/ \E h \in Blk : Receive(h)
  \/ \E from \in 0..(MaxHeight + 1), tail \in Tails :
       \/ ReceiveLinear(from, tail)
       \/ RefuseFork(from, tail)
       \/ ReplayFork(from, tail)
       \/ RedoFork(from, tail)
  \/ Readmit
  \/ \E t \in Tx : Submit(t)
  \/ Expire
  \/ \E on \in BOOLEAN : SetStorageMode(on)
  \/ \E h \in Genuine \ {Genesis} : ImportCheckpoint(h)
  \/ Restart

Spec == Init /\ [][Next]_vars

-----------------------------------------------------------------------------
(* Properties. *)

(* Whatever mixture of blocks, ranges, reorganisations, pruning, imports    *)
(* and restarts came before: the local blocks are the end of one valid      *)
(* chain from genesis, and the checkpoint stands at its true height.        *)
ChainGenuine ==
  LET tip == Last(blocks)
  IN /\ tip \in Genuine
     /\ anchor.height = Depth(Head(blocks))
     /\ blocks = SubSeq(PathTo[tip], anchor.height + 1, Len(PathTo[tip]))

(* The cached ledger and the checkpoint's are those of a replay from        *)
(* genesis, although the code gets the first by adding blocks one at a      *)
(* time or by undoing and redoing them, and the second by pruning.          *)
LedgerExact ==
  /\ cache = FullReplay(Last(blocks)).st
  /\ anchor.state = FullReplay(Head(blocks)).st

(* Coins are only made by the subsidy: balances, never negative, and        *)
(* immature rewards add up to what was minted, within MAX_SUPPLY; and no    *)
(* transfer is confirmed twice on the chain to the node's tip.              *)
Conserved ==
  /\ Balances(cache) + Immature(cache) = cache.minted
  /\ cache.minted <= MaxSupply
  /\ \A a \in DOMAIN cache.bal : cache.bal[a] >= 0
  /\ IsInjective(BodyOf(PathTo[Last(blocks)]))

(* The node moves only to a tip with strictly more work than the one it     *)
(* leaves, also when its own first block is an anchor and the work before   *)
(* it is not counted.  An import and a restart are the exceptions.          *)
WorkGrows ==
  [][Last(blocks') # Last(blocks) =>
       \/ Work(PathTo[Last(blocks')]) > Work(PathTo[Last(blocks)])
       \/ Restart
       \/ \E h \in Genuine : ImportCheckpoint(h)]_vars

(* A save taken at any moment can be loaded: the file replays from its own  *)
(* checkpoint, to the ledger the header of its last block commits to, so no *)
(* crash leaves the node with a chain load() refuses.                       *)
SavedLoads ==
  /\ Replayed(saved.blocks, saved.anchor).ok
  /\ Replayed(saved.blocks, saved.anchor).st = Header[Last(saved.blocks)].root

(* The pool of the full node behaves as Mempool says, where the ledger was  *)
(* two arbitrary numbers per account: no path of the chain code moves the   *)
(* ledger without the matching change of the pool, its index and its save.  *)
Confirmed(st) == [a \in Account |-> Num(st.nonce, a)]
Spendable(st) == [a \in Account |-> Num(st.bal, a)]
View(save) ==
  LET st == Header[Last(save.blocks)].root
  IN [txs |-> save.txs, confirmed |-> Confirmed(st), spendable |-> Spendable(st)]

Abstract == INSTANCE Mempool WITH
  confirmed <- Confirmed(cache), spendable <- Spendable(cache),
  saved <- View(saved), Balance <- 0..MaxSupply

PoolImplemented == Abstract!Spec
=============================================================================
