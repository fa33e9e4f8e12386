# DubzChain in TLA+

A verification project for the TypeScript node in `src/`: TLA+ modules
translated from the source, TLC configurations that check them on small
instances, and theorems about them that TLAPS proves for every value of the
constants.

The node is one Node.js process. Its JavaScript is single-threaded: a message
handler, a timer or one turn of the miner's loop runs to its end before the
next starts. What interleaves is therefore whole handlers, the `await`s of the
miner and of the disk queue, messages of several peers, and crashes.

## 1. The system

Line numbers are those of the files under `src/`.

### 1.1 Ledger and block validation (`chain.ts` 367-685, 1100-1430)
* **State**: `ReplayState`: balances, confirmed nonces, pending coinbase
  rewards, minted supply.
* **Operations**: `unlockMaturedRewards`, `applyBlockBodyToState`,
  `computePostStateForBlock`, `undoBlockFromState`,
  `replayValidateChain(FromState)`, `computeStateRoot`.
* **Hard**: undo is not the inverse of apply; the supply limit at its last
  subsidy; absolute heights against positions in a pruned array.
* **Correct when**: coins come from subsidies only and stay within the limit, no
  transfer is confirmed twice, and the cached ledger is that of a replay.

### 1.2 Mempool (`chain.ts` 790-890, 1916-2042, 2558-2775)
* **State**: `mempool`, and two indexes over it, `mempoolNextNonce` and
  `mempoolReserved`.
* **Operations**: `addToMempool`, `maybeEvictForAdmission`,
  `rebuildMempoolReservations`, `buildBlock`; every change of the chain changes
  it too.
* **Hard**: checks that precede an eviction which changes what they checked;
  two limits enforced in turn; readmission after a reorganisation; reload.
* **Correct when**: the indexes are never stale, nonces are unique, the limits
  hold, nothing accepted is lost in a crash, and what is selected is valid.

### 1.3 Orphans (`chain.ts` 1675-1728, 2065-2178)
* **State**: `orphanBlocks`, `orphanOrder`, `orphanReceivedAt`, `orphansByPrev`.
* **Operations**: `storeOrphan`, `processOrphansFrom`, `removeOrphanSubtree`,
  `pruneExpiredOrphans`, `pruneDanglingOrphans`, `evictOldestOrphan`.
* **Hard**: four structures for one set; prunes called from inside the
  functions that use the pool.
* **Correct when**: the four agree, and a waiting block is attached when its
  parent comes.

### 1.4 Chain adoption, pruning, checkpoints (`chain.ts` 1440-1885, 2274-2556, 2782-2982)
* **State**: `blocks`, `checkpoint`, `stateCache`, `pruneConfig`.
* **Operations**: `tryAddBlock`, `applyBlockRange`, `tryAdoptForkFromHeight`,
  `reorgToIncoming`, `maybePruneOldBlocks`, `setStorageMode`,
  `importCheckpointSnapshot`, `save`, `load`.
* **Hard**: reorganisation by undo and by replay, on a chain whose first block
  may be an anchor; crash in the middle; import over existing state.
* **Correct when**: the local blocks are always the end of one valid chain, work
  only grows, and a save can always be loaded.

### 1.5 Timestamps, difficulty, Merkle trees (`chain.ts` 240-565, 597-606, 1019-1184, 2703-2792)
* **State**: the times and difficulties of the local blocks, the node's clock, the
  block being mined; `merkleLayersCache`.
* **Operations**: `medianTimePast`, `validateTimestamp`, `nextDifficulty`,
  `buildBlock`'s choice of a time, `mineAsync`; the leaves of a ledger, layers,
  roots, proofs and their verification.
* **Hard**: clocks that differ; windows that reach behind an anchor, which has
  genesis' time; a cache of layers while the tip moves.
* **Correct when**: a miner's block meets the rules it is judged by, a chain that
  was taken can be replayed, nodes with one tip judge alike, and what is proved is
  true of one ledger.

### 1.6 Files (`async-disk.ts`, `chainstate.ts`, `chain-repair.ts`, `crash-journal.ts`)
* **State**: the queue of write jobs; primary and backup of the chain file, the
  chainstate file, the snapshot file and the crash journal.
* **Operations**: enqueue, write with three attempts, copy to backup, repair a
  pair, load with fall-backs; begin, stage, complete and recover a journal entry.
* **Hard**: crash between two files, a job that fails for good while later ones
  go on, a journal completed when the writes are only queued, a start that is
  itself cut short.
* **Correct when**: whatever the crash, `load` finds the newest save that landed,
  never one older than the last that reached both of its files, with its ledger;
  an entry is open exactly if a save was cut short.

### 1.7 Synchronisation and bootstrap (`network.ts` 905-1510, 2098-2247, 2375-2735)
* **State**: the sync owner `activeSyncPeer`, known by the peer's label; of each
  socket `peerRemoteHeight` and `peerKnownBlocks`; `recentBlockSeen`; the
  `snapshotBootstrap` record with its chunks.
* **Operations**: `onSocketOpen` asks for headers and snapshot metadata;
  `handleHeadersResponse` takes the sync and asks for a range;
  `handleBlockRangeResponse` applies it and asks for headers again or gives the
  sync up; `announceBlock`, `handleBlockInv`, `handleBlockGet`,
  `handleCompactBlock` spread a new block; `onSocketClose` releases what the peer
  held.
* **Hard**: lost or empty answers, an owner that leaves, answers that arrive
  after either side's chain has moved, two connections with one label, headers
  that are counted and compared by place on pruned nodes, no timer that repeats a
  request.
* **Correct when**: blocks of two chains are never joined, a node leaves its
  chain only for more work, the owner is connected and has something to answer,
  a peer is not believed to be higher than it is, and connected nodes end up on
  one chain.

### 1.8 Relay (`network.ts` 1742-2400, 2775-2942)
* **State**: `recentTxSeen` and `recentBlockSeen`; of each socket `peerKnownTxs`
  and `peerKnownBlocks`; `pendingCompactBlocks` with what was asked for.
* **Operations**: announce, ask for and batch transfers; exchange whole pools;
  announce blocks, send compact blocks, complete them from the pool, ask for what
  is missing, fall back to the full block.
* **Hard**: several peers announce one thing, a pool evicts what was just
  fetched, an entry is looked at again only when an answer comes, caches expire
  while a request is under way.
* **Correct when**: what is waited for is asked for, nothing is asked of two peers
  at once, and nobody is believed to know what it was never told.

### 1.9 Connections, reputation, bandwidth (`network.ts` 1527-1652, 1716-1740, 2588-2664, 2944-3085, 3266-3338; `peer-reputation.ts`; `bandwidth-throttle.ts`)
* **State**: of each socket its state; `outboundUrls`, `reconnectTimers`,
  `peerTable` and its file; `inboundByIp`, `banUntil`, `rateBook`; the book of
  scores and bans; the bytes of each peer's current window.
* **Operations**: dial, redial, discovery; accept, open, close, error; the checks
  every message passes; `markBad`, `record`, `punish`, `ban`, decay; heartbeat.
* **Hard**: counters decremented on a path that did not increment them; two
  sockets of one url; two bans of one peer, by address and by name, that start and
  end apart; decays that come late and stop during a ban; a table that evicts.
* **Correct when**: no count or url stays behind when a socket is gone, an address
  has no more callers than allowed, and nobody is banned who did nothing wrong.

### 1.10 Miner (`index.ts` 313-415, 700-848; `chain.ts` 1019-1080)
* **State**: `miningRuntime` (enabled, paused, stop requested, control state), the
  block under search.
* **Operations**: start, pause, resume and stop; build, search, cancel, connect.
* **Hard**: tip, pool and controls change while the search awaits; an exception
  ends the loop while the servers go on.
* **Correct when**: a found block is connected only on the tip it was built on.

### 1.11 RPC server, wallet, explorer, command line (`rpc.ts`, `wallet.ts`, `index.ts` 97-223, 429-697)
* **State**: the send history and its file; requests under way, each with the
  transfer it has signed; on the client's side a promise with a timer.
* **Operations**: `/wallet/send`, `/wallet/buildTx`, `/submitTx`, `/mining/*`,
  `/proof/*`; the pages of wallets, blocks, transfers and analytics, the snapshot offered; the debugging
  requests `block-validate`, `state-root-check`, `replay-verify`, `fork-compare`;
  the client's proof commands.
* **Hard**: a send awaits its own node's socket and falls back to the pool; nonces
  are chosen before that; pages read the chain by place; a reply, a timer, an error
  and a close race.
* **Correct when**: a refused transfer has not been sent, an accepted one is not
  dropped, what is told agrees with the ledger and with what the node would do.

### 1.12 Profiles and tools
`mainnet-profile.ts`, `telemetry.ts`, `benchmark.ts`, `rc-validation.ts`,
`explorer-deploy.ts`, `public-seeds.ts`, `rpc-auth.ts`, `tls-config.ts`,
`security-test.ts`: constants, counters, scripts and tests. `rpc.ts.backup`,
`backups/` and files named like shell fragments are leftovers and not read.

### 1.13 How they interact
A peer's message reaches `network.ts`, which calls `applyBlockRange`,
`tryAddBlock`, `addToMempool` or `importCheckpointSnapshot` on the one `Chain`.
The miner and the RPC server call the same object. Every change ends in
`save()`, which opens a journal entry and queues files in `async-disk.ts`; only
`load()` at the next start reads them.

## 2. The modules

    Ledger ──┬── MempoolPolicy ──┬── Mempool ── Mempool_proofs
             │        │          │      ▲ refinement (PoolImplemented)
             │        │  OrphanPool ── Chain ── Explorer ── Chain_proofs (uses Mempool_proofs)
             │        │
             │        └── Service
             └── StateProofs

    DiskQueue ── Persistence ── Journal ── Persistence_proofs
                     │
                     │ refinement (Durable)
                 DurableChain

    Network ──┬── Sync ── Sync_proofs
              │    │ refinement (Replicates)
              │ Replication
              └── Relay ── Relay_proofs

    Reputation ── Peers ── Peers_proofs

    Headers ── Headers_proofs

    Lists (used by OrphanPool, Chain, Relay) ── Folding (used by Chain_proofs and Relay_proofs)

| module | models | state | actions |
|---|---|---|---|
| `Ledger` | `ReplayState` and the functions that move it | none (operators) | |
| `MempoolPolicy` | reservations, relay policy, eviction, `addToMempool`, selection | none | |
| `Mempool` | the pool's life against an abstract ledger: what `Chain` promises of it | `confirmed`, `spendable`, `pool`, `readmit`, `saved` | `Submit`, `Connect`, `StartReorg`, `Readmit`, `ReorgRebuild`, `ImportCheckpoint`, `SetPruneConfig`, `Restart` |
| `Lists` | `Array.prototype.filter` as a recursion on places | none | |
| `OrphanPool` | the orphan maps | none | |
| `Chain` | one node: chain, checkpoint, cached ledger, pool, orphans, storage mode, last save | `blocks`, `anchor`, `cache`, `pool`, `orphans`, `pruning`, `readmit`, `saved` | `Receive`, `ReceiveLinear`, `RefuseFork`, `ReplayFork`, `RedoFork`, `Readmit`, `Submit`, `Expire`, `SetStorageMode`, `ImportCheckpoint`, `Restart` |
| `Explorer` | what pages and debugging requests tell of `Chain`'s state | that of `Chain` | none: it only reads |
| `Headers` | times and difficulty on two nodes with clocks of their own | `time`, `offset`, `blocks`, `base`, `job` | `Tick`, `Build`, `Find`, `GiveUp`, `Deliver`, `Prune`, `Import` |
| `StateProofs` | leaves, layers and their cache, proofs; who asks for them and how | `tip`, `cache`, `asks`, `client`, `wire`, `seen` | `Move`, `Get`, `Ask`, `Open`, `Serve`, `Lose`, `Receive`, `Timeout`, `SocketError`, `Closed`, `Exit`, `Restart` |
| `DurableChain` | what the files promise: a save lands, then settles; a start is on what has landed | `running`, `latest`, `durable`, `settled` | `Save`, `Land`, `Settle`, `Stop`, `Lose`, `Start` |
| `DiskQueue` | the write queue and the pairs of files | `files`, `queue`, `attempts`, `half` | `WritePrimary`, `CopyBackup`, `Fail`, `DiskCrash` |
| `Persistence` | `save()`, the queue at work, crash, damage, repair and `load()` | those of `DiskQueue`, `phase`, `todo`, `existed`, `mem`, `stage`, `cause`, `saves`, `settled` | `Change`, `ImportCheckpoint`, `QueueChain`, `QueueRest`, `Write`, `Copy`, `WriteFails`, `Crash`, `Damage`, `Boot`, `Repair`, `Load`, `NoLoad` (`Refuse` or `NewChain`), `FirstSave` |
| `Journal` | the crash journal beside those files | those of `Persistence`, `journal`, `cut`, `whole` | those of `Persistence`, each with what it does to the journal, and `JournalDamage` |
| `Reputation` | the book of scores and bans | none | |
| `Peers` | the connections of one node and how it treats its peers | `sock`, `outbound`, `timers`, `table`, `inbound`, `bans`, `rep`, `quiet`, `rate`, `used`; `bad`, `around` are bounds | `Discover`, `Reconnect`, `Open`, `DialFails`, `Accept`; `Throttled`, `Unparsable`, `WhileBanned`, `TooMany`, `Rejected`, `Handled`, `Learn`; `Break`, `Stale`, `Close`; `NewWindow`, `Tick`, `Poll`, `Restart` |
| `Replication` | what the network promises: a tip moves to a block mined on it, or to one with more work that somebody mined | `tip`, `mined` | `Mine`, `Adopt` |
| `Network` | sockets and the messages under way | `sock`, `wire` | `Dial`, `Break` |
| `Sync` | several nodes that sync and announce blocks | those of `Network`, `node`, `mined` | `Accept`, `Open`, `Close`, `Closing`, `Drop`; `ServeHeaders`, `RefuseHeaders`, `HeadersNotAhead`, `HeadersWhileBusy`, `HeadersForSnapshot`, `HeadersForBlocks`; `ServeRange`, `IgnoreRange`, `RefuseRange`, `ApplyRange`; `Mine`, `HandleInv`, `ServeBlock`, `RefuseBlock`, `ConnectBlock`, `Expire`; `ServeMeta`, `IgnoreMeta`, `HandleMeta` |
| `Relay` | several nodes that pass transfers and blocks on | those of `Network`, `node` | `Submit`, `Evict`, `Mine`, `Expire`; `ServeMempool`, `HandleMempool`; `HandleTxInv`, `ServeTx`, `HandleTxBatch`; `HandleInv`, `ServeBlock`, `ServeBlockTxs`, `ConnectBlock`, `RefuseBlock`, `FetchTxs`, `FetchBlock`, `Await`, `IgnoreCompact`, `IgnoreBlockTxs`, `HandleBlock`; `Accept`, `Open`, `Close` |
| `Service` | the miner's loop, its controls and the wallet's sends in one node | `chain`, `ledger`, `pool`, `mining`, `request`, `inbox`, `history` | `PeerTx`, `PeerBlock`; `Control`, `EnterLoop`, `BuildBlock`, `BuildFails`, `Cancel`, `Find`; `Sign`, `Invalid`, `SendOverSocket`, `SendDirectly`, `Receive`, `Lose`; `ClearHistory`, `Restart` |

Each of the `MC*` modules gives the constants of one of them their values.

### How they correspond to the code
* A handler is one action with every call it makes: connecting a block rebuilds
  the reservations, prunes, saves, sweeps and processes orphans, all in
  `Receive`. In `Chain` a handler is a function from node to node, so that
  `tryAddBlock` is the same operator wherever it is called.
* `applyBlockRange` is four actions by its outcome: `ReceiveLinear` (the range
  continues the tip), `RefuseFork`, `ReplayFork` (undo did not reproduce the
  roots) and `RedoFork` (it did).
* A reorganisation offers the undone transfers, then the old pool, to an emptied
  pool, and each accepted one queues a save. A crash may come between, so each
  is a step `Readmit`; nothing else may come between (`Idle`, `readmit = <<>>`).
* `filter` and `delete` on lists are `Within` (`Lists`), and the loops over blocks,
  transfers and orphans are `FoldLeft`s of named steps (`ReplayStep`, `AddNext`, `TryOrphan`,
  `Round`, `ApplyTransfer`), which `Folding` can be instantiated with. A ledger keeps its
  pending rewards as a set where the code has a list for each account: no two of them are
  equal, for they unlock at different heights, which the proof of `Conserved` has to show.
* `pool` is the map and both indexes. The map's insertion order decides ties
  only; ties are left open.
* In `Chain` the state root is the ledger itself, because two ledgers have one root
  only if they have one set of leaves, which `RootsTell` of `StateProofs` checks of
  the trees. Keys that hold 0 are leaves, so the model keeps them: that is why an
  undo often does not reproduce a root.
* Signature, proof of work, header hash and timestamp checks are the flag
  `sound` of a block. Difficulty is a small number, work `16^difficulty`; how it and
  the times come about is `Headers`.
* `anchor` is `checkpoint` with the ledger a pruned or imported node replays
  from; at genesis it is the empty ledger at height 0.
* `saved` is the last chain file: blocks, checkpoint, pool, storage mode. Saves
  land in the order they are queued, so a crash that loses the last few is a
  restart that happened earlier. Files that fail or disagree are the business of
  `Persistence`.
* `Explorer` has no state: its operators are the computations behind the pages, over
  `Chain`'s variables. A page is evaluated in every state, which is every moment a
  request may come. What a page looks like is left out.
* `Median` counts how many times are below, where the code sorts; `MCHeaders` checks that
  the two agree (`MedianOfSorted`).
* In `Headers` one node is whole and the other may be pruned or imported; both may
  mine, each by its own clock. A node's own block may have become unacceptable by
  the time it is found (`GiveUp`).
* In `StateProofs` hashes do not collide: the hash of a leaf is the leaf, that of two
  hashes the pair. The ledgers are those of given blocks, between which the tip moves.
  HTTP answers at once (`Get`); a peer's answer comes later, so `seen` collects the
  tips the answer may be of.
* `Persistence` splits `save()` where another thing may happen inside it: the
  first attempt at a job on an idle queue is made at once, within the call that
  queues it, so a failure or a crash may come between the chain file and the
  chainstate (`stage`). An attempt writes the file and then the backup; only a
  failure or a crash comes between (`half`).
* A ledger is named there by the block that leaves it. A header commits to its
  state root, so a chainstate or snapshot is accepted exactly if its ledger is
  that of its block, and a replay fails exactly if it starts on another ledger.
* `Change` moves to any chain the node could be on; how it gets there is
  `Chain`'s business. The number of a save and `settled` are not in the code:
  they tell what is older and are never read by a guard or an input.
* `Damage` is a copy that no longer parses at the next start. With `PairSpared`
  at most one copy of the chain file is damaged at a time; the other files may
  lose both.
* The journal is written in the turn of the handler itself, not through the queue:
  each of its writes may be lost, may land in the primary only, or in both
  (`Written`). `cut` and `whole` are not in the code; they say what a crash has cut
  short and whether the journal's last word has been kept from it.
* In `Sync` and `Relay` a connection is a link with two ends, because the two nodes
  keep different things of it: the dialler knows the other by its URL
  (`peerBySocket`), the acceptor by its address, so `Label` may be the same for
  two links. A socket delivers in order; a connection that breaks loses what is
  under way. A handler that sends and then closes is one action.
* A handler with several outcomes is one action per outcome:
  `handleHeadersResponse` is `RefuseHeaders` (the proof of work is bad),
  `HeadersNotAhead`, `HeadersWhileBusy`, `HeadersForSnapshot` and
  `HeadersForBlocks`.
* A block in `Sync` is its hash with its parent, its work up to it, and the node
  that mines it. Blocks are valid and carry no transfers; whether a block is valid
  is the subject of `Chain`, and what happens to a compact block whose transfers
  are missing that of `Relay`. `Adoptable` and `Adopted` are what `applyBlockRange`
  comes to for such blocks. Orphans are not in the state: `orphanCount()`,
  which the handlers call after every block (`network.ts:2230`, `:2542`), prunes the
  ones that wait.
* The anchor of a pruned chain has the hash of its block and otherwise a header
  of its own (`anchored`), so it never hashes to its hash for another node.
* In `Relay` a handler that goes on in one of several ways (`handleCompactBlock` and
  `handleBlockTxBatch`) is split the same way: `ConnectBlock`, `RefuseBlock`,
  `FetchTxs`, `FetchBlock`, `Await` say what becomes of the entry that `Progress`
  has. A transfer is its id and the ones its sender must have sent before; a pool
  takes it only in that order and may give it up at any time (`Evict`). The 250 ms
  between two requests may or may not have passed.
* `Service` runs on one chain from `Funds` on. `Sign` reads the pool and the ledger
  and then awaits; `SendOverSocket` is the wallet's socket to its own node, whose
  message comes back as `Receive` or never (`Lose`); `SendDirectly` is what happens
  when no socket opens in time, and the whole of `/submitTx`. The miner's search is
  the time between `BuildBlock` and `Find` or `Cancel`.
* `Peers` is one node; what it sends and what the messages say is `Sync`'s
  business. A socket is a label, which is what the scores and the windows are kept
  by, and a copy, so that there may be several of one label. `Ip` is what counts,
  rates and bans are kept by: several urls and all callers from an address share it.
* A message is one action by what becomes of it: refused for its size
  (`Throttled`), its form (`Unparsable`), a running ban (`WhileBanned`) or its rate
  (`TooMany`), marked bad by its handler (`Rejected`), taken (`Handled`), or a list
  of peers (`Learn`). `markBad` only starts the close; a socket that closes still
  receives, so a peer can be punished many times for what it had sent.
* Time in `Peers` passes in ticks (a tick is the minute of `BASE_BAN_MS` and
  `DECAY_INTERVAL_MS`). Shorter delays, 10 seconds for the windows and 1 to 20 for
  redials, may end at any moment within a tick. A ban is what is left of it. A
  decay comes with the first event, or look at the statistics (`Poll`), after the
  interval, and takes as many steps as intervals have passed.

## 3. The runs

| run | question | result |
|---|---|---|
| `mempool` | Do the index, the nonces and the limits stay right? | `IndexFresh`, `UniqueNonce`, `PoolBounded`, `EvictionTakesTail` hold |
| `chain` | Does the node always stand on a valid chain with the exact ledger, does its pool implement `Mempool`, and do its pages agree with that? | `ChainGenuine`, `LedgerExact`, `Conserved`, `SavedLoads`, `BooksBalance`, `DebugTells`, `WorkGrows`, `PoolImplemented`, `PendingUnconfirmed` hold |
| `persistence` | Do the files keep their promise while one copy of the chain file is spared? | `LoadedExact`, `Durable` (refinement of `DurableChain`), `NeverRefused` hold |
| `journal` | Does the crash journal tell what was cut short, with nothing spared, and does the queue always empty? | `JournalTells`, `QueueDrains` hold |
| `sync` | Does a sync survive a peer that leaves its chain, drops messages, a second connection and one that breaks, on a pruning node? | `ChainWhole`, `OwnerConnected`, `HeightsReal`, `NeverBootstraps`, `Replicates` (refinement of `Replication`) hold |
| `catch_up` | Do connected nodes end up on one chain, and can a node's only peer not keep the sync for nothing? | `OwnerWaits`, `Converge` hold |
| `peers` | Are the counts, the bans and the urls of a node right after any order of dials, calls, messages, errors, closes and decays? | `NoGhostInbound`, `OutboundThere`, `HonestUnbanned` hold |
| `relay` | Is what a node waits for asked for, of one peer, and does it tell its peers all they do not know? | `PendingAnswered`, `AskedOnce`, `KnowsRight` hold |
| `service` | Do the miner's loop and the wallet's sends stay right while the network changes chain and pool under them? | `LedgerFollows`, `RefusedNotSent`, `AcceptedLeaves` hold |
| `proofs` | Is every proof true of a ledger the node had, and does every request end? | `AnswersTrue`, `RootsTell`, `RequestsEnd` hold |
| `headers` | Can a miner always build, can a chain always be replayed, do nodes judge alike? | `OwnStands`, `Replays`, `VerdictsAgree` hold |
| `fork_stalls` | Does a node's lag always clear? | `LagClears` violated |

The type invariants are in the modules that have proofs and are proved there; no
run spends time on them.

### Bounds and why they are enough
* `MCMempool`: two senders, five transfers (two of them conflict on a nonce), a
  pool of three, two per sender. Both evictions and every rejection occur; a
  third sender would only repeat the second. One balance: what varies is what is
  reserved. About 24,500 states.
* `MCChain`: the tree of fourteen blocks drawn in the module: plain chains with
  transfers, a heavier branch whose undo is exact, one whose undo is not, a heavier
  shorter branch, one from genesis that is heavier than all, an empty branch that comes
  late, and bad blocks (wrong root, a transfer again, a
  coinbase too high). Every block and every end of every branch is offered at every
  moment and height, to an archival and a pruned node. `Retention` 2 lets pruning
  happen at height 3; `MaxOrphans` 2 lets the limit bite; `MaxSupply` 12 is the
  subsidies of heights 1 to 4 exactly, so minting stops at the limit;
  `HalvingInterval` 3 halves once. `MaxHeight` bounds the heights a peer names: above
  it nothing differs. `fork-compare` is given every valid chain of the tree. About
  2,600 states, of which each has some 200 steps.
* `MaxNonce` bounds nonces (`MAX_SAFE_INTEGER` in the code).
* `MCPersistence`: two branches of two blocks on genesis; a snapshot every second
  height, pruning to one block (`Retention` 1), so that whole, pruned and imported
  chains of equal height replace one another over the files the others left. Two
  attempts per job: the first fails and is repeated, or the second fails too.
  `MaxSaves` is three: a save that lands whole, one that lands in part, one that does
  not. Crashes, failures and damage are not bounded. About 3,300,000 states.
* `MCJournal`: two branches of one block, a snapshot of each, two saves, and
  `PairSpared` FALSE: every copy may be damaged at every start, the journal's too.
  Two saves are a complete entry and one that is cut short over it. About 2,900,000
  states.
* `MCSync`: a chain for each of three nodes from genesis on, and for each run the
  part of it that is mined at the start (`Racing`, `BothTwo`, `NewNet`). `sync`: b is
  on one branch with two blocks, c on another of equal length and may mine one more
  block, so that b leaves its branch before, between and after a's request; a prunes,
  dials b twice, and the first connection breaks at any moment; b drops any message
  to a. `catch_up`: two nodes have two blocks, a third has none, all are connected, and
  the newcomer mines one. `Chunk` is {1, 2} or {2, 3} where the code has 16 to 128:
  what matters is whether what is missing is more than a chunk, one, or less.
  `SnapshotMin` is 2 for 64: below, at and above it occur. All blocks are equally
  difficult (`HeightIsWork`), which `OwnerWaits` and `HeightsReal` need: a peer that moves
  to a heavier and shorter chain is not as high as it has said, and may have nothing
  left to answer with. A connection is dialled once in a run. About 658,000 and 168,000
  states.
* `MCPeers`: a peer at an address, with callers from that address or from another,
  which is honest (`Together`: all three at once would only multiply the two cases).
  Two sockets of each label, so that two dials of one url meet; `MaxInbound` 1 is
  reached and passed; a table of one makes room; a window takes one message and one
  byte. The points keep their order and what `HonestAssumption` needs but are small
  (-6 to 1), so that a score goes from one end to the other within a few events;
  bans last one tick and then two, the longest. `MaxBad` 2 bounds the messages and
  errors that are punished in a behaviour, `MaxQuiet` 1 how late a decay comes;
  `Peers_proofs` has neither bound. About 657,000 states.
* `MCRelay`: three nodes, all connected, or in a row with a link that may break; two
  transfers of one sender, and blocks of both by two miners. `FetchMax` 1, `PendingMax` 1
  and `MaxRounds` 2 are reached: a compact block's transfers are asked for one by one,
  a second entry pushes out the first, and the full block is asked for after two
  rounds. One node may evict the second transfer and forget one block. About 269,000
  states.
* `MCService`: a wallet with 12 coins, two payments of 3 at fees of 1 and 2, one sent
  over the socket and one built and submitted, and a transfer of 7 that the same
  wallet has signed elsewhere with the same nonce, so that a nonce is signed twice, a
  pool of two is full, and a balance is short when a block confirms the third.
  `HistoryMax` 1, two blocks. About 28,000 states.
* `MCStateProofs`: five ledgers made by `Ledger`'s functions, among them one where a
  balance falls to zero and a reward matures, and two of one height; every kind of
  claim, present and absent; a cache of two trees and more ledgers than that. One
  client, two requests: clients share nothing but the cache. About 63,000 states.
* `MCHeaders`: windows of 3 and 2 blocks for 11 and 120, `Retention` 4; clocks that
  agree, and clocks a unit off in either direction with `MaxFuture` 1; time goes on by
  one or by five units, which is more than the four target times at which difficulty is
  eased. Five heights: the windows fill, a chain is pruned, and both windows fill
  again behind the anchor. About 610,000 states.

### Fairness
Safety needs none. `QueueDrains` (`JournalSpec`) assumes weak fairness of
`JournalChainSave` and `JournalRest`, which are the rest of a synchronous call, and of
`Write \/ Copy \/ WriteFails` together: the drain loop runs as microtasks and timers
that the event loop always serves. That a write succeeds is not assumed, nor that the
node is started, receives anything or does not crash. `Converge` and `LagClears`
(`FairSpec` of `Sync`) assume that the event loop gets to every message and every
closed socket (`WF_vars(Handle(e))`, `WF_vars(Close(e))` of every end) and that a node
dials the peers it is given and the other accepts (`Lifecycle`, `connectToPeer` at
start); not that anybody mines, that a connection breaks, or that a seen hash expires.
`RequestsEnd` assumes the client's own timer only. Deadlock is checked except in the
runs of `MCSync`, `MCRelay` and `MCHeaders`, which end when nothing is left to mine and
to say, or time is over; elsewhere a node can always receive, crash or start.

### Findings
1. **A fork of two connected nodes lasts** (`fork_stalls`). A block on another branch
   is rejected and its parent not asked for (`network.ts:2233`); headers are asked for
   when a socket opens and after a range only (`network.ts:2580`, `:2585`, `:2617`). Two
   nodes that mine at the same height stay apart while the connection lasts.
   `OPERATOR_GUIDE.md:131-136`: "Healthy node: ... syncLagBlocks: 0".

### Met while modelling
What the actions do and no run of its own shows.

Pool and chain:
* A nonce gap is accepted. `addToMempool` compares the nonce at `chain.ts:2654` and
  evicts at 2661; the eviction may take the transfers the nonce was counted from.
  `security-test.ts:313`: "A nonce gap must be rejected."
* Orphans are thrown away before they can be attached. `tryAddBlock` prunes every
  orphan whose parent is not there, which is every orphan that waits
  (`chain.ts:1707`, `:2165`), and only then connects the parent (`:2796`).
  `CHANGELOG.md:41` lists orphan handling.
* `buildBlock` throws after a reorganisation by replay, for the kept pool is not
  checked against the new balances (`chain.ts:2775`), and with it the miner's loop
  ends (`BuildFails`, `index.ts:737`). `security-test.ts:215`: "A block produced by
  buildBlock + PoW should validate." The same replay keeps transfers that the new chain
  has confirmed, which is the one exception of `PendingUnconfirmed`.
* `mempoolReserved` stops at the first gap (`chain.ts:2673`), so a transfer that
  closes a gap is checked without those behind it and the sender's usable transfers
  may cost more than the balance.

Times and difficulty:
* Nobody compares a received block's difficulty with `nextDifficulty`, whose window
  (120) is longer than the least retention (64): nodes may work at different
  difficulties unseen (`VerdictsAgree` says from when on they do not).
* Behind an anchor a block with its parent's time, which a miner has taken, fails a
  replay (`Replays`). `load()` replays only when the separate chainstate is missing or
  stale; it then logs a fall-back and returns false (`chain.ts:2419`). A clock that is
  set back by more than `MAX_FUTURE_MS` has the same effect on a whole chain. For the
  same reason the first block an imported node mines may be refused by others.

Files:
* A lost chain file is replaced on the second start (`NewChain`, in the run `journal`).
  `tryRepairPair` moves both damaged copies away (`chain-repair.ts:310`, `:318`);
  `main()` ends the process because the file was there before `load()`
  (`index.ts:301-308`). The next start finds none, and `chain.save()`
  (`index.ts:310`) begins a new chain from genesis.
* The journal says `complete` when the writes are queued (`chain.ts:2551`); it tells
  nothing of whether they landed, and recovery only marks the entry
  (`crash-journal.ts:401`). `rc-validation.ts:450` looks at `hasOpenJournal` only.

Synchronisation and relay:
* An owner whose headers are not longer is released only if no other peer is known to be
  higher (`HeadersNotAhead`, `network.ts:2502`). If one is, the owner is kept with nothing
  asked of it, the headers of the others are dropped (`HeadersWhileBusy`,
  `network.ts:2508`), and the sync stops for good. TLC finds this in 23 steps when
  `OwnerWaits` is stated of every owner and three nodes race from genesis: a asks b for a
  range and drops c's longer headers meanwhile; b mines a block, which a takes as announced;
  b's next headers are then no longer than a's own. So `OwnerWaits` is about a node's only
  peer.
* A sync also stops for good when headers arrive while another peer owns it; when a
  branch is longer than the chunk that would have to outweigh the local one
  (`RefuseRange`, `network.ts:2524`); when a range comes back empty (`IgnoreRange`,
  `network.ts:2529`) or is lost; when an owner that dialled the node leaves (`Close` of
  an inbound end, `network.ts:2642`); when a node at genesis tries a snapshot without
  having metadata (`HeadersForSnapshot`, `network.ts:2512`); and when a pruned node
  compares its headers with longer ones by their place (`CommonLen`, `network.ts:1706`).
  That is why `catch_up` has no forks, no losses, no pruning, and a newcomer that alone
  mines: when b mines a third block before the headers a has asked it for come, while c
  owns a's sync, a lags for ever, and so it may over two connections to one peer.
* The metadata a bootstrap accepts is never used (`network.ts:1083`): the state in which
  it is asked for is not the one from which a snapshot is asked for. `NeverBootstraps`
  states the consequence.
* A pruned node's headers get it banned (`RefuseHeaders`, `network.ts:2479`).
* Blocks that arrive as a range are not announced on (`ApplyRange`, `network.ts:2551`).
* A transfer that comes before its sender's previous one is rejected for its nonce,
  stays in `recentTxSeen` and is not asked for again while it is there. A compact block
  that comes while its parent is being completed is dropped as an orphan. The entry of a
  compact block whose peer's connection breaks stays and is asked for by nobody
  (the exception of `PendingAnswered`, `network.ts:2623`).

Connections:
* A close lowers the count of its address also when the node had dialled it (`CountDown`,
  `network.ts:2648`), so an address the node dials may have more callers than
  `MAX_INBOUND_PER_IP`. `InboundLimited` says so of the others only.
* Two dials of one url may succeed (`Connect`, `network.ts:3011`); the close of one takes
  the url out of `outboundUrls` (`Close`, `network.ts:2652`), and the peer is dialled again
  although the other is open.
* A dial that fails is not redialled: its close finds no url and takes the caller's way
  (`DialFails`, `network.ts:2637`). Discovery dials the first url of the table that is not
  connected (`Discover`, `network.ts:3044`), so one that never answers keeps it from the
  others.
* A peer that is down collects -6 with each dial that fails and about 2 a minute back, so it
  is banned in a few minutes. When it answers at last, its first message finds the ban and
  is punished with `manual-ban`, half an hour from then (`WhileBanned`, `network.ts:1633`);
  the redials come sooner than that, and each renews the ban. An automatic ban, on the
  other hand, may shorten one that runs (`Banned`, `peer-reputation.ts:315`), and so may
  that of the address (`MarkBad`, `network.ts:1612`).

Services:
* Entering the loop overrides a control given before (`EnterLoop`, `index.ts:708`).
* `/wallet/send` answers ok when the message is on the socket, which may be lost or
  refused (`SendOverSocket`); two sends at once may sign one nonce twice, and the
  reservations of what waits are not looked at (`Affords`).
* A node that closes the connection before it answers leaves the client's promise
  unresolved (`Closed`, `index.ts:218-220`): the command ends without a word.
  A proof names its own root, which the client compares with no header.
* On a pruned or imported node the explorer takes places for heights: `replay-verify`
  calls the chain invalid, confirmations, rewards and the supply's history are off.
  `fork-compare` does not replay the chain it is given: of an invalid one it may say
  that it would be adopted.

## 4. The proofs

`Mempool_proofs` proves, for all values of the constants that satisfy the named
assumptions (`LedgerAssumption`, `PoolAssumption`, `MempoolAssumption`: numbers
are naturals, `Tx` is a finite set of well-formed transfers):

| theorem | property |
|---|---|
| `InductiveHolds` | `[]Inductive` |
| `TypeCorrect` | `TypeOK` |
| `IndexAlwaysFresh` | `IndexFresh` |
| `NoncesAlwaysUnique` | `UniqueNonce` |
| `PoolAlwaysBounded` | `PoolBounded` |
| `NothingAcceptedUnsaved` | `AcceptedIsSaved` |
| `EvictionAlwaysTail` | `EvictionTakesTail` |

None of the invariants is inductive alone. `UniqueNonce` needs `IndexFresh`: a
stale next nonce could be one that waits already. After a restart the pool is
what was saved, so uniqueness and the limits must hold of `saved.txs` as well;
during a reorganisation the pool is part of the last save (`AcceptedIsSaved`)
and grows from empty by `Offer`. `Inductive` is the conjunction of all these.

The argument: `GapFound` shows that the first gap exists (a finite pool cannot
fill `MaxNonce + 1` nonces); `EvictCuts` that every eviction outcome is a cut of
tails (`TailCut`), which composes; `RoomMade` that making room leaves space under
both limits, the counting steps resting on `FS_` facts of the library;
`OfferKeeps` that `addToMempool` keeps uniqueness and bounds; and `InductiveStep`
has one step per action. `EvictionAlwaysTail` follows from `EvictCuts`.

`Persistence_proofs` proves, from `DiskAssumption` and `PersistenceAssumption` (a
tree of blocks given by its paths, positive bounds), for any number of blocks,
saves, crashes, failed writes and damaged files:

| theorem | property |
|---|---|
| `PersistenceInductive` | `[]Inductive` |
| `PersistenceTyped` | `TypeOK` |
| `PersistenceExact` | `LoadedExact` |
| `PersistenceNeverRefused` | `NeverRefused`, if `PairSpared` |
| `PersistenceDurable` | `Durable`, the refinement of `DurableChain`, if `PairSpared` |

`Durable` is not inductive: that a write moves what is durable forward depends on
what is queued. `Inductive` says that the chain file is not older than its backup,
that queued chain files are newer than both and ascend, that a save about to be
queued is newer than all of them, and that nothing is older than `settled`. The
lemmas `Popped`, `Pushed` and `Joined` carry this order through the queue,
`RepairKeeps` through the repair; `LedgerFound` shows that every way through
`load()` ends on the ledger of the last block, so that a valid chain file is
never unloadable. `Step` has one case per action, and `NumbersMove` says what each
does to the four numbers of `DurableChain`, from which `StepRefines` follows.

`Sync_proofs` proves, from `NetworkAssumption` and `SyncAssumption` (nodes and links of
any number, any tree of blocks whose work grows, any chunk sizes), for any losses
and interleavings:

| theorem | property |
|---|---|
| `SyncInductive` | `[]Inductive` |
| `SyncTyped` | `TypeOK` |
| `SyncChainWhole` | `ChainWhole` |
| `SyncOwnerConnected` | `OwnerConnected` |
| `SyncNeverBootstraps` | `NeverBootstraps` |
| `SyncReplicates` | `Replicates`, the refinement of `Replication` |
| `SyncHeightsReal` | `HeightsReal`, where blocks are equally difficult |
| `SyncOwnerWaits` | `OwnerWaits`, where blocks are equally difficult and `Lossy` is empty |

`ChainWhole` is not inductive: a range on its way was cut from a chain that its
sender may have left, and is put on one that its receiver has since changed.
`Inductive` adds that every range under way is a run of one chain (`Sound`), that
messages and sockets speak of mined blocks only, and that an idle bootstrap has no
metadata (`BootGood`), without which `NeverBootstraps` would not be kept by the next
headers. The lemmas on chains say that a run cut, joined or extended at the right
block is a run (`Part`, `Joined`, `Appended`, and from them `Pruned`, `Kept`,
`Adopted`); then each action has its case, and `SyncReplicates` follows from what each
action does to the tips.

`SyncHeightsReal` has one more assumption, `EquallyDifficult(high)`: every block has a height,
one more than its parent's, and of two blocks the one with more work is the higher. Then a
node never sinks (`Rising`), since a step of `Replication` is to a block with more work. Its
invariant adds to `Inductive` that the base of a node's chain is the height of its first
block (`Rooted`), so that positions and heights agree, and that every belief and every height
a message tells, in blocks, positions or as a number, is at most the height of who told it
(`Truthful`). `MCSync` assumes the same of its blocks by name, and TLC evaluates it.

`SyncOwnerWaits` assumes as well that no end is `Lossy`, as `catch_up` does: when `send()`
drops the answer the owner stays and nothing is under way (see "Met while modelling"), so
without this the property is false. Links may break (`Fragile`) and nodes may prune as they like.
Its invariant is `Settled`, on top of those above, and it speaks of the order on the wires:
* `LinkGood`: an end that is not open yet has sent nothing; one whose other side has left
  has "close" on its way, and only then.
* `Sensible`: a range under way is not empty, and a request asks for at least one block from
  where its receiver has one; chains do not sink, so it is still sensible when it arrives.
  An empty range would leave the owner as it is (`IgnoreRange`).
* `TurnGood`: for the node's only peer, the owner has an answer coming; and while the node
  has genesis alone, headers come before the metadata that was asked for after them, with
  the bootstrap busy until they have come (`HeadersFirst`). Otherwise headers would find it
  idle, try a snapshot without metadata (`HeadersForSnapshot`) and leave an owner that
  nobody asks for anything. A range that is applied ends this, since it makes the node
  higher (`AdoptedHigher`).

All handlers of headers, ranges, metadata and closing take one message and answer with one
at most: `Exchange`, with `Renewed` for what becomes of the turn, is shown of each
(`ClosingTurned` to `HandleMetaTurned`), and the invariant is followed through an exchange
once. What tells of blocks leaves it alone (`Calm`).

`Peers_proofs` proves, from `ReputationAssumption`, `PeersAssumption` and
`HonestAssumption` (any urls, addresses, points and limits; a connection gives at least
two points and its close takes one, and `MaxBad` errors with one point for each socket do
not reach the score of a ban), for any order of steps:

| theorem | property |
|---|---|
| `PeersInductive` | `[]Inductive` |
| `PeersTyped` | `TypeOK` |
| `PeersNoGhost` | `NoGhostInbound` |
| `PeersInboundLimited` | `InboundLimited` |
| `PeersOutboundThere` | `OutboundThere` |
| `PeersHonestUnbanned` | `HonestUnbanned` |

With the points of the code `HonestAssumption` is met by seven errors and up to seven
sockets of a label. `HonestUnbanned` is not inductive: whether the next error is a ban
depends on the score. `Standing` says that the score of an honest label is at least
`Floor`: nothing if all its sockets are open, a point less for each that is not, and the
points of the errors so far. A decay only moves a score towards 0 and `Floor` is not above
0, so a decay keeps it whenever it comes (`FadedKeeps`); an opening earns two points where
`Floor` rises by one, so that a cycle of opening and closing costs nothing
(`StandingNoted`); an error lowers both alike (`StandingErred`). `InboundLimited` follows
from `Exact`: where the node dials nobody, the count is that of the open sockets. `Changed`
says how these sets change with one socket, and each action has its lemma.

`Chain_proofs` proves, from `ChainAssumption`, `HeaderAssumption`, `SubsidyAssumption`,
`TransferAssumption`, `AccountAssumption` and those of the modules below (`LedgerAssumption`,
`PoolAssumption`, `OrphanAssumption`), for any tree of blocks, any ranges and any limits:

| theorem | property |
|---|---|
| `Invariant` | `[]IInv` |
| `Genuineness` | `ChainGenuine` |
| `Exactness` | `LedgerExact` |
| `Conservation` | `Conserved` |
| `Loadable` | `SavedLoads` |
| `Rising` | `WorkGrows` |
| `OrphansWait` | `[]PoolInv`: at most one orphan between two calls, its parent unknown |
| `PoolImplementation` | `PoolImplemented`: `Chain` implements `Mempool` |
| `PoolAlwaysKept` | `IndexFresh`, `UniqueNonce`, `PoolBounded` and `AcceptedIsSaved`, of the full node |
| `PoolEvictsTails` | `EvictionTakesTail`, of the full node |
| `PendingStaysApart` | `PendingUnconfirmed` |
| `DebuggingTells` | `DebugTells` |
| `BooksAgree` | `BooksBalance` |

`HeaderAssumption` says of the tree what the code's hashes and its check of genesis give:
genesis has no parent, no transfers and the empty root (`chain.ts:1264-1269`); every other
block of the tree names a parent in it (an unsound block stands for one nobody has); the
links make no circle, since a block has its parent's hash in it; difficulties are naturals
and transfers have the form that parsing leaves them. `TransferAssumption` says that `Tx`
has the transfers of blocks too and is finite, `AccountAssumption` that accounts are: both
are all that is ever used of bounded strings. That `16 ^ difficulty` and the subsidy
of a height are naturals is arithmetic of which the provers know nothing; TLC evaluates it
for the tree it is given.

`IInv` is `Good` of the node's record: the local blocks are a piece of the chain, each valid
on the one before it (`IsPiece`); the checkpoint is the height and the root of the first, the
cached ledger the root of the last; the last save is such a piece with its checkpoint; the
orphan lists hold blocks. The handlers are functions from node to node, so each has a lemma
that it keeps a node `Good` and moves it `Onward`, to its own tip or one with more work. A
handler's loop is a fold, and its lemma follows what the fold goes through. That an undo is
not the inverse of a block does no harm, since the root it comes to is compared before
anything else is done (`RedoRoot`); and a heavier piece from a common block on is a heavier
chain (`PieceRises`), also when the node's own first block is an anchor.

For `Conserved` the ledger itself is looked into, along the links of valid blocks
(`GenuineBooked`). Balances and rewards are sums over finite sets, whose laws are proved by
induction on the set's size (`SumAdd`, `SumPut`, `AmountsPart`, `RipeSum`). `Booked` says
that balances and immature rewards are what was minted and an excess: the fees that the
coinbase has been credited with and no transfer of the body has paid yet. It starts at the
fees of the block, each transfer lowers it by its own, and it ends at nothing. A new reward
unlocks later than any that waits, so it is never taken for one of them. `Spent` says that
every confirmed transfer is behind its sender's nonce, so none comes twice.

That the node implements `Mempool` is two arguments. The functions first: of a ledger the
pool reads two numbers for each account, so indexing and admission give the same on the
abstract numbers (`Alike`). Then the steps: what blocks do to the confirmed nonces is a walk,
one up for each transfer of its sender (`Walk`), and a call either leaves pool and ledger
alone or confirms the transfers of a walk, drops them from the pool and indexes it anew
(`Advances`), which is `Connect`. Orphans would make that any number of blocks more, but the
prune that comes first leaves none of them (`PoolInv`, `SweptBare`), so a call confirms what
is in the blocks it is given. Of a reorganisation, what is undone was confirmed on a walk
from the common block and what comes instead is one from there too (`ForkWalks`), the first
for the order of `readmit`, the second for the nonces that are confirmed after it. Whatever
ledger an import or a restart comes to, it is that of a valid block and so at the end of a
walk from genesis (`NoncedConfirmed`). `PoolAlwaysKept` and `PoolEvictsTails` then follow
from the theorems of `Mempool_proofs`, used of the instance.

`PendingUnconfirmed` rests on both invariants, `PoolInv` and that of `Mempool_proofs`
(`PendInv`): what a call confirms it drops (`AdvancesApart`); what is admitted, from a peer
or again after a reorganisation, has a nonce that is not confirmed, while every transfer on
the chain has one that is (`ConfirmedNonces`, `OutcomeApart`). Only the full replay keeps the
pool without a look at it.

For `DebugTells` two chains from one genesis share their blocks up to a place and none after,
since a block names its parent, and the place is what the loop of `findCommonHeightByHash`
ends with (`SharedPrefix`); so the range behind it continues the common block, and if the
posted chain has more work the node adopts it (`ForkTells`). The first blocks of a valid
chain are one, so every replay check passes.

For `BooksBalance` the entries of a page are followed through the chain: each transfer of a
block changes the total of an account, spendable and immature, by what its entry is worth
(`Worth`, `BodyTold`), the coinbase by its reward (`BlockTold`). Entries differ in place or
index, so the set has one for each. The supply drawn for a place is the tip's less the
rewards after it, and each block minted its own (`MintedTells`).

`Relay_proofs` proves, from `NetworkAssumption` and `RelayAssumption`, for any nodes, links,
blocks and limits:

| theorem | property |
|---|---|
| `Invariant` | `[]Inv` |
| `FetchedOnce` | `AskedOnce` |
| `Knowledge` | `KnowsRight` |
| `Answered` | `PendingAnswered` |

None of the three is inductive, since each is about both ends of a link and what is under
way between them. `Inv` says what a message means (`Meant`): its sender has heard of its id,
so has its receiver unless it is an announcement, whoever is asked for a block's transfers
has the block. What a node has heard of (`Heard`) it never loses, though its caches expire
and its pool evicts. `Paired` says which states the two ends of a link may be in: an end that closes has lost
what was on its way to it, which is the exception `KnowsRight` makes. A handler
is built step by step from the state it starts in; `Sound` holds after each of these steps,
and what waits is either as it was, or asked for anew (`Waited`, `Renewed`). Opening a
connection, breaking and closing it have lemmas of their own (`Relinked`).

`Headers_proofs` proves, from `HeadersAssumption`, for any windows, limits and clocks:

| theorem | property |
|---|---|
| `Invariant` | `[]Inv` |
| `NeverStopped` | `OwnStands` |
| `Replayable` | `Replays` |
| `Agreement` | `VerdictsAgree` |

`Replays` is kept only because the times of a chain never go back: then the median of a
window is the time of the block in its middle (`MtpIs`), which is before the tip's, and a
cut chain whose window is full again has the same middle as the whole one. `OneBranch` says
that nodes have the same blocks at the same heights but for anchors, `InTime` that no block
was too far ahead of the clock of the node that took it. `HeadersAssumption` asks for a
window of more than one block (`MTP_WINDOW` is 11) and a retention that is longer than it
(64 at least).

The last section of `Persistence_proofs` is about `Journal`:

| theorem | property |
|---|---|
| `JournalTold` | `JournalTells` |
| `JournalExact` | `LoadedExact`, of `JournalSpec` |

Both copies of the journal may differ, be damaged or lost. `Said` is what the pair says of
the last save if its last word was not kept from it (`whole`); a write that lands in the
primary only changes what is read just as one that lands in both (`StagedSays`), and a repair
never changes what the pair says (`RepairedSays`). Every step of `JournalSpec` is a step of
`Persistence` or leaves its state alone, so what is proved of the files holds beside the
journal too.

`Folding` holds what these proofs share. The library's theorems on folds and induction take
an operator as a parameter, which no backend can be given; a module's constant can be
instantiated. `Folding` therefore has the step as `CONSTANT op` and proves for any step that
a fold begins at its base (`FoldEmpty`), goes on with the last element (`FoldAppend`), and
that every result it goes through is the step on one before (`FoldSteps`). A module says
`Weighing == INSTANCE Folding WITH op <- Weigh` and cites `Weighing!FoldAppend`. Induction is
stated of sets instead of predicates: what is closed under the next number or one more
element contains them all (`NatSet`, `SeqSet`).

### Only model-checked
* `LedgerFollows`, `RefusedNotSent` and `AcceptedLeaves` of `Service`. What its chain and its
  pool do is `Chain`'s and `Mempool`'s, where it is proved; how the loop and the requests
  meet them is left to TLC.
* `AnswersTrue` and `RootsTell` of `StateProofs`: trees by recursive operators, which the
  provers do not take.
* Liveness: `QueueDrains`, `Converge`, `RequestsEnd`.

## 5. Not modelled

* `tryAdoptChain`: only `security-test.ts` calls it; the network uses
  `applyBlockRange`.
* Hashing, signatures and proof of work beyond the flag `sound`; a block's soundness is
  the same on every node, but for the times that `Headers` has.
* A change of `retentionWindow` while running.
* `abortCrashJournal`, `generateMerkleProof` and `verifyMerkleProof`, which nothing
  calls; the texts of the journal's stages.
* A file that parses, has the wrong shape and cannot be moved away.
* The snapshot's way after it is asked for: it never is (`NeverBootstraps`).
* In `Sync`: bans after bad headers (they are `Rejected` in `Peers`), the expiry of
  `peerKnownBlocks`, and redials: a connection of `Sync` is opened once.
* In `Relay`: what a pool refuses for its fee or its limits (`Mempool`), and blocks on
  another branch (`Sync`).
* In `Service`: the client's `--send`, which dials a peer with a transfer (it is a member
  of `Foreign`), and RPC authentication.
* In `Peers`: a node that meets itself under another name (`isSelfPeerUrl`,
  `isSelfSocket`), the choice of public seeds, the bandwidth of what is sent (`Drop` of
  `Sync`), `manualUnban`, `clearPeer` and `clearAll`, which nothing calls.
* Of `rpc.ts`: the layout of the pages, metrics and diagnostics, search, TLS. They read,
  format and answer. Of `index.ts`: the other commands, which parse, print and exit, and
  the wallet files.
* Profiles, telemetry, benchmarks, release checks and the security test.

## 6. The plan

1. Done: `Ledger`, `MempoolPolicy`, `Mempool` with proofs, `OrphanPool`, `Chain`.
2. Done: `DiskQueue`, `Persistence` with proofs, `DurableChain`; `Journal`.
3. Done: `Network`, `Sync` with proofs, `Replication`; `Relay`.
4. Done: `Reputation`, `Peers` with proofs.
5. Done: `Headers`, `StateProofs`.
6. Done: `Service`, `Explorer`.
7. Done: proofs of `Chain`, `Relay`, `Headers` and `Journal`, with `Folding`.
8. Done: `HeightsReal` of equally difficult blocks.
9. Done: proofs that `Chain` implements `Mempool`, and of what `Explorer` shows.
10. Done: `OwnerWaits` of a node's only peer, where nothing is dropped.
11. Proofs left: `Service`.
