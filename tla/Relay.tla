-------------------------------- MODULE Relay --------------------------------
(***************************************************************************)
(* How transfers and blocks spread between connected nodes (network.ts).   *)
(* A node tells its peers the id of what it has accepted, and each asks    *)
(* one peer for it.  A block comes as a compact block, whose transfers are *)
(* taken from the pool; those that are missing are asked for, and after    *)
(* some rounds the whole block is.                                         *)
(*                                                                         *)
(* A transfer stands for itself and its id.  The transfers of a sender     *)
(* follow one another; the rest of the pool's policy is the subject of     *)
(* Mempool, and how a node gets to another branch that of Sync.            *)
(***************************************************************************)
EXTENDS Network, Lists, FiniteSets

CONSTANTS
  Transfer,
  Earlier,       (* transfer -> those of its sender with lower nonces     *)
  Blk, Genesis,
  Prev,          (* block -> its parent                                    *)
  Txs,           (* block -> its transfers, without the coinbase           *)
  Miner,         (* block -> the node that mines it                        *)
  Wallet,        (* node -> the transfers that are submitted to it         *)
  FetchMax,      (* MAX_BLOCK_TX_FETCH                                     *)
  MaxRounds,     (* COMPACT_RECOVERY_MAX_ROUNDS                            *)
  PendingMax,    (* PENDING_COMPACT_MAX                                    *)
  Evictable,     (* node -> the transfers its pool may give up             *)
  Forgotten,     (* node -> what may expire in its recentTxSeen and        *)
                 (* recentBlockSeen                                        *)
  Start,         (* what the links may be at the start                    *)
  Fragile        (* the links that may break                               *)

ASSUME RelayAssumption ==
  /\ Earlier \in [Transfer -> SUBSET Transfer]
  /\ Genesis \in Blk
  /\ Prev \in [Blk \ {Genesis} -> Blk]
  /\ Txs \in [Blk -> Seq(Transfer)]
  /\ Miner \in [Blk \ {Genesis} -> Node]
  /\ Wallet \in [Node -> SUBSET Transfer] /\ Evictable \in [Node -> SUBSET Transfer]
  /\ Forgotten \in [Node -> SUBSET (Transfer \cup Blk)]
  /\ {FetchMax, MaxRounds, PendingMax} \subseteq Nat \ {0}
  /\ Fragile \subseteq Link
  /\ Start \subseteq [Link -> {"none", "open", "closed"}]
  /\ Transfer \cap Blk = {}

VARIABLE
  node  (* node -> [blocks, pool, recent, pending]: the chain, the pool in *)
        (* the order it is sent in, recentTxSeen with recentBlockSeen, and *)
        (* pendingCompactBlocks, the entry longest untouched first         *)

vars == <<networkVars, node>>

Init ==
  /\ \E start \in Start : sock = [e \in End |-> Socket(start[e[1]])]
  /\ wire = [e \in End |-> <<>>]
  /\ node = [n \in Node |-> [blocks |-> <<Genesis>>, pool |-> <<>>, recent |-> {}, pending |-> <<>>]]

-----------------------------------------------------------------------------
(* The chain and the pool. *)

Follows(b, a) == b # Genesis /\ Prev[b] = a

Tip(nd) == Last(nd.blocks)

Holds(nd, b) == b \in ToSet(nd.blocks)

Confirmed(nd) == UNION {ToSet(Txs[b]) : b \in ToSet(nd.blocks)}

Pooled(nd, t) == t \in ToSet(nd.pool)

\* addToMempool: new, and next in its sender's row.
Accepts(nd, t) ==
  /\ t \notin Confirmed(nd) \cup ToSet(nd.pool)
  /\ Earlier[t] \subseteq Confirmed(nd) \cup ToSet(nd.pool)

\* tryAddBlock of a block on the tip; the pool loses what the block confirms.
Extended(nd, b) ==
  [nd EXCEPT !.blocks = Append(@, b), !.pool = Within(@, Transfer \ ToSet(Txs[b]))]

-----------------------------------------------------------------------------
(* A handler's turn: the node n that acts and its state, the sockets and   *)
(* what it sends, so far; and the end its message came from, if any.       *)

Turn(n, source) ==
  [n |-> n, source |-> source, node |-> node[n], sock |-> sock, out |-> Silence]

On(e) == Turn(At(e), {e})

Known(sk, ends, ids) ==
  [e \in End |-> IF e \in ends THEN [sk[e] EXCEPT !.knows = @ \cup ids] ELSE sk[e]]

Remembered(turn, ids) == [turn EXCEPT !.node.recent = @ \cup ids]

\* markPeerKnowsTx, markPeerKnowsBlock: of the source.
Knowing(turn, ids) == [turn EXCEPT !.sock = Known(@, turn.source, ids)]

Saying(turn, ends, m) ==
  [turn EXCEPT !.out = [e \in End |-> IF e \in ends THEN Append(@[e], m) ELSE @[e]]]

Reply(turn, m) == Saying(turn, turn.source, m)

\* The peers an id is news to.
Uninformed(turn, id) ==
  {e \in EndsOf(turn.n) \ turn.source :
     turn.sock[e].state = "open" /\ id \notin turn.sock[e].knows}

\* announceTxIds, announceBlock: to all but the source.
Announced(turn, type, id) ==
  LET ends == Uninformed(turn, id)
  IN Saying([Remembered(turn, {id}) EXCEPT !.sock = Known(@, ends, {id})], ends,
            [type |-> type, id |-> id])

\* handleTxAccept.
Offered(turn, t) ==
  IF Accepts(turn.node, t)
  THEN Announced(Knowing([turn EXCEPT !.node.pool = Append(@, t)], {t}), "tx-inv", t)
  ELSE turn

\* Of a transfer that came from the source.
Received(turn, t) == Offered(Knowing(turn, {t}), t)

\* The turn of the node at the end, on the oldest message there.
Takes(e, turn) ==
  /\ node' = [node EXCEPT ![At(e)] = turn.node]
  /\ sock' = turn.sock
  /\ Handled(e, turn.out)

-----------------------------------------------------------------------------
(* Transfers. *)

\* A wallet's TX, or its request to the RPC server.
Submit(n) ==
  \E t \in Wallet[n] :
    /\ Accepts(node[n], t)
    /\ \E turn \in {Offered(Turn(n, {}), t)} :
         /\ node' = [node EXCEPT ![n] = turn.node]
         /\ sock' = turn.sock
         /\ wire' = Sent(wire, turn.out)

\* Mutant: who knows the transfer is noted for every peer.
HandleTxInv_AllKnow(e) ==
  \E m \in Arrived(e, "tx-inv") :
    LET told == [On(e) EXCEPT !.sock = Known(@, EndsOf(At(e)), {m.id})]
        wanted == ~ Pooled(told.node, m.id) /\ m.id \notin told.node.recent
    IN Takes(e, IF wanted
                THEN Reply(Remembered(told, {m.id}), [type |-> "tx-get", id |-> m.id])
                ELSE told)

HandleTxInv(e) ==
  \E m \in Arrived(e, "tx-inv") :
    LET told == Knowing(On(e), {m.id})
        wanted == ~ Pooled(told.node, m.id) /\ m.id \notin told.node.recent
    IN Takes(e, IF wanted
                THEN Reply(Remembered(told, {m.id}), [type |-> "tx-get", id |-> m.id])
                ELSE told)

\* Nothing is said if the pool does not have it any more.
ServeTx(e) ==
  \E m \in Arrived(e, "tx-get") :
    Takes(e, IF Pooled(node[At(e)], m.id)
             THEN Reply(Knowing(On(e), {m.id}), [type |-> "tx-batch", id |-> m.id])
             ELSE On(e))

HandleTxBatch(e) ==
  \E m \in Arrived(e, "tx-batch") :
    Takes(e, Received(On(e), m.id))

ServeMempool(e) ==
  /\ Arrived(e, "mempool-request") # {}
  /\ Takes(e, Reply(On(e), [type |-> "mempool", txs |-> node[At(e)].pool]))

\* Every transfer is announced as it is accepted, and needs no announcement
\* at the end.
HandleMempool(e) ==
  \E m \in Arrived(e, "mempool") :
    Takes(e, FoldLeft(Received, On(e), m.txs))

\* The pool gives up a transfer, for its age or to make room.
Evict(n) ==
  \E t \in Evictable[n] :
    /\ Pooled(node[n], t)
    /\ node' = [node EXCEPT ![n].pool = Within(@, Transfer \ {t})]
    /\ UNCHANGED networkVars

-----------------------------------------------------------------------------
(* Blocks. *)

\* What is accepted from a peer is announced, and the peer's pool is asked for.
Connect(turn, b) == Announced([turn EXCEPT !.node = Extended(@, b)], "inv", b)

\* buildBlock takes transfers from the pool; tryAddBlock and broadcastBlock follow.
Mine(n) ==
  \E b \in Blk \ {Genesis} :
    /\ Miner[b] = n /\ Follows(b, Tip(node[n]))
    /\ \A t \in ToSet(Txs[b]) : Pooled(node[n], t)
    /\ \E turn \in {Connect(Turn(n, {}), b)} :
         /\ node' = [node EXCEPT ![n] = turn.node]
         /\ sock' = turn.sock
         /\ wire' = Sent(wire, turn.out)

\* Mutant: what is asked for is not remembered.
HandleInv_Forgetful(e) ==
  \E m \in Arrived(e, "inv") :
    LET told == Knowing(On(e), {m.id})
        wanted == ~ Holds(told.node, m.id) /\ m.id \notin told.node.recent
    IN Takes(e, IF wanted THEN Reply(told, [type |-> "get", id |-> m.id]) ELSE told)

HandleInv(e) ==
  \E m \in Arrived(e, "inv") :
    LET told == Knowing(On(e), {m.id})
        wanted == ~ Holds(told.node, m.id) /\ m.id \notin told.node.recent
    IN Takes(e, IF wanted
                THEN Reply(Remembered(told, {m.id}), [type |-> "get", id |-> m.id])
                ELSE told)

\* handleBlockGet and handleBlockFullGet.
ServeBlock(e, request, answer) ==
  \E m \in Arrived(e, request) :
    Takes(e, IF Holds(node[At(e)], m.id)
             THEN Reply(Knowing(On(e), {m.id}), [type |-> answer, id |-> m.id])
             ELSE On(e))

\* handleBlockTxGet: those of the block's transfers that are asked for.
ServeBlockTxs(e) ==
  \E m \in Arrived(e, "block-tx-get") :
    Takes(e, IF Holds(node[At(e)], m.id)
             THEN Reply(On(e), [type |-> "block-txs", id |-> m.id,
                                txs |-> m.txs \cap ToSet(Txs[m.id])])
             ELSE On(e))

-----------------------------------------------------------------------------
(* Compact blocks. *)

Others(pending, b) == Within(pending, {pb \in ToSet(pending) : pb.id # b})

\* touchPendingCompact.
Touched(pending, pb) ==
  LET q == Append(Others(pending, pb.id), pb)
  IN IF Len(q) > PendingMax THEN Tail(q) ELSE q

Entries(nd, b) == {pb \in ToSet(nd.pending) : pb.id = b}

NewEntry(b) == [id |-> b, fetched |-> {}, asked |-> {}, rounds |-> 0]

\* collectMissingCompactTxIds.
Missing(nd, pb) ==
  LET all == Within(Txs[pb.id], Transfer \ (pb.fetched \cup ToSet(nd.pool)))
  IN ToSet(SubSeq(all, 1, IF Len(all) < FetchMax THEN Len(all) ELSE FetchMax))

\* A compact block the node does not have starts a new entry, even where there is
\* one; a batch adds to the entry.  Each case: the entry and the turn so far.
Progress(e) ==
  {[pb |-> NewEntry(m.id), turn |-> Remembered(Knowing(On(e), {m.id}), {m.id})] :
     m \in {c \in Arrived(e, "compact") : ~ Holds(node[At(e)], c.id)}}
  \cup
  UNION {{[pb |-> [pb EXCEPT !.fetched = @ \cup m.txs], turn |-> Knowing(On(e), m.txs)] :
            pb \in Entries(node[At(e)], m.id)} : m \in Arrived(e, "block-txs")}

Pending(turn, pb) == [turn EXCEPT !.node.pending = Touched(@, pb)]

Settled(turn, b) == [turn EXCEPT !.node.pending = Others(@, b)]

\* No transfer is missing and the block extends the tip.
Accepted(turn, b) == Reply(Connect(Settled(turn, b), b), [type |-> "mempool-request"])

ConnectBlock(e) ==
  \E p \in Progress(e) :
    /\ Missing(p.turn.node, p.pb) = {}
    /\ Follows(p.pb.id, Tip(p.turn.node))
    /\ Takes(e, Accepted(p.turn, p.pb.id))

\* Mutant: the entry stays.
RefuseBlock_Kept(e) ==
  \E p \in Progress(e) :
    /\ Missing(p.turn.node, p.pb) = {}
    /\ ~ Follows(p.pb.id, Tip(p.turn.node))
    /\ Takes(e, Pending(p.turn, p.pb))

\* tryAddBlock refuses it; if its parent is unknown, orphanCount() drops it.
RefuseBlock(e) ==
  \E p \in Progress(e) :
    /\ Missing(p.turn.node, p.pb) = {}
    /\ ~ Follows(p.pb.id, Tip(p.turn.node))
    /\ Takes(e, Settled(p.turn, p.pb.id))

\* requestMissingCompactTxs: those not asked for yet or, if 250 ms have passed since
\* the last request, all.
Requests(nd, pb) ==
  LET fresh == Missing(nd, pb) \ pb.asked
  IN IF fresh # {} THEN {fresh} ELSE {Missing(nd, pb), {}}

FetchTxs(e) ==
  \E p \in Progress(e) :
    \E ids \in Requests(p.turn.node, p.pb) :
      /\ ids # {} /\ p.pb.rounds < MaxRounds
      /\ Takes(e, Reply(Pending(p.turn, [p.pb EXCEPT !.asked = @ \cup ids, !.rounds = @ + 1]),
                        [type |-> "block-tx-get", id |-> p.pb.id, txs |-> ids]))

FetchBlock(e) ==
  \E p \in Progress(e) :
    \E ids \in Requests(p.turn.node, p.pb) :
      /\ ids # {} /\ p.pb.rounds >= MaxRounds
      /\ Takes(e, Reply(Pending(p.turn, p.pb), [type |-> "full-get", id |-> p.pb.id]))

\* Nothing new to ask for, and too early to ask again.
Await(e) ==
  \E p \in Progress(e) :
    /\ Missing(p.turn.node, p.pb) # {}
    /\ {} \in Requests(p.turn.node, p.pb)
    /\ Takes(e, Pending(p.turn, p.pb))

\* The node has the block, or has given up on it.
IgnoreCompact(e) ==
  \E m \in Arrived(e, "compact") :
    /\ Holds(node[At(e)], m.id)
    /\ Takes(e, Remembered(Knowing(On(e), {m.id}), {m.id}))

IgnoreBlockTxs(e) ==
  \E m \in Arrived(e, "block-txs") :
    /\ Entries(node[At(e)], m.id) = {}
    /\ Takes(e, On(e))

HandleBlock(e) ==
  \E m \in Arrived(e, "block") :
    LET turn == Remembered(Knowing(On(e), {m.id}), {m.id})
    IN Takes(e, IF Follows(m.id, Tip(turn.node)) THEN Accepted(turn, m.id)
                ELSE Settled(turn, m.id))

-----------------------------------------------------------------------------
(* Connections and time. *)

\* onSocketOpen: the other's pool is asked for.
Greet(e) ==
  /\ sock' = [sock EXCEPT ![e] = Socket("open")]
  /\ wire' = [wire EXCEPT ![Far(e)] = Append(@, [type |-> "mempool-request"])]
  /\ UNCHANGED node

Accept(l) ==
  /\ sock[Out(l)].state = "dialing" /\ sock[In(l)].state = "none"
  /\ Greet(In(l))

Open(l) ==
  /\ sock[Out(l)].state = "dialing" /\ sock[In(l)].state = "open"
  /\ Greet(Out(l))

\* What is pending from the peer stays.
Close(e) ==
  /\ sock[e].state = "closing"
  /\ sock' = [sock EXCEPT ![e] = Socket("closed")]
  /\ wire' = [wire EXCEPT ![e] = <<>>]
  /\ UNCHANGED node

\* RECENT_TX_TTL_MS or RECENT_BLOCK_TTL_MS has passed.
Expire(n) ==
  /\ \E id \in node[n].recent \cap Forgotten[n] : node' = [node EXCEPT ![n].recent = @ \ {id}]
  /\ UNCHANGED networkVars

-----------------------------------------------------------------------------
Handle(e) ==
  \/ HandleTxInv(e) \/ ServeTx(e) \/ HandleTxBatch(e) \/ ServeMempool(e) \/ HandleMempool(e)
  \/ HandleInv(e) \/ ServeBlock(e, "get", "compact") \/ ServeBlock(e, "full-get", "block")
  \/ ServeBlockTxs(e)
  \/ ConnectBlock(e) \/ RefuseBlock(e) \/ FetchTxs(e) \/ FetchBlock(e) \/ Await(e)
  \/ IgnoreCompact(e) \/ IgnoreBlockTxs(e) \/ HandleBlock(e)

Lifecycle(l) ==
  \/ Dial(l) /\ UNCHANGED node
  \/ Accept(l)
  \/ Open(l)

Next ==
  \/ \E e \in End : Handle(e) \/ Close(e)
  \/ \E l \in Link : Lifecycle(l)
  \/ \E l \in Fragile : Break(l) /\ UNCHANGED node
  \/ \E n \in Node : Submit(n) \/ Evict(n) \/ Mine(n) \/ Expire(n)

Spec == Init /\ [][Next]_vars

-----------------------------------------------------------------------------
(* Properties. *)

Mentions(m, id) == "id" \in DOMAIN m /\ m.id = id

UnderWay(e, types, id) == \E m \in ToSet(wire[e]) : m.type \in types /\ Mentions(m, id)

HasBroken(n) ==
  \E e \in EndsOf(n) : e[1] \in Fragile /\ sock[e].state \in {"closing", "closed"}

(* A compact block a node keeps waiting for has a request or an answer      *)
(* under way, whatever other peers' announcements, answers and evictions    *)
(* have done to the entry since.  Nothing but an answer looks at an entry   *)
(* again, so one that nobody answers would hold its place until 128 others  *)
(* have come; a connection that breaks is the one way to leave such an      *)
(* entry (onSocketOpen's close handler does not touch them).                *)
PendingAnswered ==
  \A n \in Node : \A pb \in ToSet(node[n].pending) :
    \/ \E e \in EndsOf(n) :
         \/ UnderWay(e, {"block-txs", "block"}, pb.id)
         \/ UnderWay(Far(e), {"block-tx-get", "full-get"}, pb.id)
    \/ HasBroken(n)

Fetching(e, id) ==
  UnderWay(Far(e), {"tx-get", "get"}, id) \/ UnderWay(e, {"tx-batch", "compact"}, id)

(* A transfer or a block that several peers announce is fetched from one of *)
(* them, as long as recentTxSeen and recentBlockSeen remember the request.  *)
AskedOnce ==
  \A n \in Node : \A id \in (Transfer \cup Blk) \ Forgotten[n] :
    \A d, e \in EndsOf(n) : Fetching(d, id) /\ Fetching(e, id) => d = e

Aware(n, id) ==
  \/ id \in node[n].recent \cup ToSet(node[n].blocks) \cup ToSet(node[n].pool)
  \/ id \in Confirmed(node[n]) \cup Forgotten[n]

(* peerKnownTxs and peerKnownBlocks never say too much: a peer that is not  *)
(* told of a transfer or a block because it knows it has heard of it, or    *)
(* the word is on its way, until the connection breaks.  A wrong entry      *)
(* would hide it from the peer for as long as the connection lasts.         *)
KnowsRight ==
  \A e \in End : \A id \in sock[e].knows :
    \/ Aware(At(Far(e)), id)
    \/ \E m \in ToSet(wire[Far(e)]) : Mentions(m, id)
    \/ sock[e].state = "closing"
=============================================================================
