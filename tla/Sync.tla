-------------------------------- MODULE Sync ---------------------------------
(***************************************************************************)
(* How nodes bring their chains together (network.ts): on a new connection *)
(* each asks for the other's headers; one sync owner at a time is asked    *)
(* for blocks, chunk by chunk; a new block is announced, asked for and     *)
(* sent.  Every node runs this code, each message is handled in one turn.  *)
(*                                                                         *)
(* Blocks are genuine and carry no transfers, so a compact block needs     *)
(* none; what makes a block valid is module Chain's subject.  No orphan    *)
(* outlives a handler: orphanCount() drops whatever waits for a block that *)
(* nobody here has.                                                        *)
(***************************************************************************)
EXTENDS Network, FiniteSets

CONSTANTS
  Blk, Genesis, Prev, Work,  (* see Replication                            *)
  Miner,        (* the node that mines a block                             *)
  Start,        (* node -> the chain it starts with                        *)
  Pruning,      (* the nodes in storage mode "pruned"                      *)
  Retention,    (* pruneConfig.retentionWindow                             *)
  Chunk,        (* the sizes peerSyncChunkSize may have                    *)
  SnapshotMin,  (* SNAPSHOT_MIN_REMOTE_AHEAD                               *)
  Trusted,      (* the nodes whose snapshot metadata passes verification   *)
  Lossy,        (* the ends whose node may drop what it sends              *)
  Fragile,      (* the links that may break                                *)
  Forgotten,    (* the blocks whose entries in recentBlockSeen may expire  *)
  NoLink        (* no request is out                                       *)

ASSUME SyncAssumption ==
  /\ Genesis \in Blk
  /\ Prev \in [Blk \ {Genesis} -> Blk]
  /\ Work \in [Blk -> Nat]
  /\ \A b \in Blk \ {Genesis} : Work[Prev[b]] < Work[b]
  /\ Miner \in [Blk \ {Genesis} -> Node]
  /\ Start \in [Node -> Seq(Blk) \ {<<>>}]
  /\ \A n \in Node : Start[n][1] = Genesis
  /\ \A n \in Node : \A i \in 2..Len(Start[n]) :
       Start[n][i] # Genesis /\ Prev[Start[n][i]] = Start[n][i - 1]
  /\ Retention \in Nat \ {0}
  /\ Chunk # {} /\ Chunk \subseteq Nat \ {0}
  /\ SnapshotMin \in Nat \ {0}
  /\ Pruning \subseteq Node /\ Trusted \subseteq Node
  /\ Fragile \subseteq Link /\ Lossy \subseteq End
  /\ NoLink \notin End

VARIABLES
  node,   (* node -> [blocks, base, owner, boot, recent]: the chain from   *)
          (* the block at height base on, activeSyncPeer,                  *)
          (* snapshotBootstrap and recentBlockSeen                         *)
  mined   (* the blocks mined so far                                       *)

vars == <<networkVars, node, mined>>

Height(nd) == nd.base + Len(nd.blocks) - 1

Tip(nd) == Last(nd.blocks)

\* The anchor of a pruned chain has the hash of its block, but not its header.
Anchor(nd, b) == nd.base > 0 /\ b = Head(nd.blocks)

Follows(b, a) == b # Genesis /\ Prev[b] = a

Idle == [status |-> "idle", asked |-> NoLink, meta |-> FALSE]

Init ==
  /\ NetworkInit
  /\ node = [n \in Node |-> [blocks |-> Start[n], base |-> 0, owner |-> NoPeer,
                             boot |-> Idle, recent |-> {}]]
  /\ mined = UNION {ToSet(Start[n]) : n \in Node}

-----------------------------------------------------------------------------
(* The chain: what Chain does with blocks, save() and its pruning included. *)

\* Mutant: the anchor's height is not kept.
Pruned_Unmarked(n, nd) ==
  LET height == Height(nd) - Retention
  IN IF n \in Pruning /\ height > nd.base
     THEN [nd EXCEPT !.blocks = SubSeq(@, height - nd.base + 1, Len(@))]
     ELSE nd

Pruned(n, nd) ==
  LET height == Height(nd) - Retention
  IN IF n \in Pruning /\ height > nd.base
     THEN [nd EXCEPT !.blocks = SubSeq(@, height - nd.base + 1, Len(@)), !.base = height]
     ELSE nd

\* tryAddBlock of a block that extends the tip; any other is refused.
Extended(n, nd, b) == Pruned(n, [nd EXCEPT !.blocks = Append(@, b)])

\* The local blocks below the height the range starts at.
Kept(nd, from) ==
  LET common == IF from - 1 < nd.base THEN nd.base
                ELSE IF from - 1 > Height(nd) THEN Height(nd) ELSE from - 1
  IN SubSeq(nd.blocks, 1, common - nd.base + 1)

\* Mutant: as much work is enough.
Adoptable_EqualWork(nd, range) ==
  /\ ~ range.anchored
  /\ Follows(Head(range.blocks), Last(Kept(nd, range.from)))
  /\ Work[Last(range.blocks)] >= Work[Tip(nd)]

\* applyBlockRange: adding the blocks one by one, when the range starts at the
\* tip, and adopting a fork come to the same.
Adoptable(nd, range) ==
  /\ ~ range.anchored
  /\ Follows(Head(range.blocks), Last(Kept(nd, range.from)))
  /\ Work[Last(range.blocks)] > Work[Tip(nd)]

Adopted(n, nd, range) == Pruned(n, [nd EXCEPT !.blocks = Kept(nd, range.from) \o range.blocks])

\* How many of the two sequences' first elements agree.
CommonLen(s, t) ==
  Cardinality({i \in DOMAIN s \cap DOMAIN t : \A j \in 1..i : s[j] = t[j]})

-----------------------------------------------------------------------------
(* The owner of the sync and the bootstrap from a snapshot. *)

IsOwner(e) == node[At(e)].owner = Label(e)

\* A connected peer is known to be higher than the node, as it is after a step.
NeedsSync(n, nd, sk) == \E e \in EndsOf(n) : Connected(e) /\ sk[e].height > Height(nd)

Eligible(nd) == nd.base = 0 /\ Height(nd) <= 0

\* Mutant: even while a bootstrap is under way.
TriesSnapshot_Busy(nd, height) == Eligible(nd) /\ height >= SnapshotMin

TriesSnapshot(nd, height) == Eligible(nd) /\ nd.boot.status = "idle" /\ height >= SnapshotMin

\* maybeStartSnapshotBootstrap: what becomes of the node, and what it sends.
\* The snapshot's way from there on is left out: see the theorem NeverBootstraps.
Bootstrap(nd, e, height) ==
  IF ~ TriesSnapshot(nd, height) THEN [node |-> nd, sends |-> <<>>]
  ELSE IF ~ nd.boot.meta THEN [node |-> [nd EXCEPT !.boot = Idle], sends |-> <<>>]
  ELSE [node |-> [nd EXCEPT !.boot.status = "waiting-snapshot", !.boot.asked = e],
        sends |-> <<[type |-> "snapshot-request"]>>]

\* requestSnapshotMeta, to whatever is under way.
AskMeta(nd, e) ==
  IF Eligible(nd)
  THEN [node |-> [nd EXCEPT !.boot = [status |-> "waiting-meta", asked |-> e, meta |-> FALSE]],
        sends |-> <<[type |-> "meta-request"]>>]
  ELSE [node |-> nd, sends |-> <<>>]

-----------------------------------------------------------------------------
(* Connections. *)

\* onSocketOpen on a new socket.
Greet(e) ==
  \E asked \in {AskMeta(node[At(e)], e)} :
    /\ node' = [node EXCEPT ![At(e)] = asked.node]
    /\ sock' = [sock EXCEPT ![e] = Socket("open")]
    /\ wire' = [wire EXCEPT ![Far(e)] = @ \o <<[type |-> "headers-request"]>> \o asked.sends]
    /\ UNCHANGED mined

Accept(l) ==
  /\ sock[Out(l)].state = "dialing" /\ sock[In(l)].state = "none"
  /\ Greet(In(l))

Open(l) ==
  /\ sock[Out(l)].state = "dialing" /\ sock[In(l)].state = "open"
  /\ Greet(Out(l))

\* Mutant: the sync owner is kept.
Released_Boot(nd, e) ==
  [nd EXCEPT !.boot = IF nd.boot.asked # NoLink /\ Label(nd.boot.asked) = Label(e) THEN Idle ELSE @]

\* Only for a peer the node dialled.
Released(nd, e) ==
  [nd EXCEPT !.owner = IF @ = Label(e) THEN NoPeer ELSE @,
             !.boot = IF nd.boot.asked # NoLink /\ Label(nd.boot.asked) = Label(e) THEN Idle ELSE @]

\* onSocketClose.
Close(e) ==
  /\ sock[e].state = "closing"
  /\ sock' = [sock EXCEPT ![e] = Socket("closed")]
  /\ wire' = [wire EXCEPT ![e] = <<>>]
  /\ node' = IF e[2] = "outbound" THEN [node EXCEPT ![At(e)] = Released(@, e)] ELSE node
  /\ UNCHANGED mined

\* The other side has closed.
Closing(e) ==
  /\ Arrived(e, "close") # {}
  /\ sock' = [sock EXCEPT ![e].state = "closing"]
  /\ Handled(e, Silence)
  /\ UNCHANGED <<node, mined>>

\* send() gives a message up when the bandwidth limit says so.
Drop(e) ==
  /\ Far(e) \in Lossy
  /\ \E i \in DOMAIN wire[e] : wire' = [wire EXCEPT ![e] = RemoveAt(@, i)]
  /\ UNCHANGED <<sock, node, mined>>

-----------------------------------------------------------------------------
(* Headers. *)

HeadersOf(nd) == [type |-> "headers", hashes |-> nd.blocks, anchored |-> nd.base > 0]

ServeHeaders(e) ==
  /\ Arrived(e, "headers-request") # {}
  /\ Handled(e, Only(e, <<HeadersOf(node[At(e)])>>))
  /\ UNCHANGED <<sock, node, mined>>

\* markBad: an anchor's header does not hash to its hash.
RefuseHeaders(e) ==
  /\ \E m \in Arrived(e, "headers") : m.anchored
  /\ sock' = [sock EXCEPT ![e].state = "closing"]
  /\ Handled(e, Only(e, <<[type |-> "close"]>>))
  /\ UNCHANGED <<node, mined>>

\* Good headers; their number is taken for the peer's height.
GoodHeaders(e) == {m.hashes : m \in {h \in Arrived(e, "headers") : ~ h.anchored}}

Heard(e, height) == [sock EXCEPT ![e].height = height]

Ahead(e) == {hashes \in GoodHeaders(e) : Len(hashes) > Len(node[At(e)].blocks)}

\* No more headers than the node has blocks: nothing to ask this peer for.
HeadersNotAhead(e) ==
  /\ \E hashes \in GoodHeaders(e) \ Ahead(e) : sock' = Heard(e, Len(hashes) - 1)
  /\ node' = IF IsOwner(e) /\ ~ NeedsSync(At(e), node[At(e)], sock')
             THEN [node EXCEPT ![At(e)].owner = NoPeer] ELSE node
  /\ Handled(e, Silence)
  /\ UNCHANGED mined

\* Another peer owns the sync: what this one has is not asked for.
HeadersWhileBusy(e) ==
  /\ node[At(e)].owner \notin {NoPeer, Label(e)}
  /\ \E hashes \in Ahead(e) : sock' = Heard(e, Len(hashes) - 1)
  /\ Handled(e, Silence)
  /\ UNCHANGED <<node, mined>>

Owned(e) == [node[At(e)] EXCEPT !.owner = Label(e)]

\* The new owner's snapshot is tried instead of its blocks.
HeadersForSnapshot(e) ==
  /\ node[At(e)].owner \in {NoPeer, Label(e)}
  /\ \E hashes \in Ahead(e) :
       \E next \in {Bootstrap(Owned(e), e, Len(hashes) - 1)} :
         /\ TriesSnapshot(Owned(e), Len(hashes) - 1)
         /\ sock' = Heard(e, Len(hashes) - 1)
         /\ node' = [node EXCEPT ![At(e)] = next.node]
         /\ Handled(e, Only(e, next.sends))
  /\ UNCHANGED mined

AtMost(m, n) == IF m < n THEN m ELSE n

\* The new owner is asked for the blocks after the last common one.
HeadersForBlocks(e) ==
  /\ node[At(e)].owner \in {NoPeer, Label(e)}
  /\ \E hashes \in Ahead(e), chunk \in Chunk :
       \E from \in {CommonLen(node[At(e)].blocks, hashes)} :
         /\ ~ TriesSnapshot(Owned(e), Len(hashes) - 1)
         /\ sock' = Heard(e, Len(hashes) - 1)
         /\ Handled(e, Only(e, <<[type |-> "range-request", from |-> from,
                                  count |-> AtMost(chunk, Len(hashes) - from)]>>))
  /\ node' = [node EXCEPT ![At(e)] = Owned(e)]
  /\ UNCHANGED mined

-----------------------------------------------------------------------------
(* Ranges of blocks. *)

\* exportBlockRange: a pruned node starts no lower than its anchor.
RangeOf(nd, from, count) ==
  LET first == IF from > nd.base THEN from - nd.base ELSE 0
  IN [type |-> "range", from |-> from, anchored |-> nd.base > 0 /\ first = 0,
      blocks |-> SubSeq(nd.blocks, first + 1, AtMost(Len(nd.blocks), first + count))]

ServeRange(e) ==
  /\ \E m \in Arrived(e, "range-request") :
       Handled(e, Only(e, <<RangeOf(node[At(e)], m.from, m.count)>>))
  /\ UNCHANGED <<sock, node, mined>>

\* From a peer that no longer owns the sync, or with nothing in it.
IgnoreRange(e) ==
  /\ \E range \in Arrived(e, "range") : range.blocks = <<>> \/ ~ IsOwner(e)
  /\ Handled(e, Silence)
  /\ UNCHANGED <<sock, node, mined>>

OwnersRange(e) == {range \in Arrived(e, "range") : range.blocks # <<>> /\ IsOwner(e)}

\* Mutant: the peer keeps the sync.
RefuseRange_Kept(e) ==
  /\ \E range \in OwnersRange(e) : ~ Adoptable(node[At(e)], range)
  /\ Handled(e, Silence)
  /\ UNCHANGED <<sock, node, mined>>

RefuseRange(e) ==
  /\ \E range \in OwnersRange(e) : ~ Adoptable(node[At(e)], range)
  /\ node' = [node EXCEPT ![At(e)].owner = NoPeer]
  /\ Handled(e, Silence)
  /\ UNCHANGED <<sock, mined>>

\* Mutant: one too many.
LastOf_Next(range) == range.from + Len(range.blocks)

\* The height of the range's last block.
LastOf(range) == range.from + Len(range.blocks) - 1

\* Whether it is done or not, the next headers are asked for.
ApplyRange(e) ==
  \E range \in OwnersRange(e) :
    LET n == At(e)
        nd == Adopted(n, node[n], range)
        height == IF sock[e].height > LastOf(range) THEN sock[e].height ELSE LastOf(range)
        blocks == ToSet(range.blocks)
    IN /\ Adoptable(node[n], range)
       /\ node' = [node EXCEPT ![n] =
            [nd EXCEPT !.owner = IF Height(nd) >= height THEN NoPeer ELSE @,
                       !.recent = @ \cup blocks]]
       /\ sock' = [sock EXCEPT ![e].height = height, ![e].knows = @ \cup blocks]
       /\ Handled(e, Only(e, <<[type |-> "headers-request"]>>))
       /\ UNCHANGED mined

-----------------------------------------------------------------------------
(* New blocks. *)

\* Mutant: only to peers that have told their height.
Uninformed_Known(n, b, sk) ==
  {e \in EndsOf(n) : sk[e].state = "open" /\ b \notin sk[e].knows /\ sk[e].height # NoHeight}

\* announceBlock to the ends, which do not know the block yet.
Uninformed(n, b, sk) == {e \in EndsOf(n) : sk[e].state = "open" /\ b \notin sk[e].knows}

Announced(sk, b, ends) ==
  [e \in End |-> IF e \in ends THEN [sk[e] EXCEPT !.knows = @ \cup {b}] ELSE sk[e]]

Announcement(b, height, ends) ==
  [e \in End |-> IF e \in ends THEN <<[type |-> "inv", hash |-> b, height |-> height]>> ELSE <<>>]

\* The miner's tryAddBlock and broadcastBlock.
Mine(n) ==
  \E b \in Blk \ mined :
    LET nd == Extended(n, node[n], b)
        ends == Uninformed(n, b, sock)
    IN /\ Follows(b, Tip(node[n])) /\ Miner[b] = n
       /\ mined' = mined \cup {b}
       /\ node' = [node EXCEPT ![n] = [nd EXCEPT !.recent = @ \cup {b}]]
       /\ sock' = Announced(sock, b, ends)
       /\ wire' = Sent(wire, Announcement(b, Height(nd), ends))

Holds(nd, b) == b \in ToSet(nd.blocks)

HandleInv(e) ==
  \E m \in Arrived(e, "inv") :
    LET nd == node[At(e)]
        wanted == ~ Holds(nd, m.hash) /\ m.hash \notin nd.recent
    IN /\ sock' = [sock EXCEPT ![e].height = m.height, ![e].knows = @ \cup {m.hash}]
       /\ node' = IF wanted THEN [node EXCEPT ![At(e)].recent = @ \cup {m.hash}] ELSE node
       /\ Handled(e, IF wanted THEN Only(e, <<[type |-> "get", hash |-> m.hash]>>) ELSE Silence)
       /\ UNCHANGED mined

\* The height that is sent is the block's place among the local blocks.
CompactOf(nd, b) ==
  [type |-> "compact", hash |-> b, anchored |-> Anchor(nd, b),
   height |-> (CHOOSE i \in DOMAIN nd.blocks : nd.blocks[i] = b) - 1]

ServeBlock(e) ==
  \E m \in Arrived(e, "get") :
    LET nd == node[At(e)]
    IN /\ sock' = IF Holds(nd, m.hash) THEN [sock EXCEPT ![e].knows = @ \cup {m.hash}] ELSE sock
       /\ Handled(e, IF Holds(nd, m.hash) THEN Only(e, <<CompactOf(nd, m.hash)>>) ELSE Silence)
       /\ UNCHANGED <<node, mined>>

\* What every compact block leaves behind.
Noted(sk, e, m) == [sk EXCEPT ![e].height = m.height, ![e].knows = @ \cup {m.hash}]

Connects(e, m) == ~ m.anchored /\ Follows(m.hash, Tip(node[At(e)]))

\* Held already, or refused: its parent is not asked for.
RefuseBlock(e) ==
  /\ \E m \in Arrived(e, "compact") :
       /\ ~ Connects(e, m)
       /\ sock' = Noted(sock, e, m)
       /\ node' = [node EXCEPT ![At(e)].recent = @ \cup {m.hash}]
  /\ Handled(e, Silence)
  /\ UNCHANGED mined

ConnectBlock(e) ==
  \E m \in Arrived(e, "compact") :
    LET n == At(e)
        nd == Extended(n, node[n], m.hash)
        ends == Uninformed(n, m.hash, sock) \ {e}
    IN /\ Connects(e, m)
       /\ sock' = Announced(Noted(sock, e, m), m.hash, ends)
       /\ node' = [node EXCEPT ![n] = [nd EXCEPT !.recent = @ \cup {m.hash}]]
       /\ Handled(e, Announcement(m.hash, Height(nd), ends))
       /\ UNCHANGED mined

\* RECENT_BLOCK_TTL_MS has passed since the node heard of the block.
Expire(n) ==
  /\ \E b \in node[n].recent \cap Forgotten : node' = [node EXCEPT ![n].recent = @ \ {b}]
  /\ UNCHANGED <<networkVars, mined>>

-----------------------------------------------------------------------------
(* Snapshots. *)

\* Of a node's snapshot the metadata tells the height.
MetaOf(n) == [type |-> "meta", height |-> Height(n)]

ServeMeta(e) ==
  /\ Arrived(e, "meta-request") # {}
  /\ Handled(e, Only(e, <<MetaOf(node[At(e)])>>))
  /\ UNCHANGED <<sock, node, mined>>

\* The request is answered already, or another one has replaced it.
Expected(e) == node[At(e)].boot.status = "waiting-meta" /\ node[At(e)].boot.asked = e

IgnoreMeta(e) ==
  /\ Arrived(e, "meta") # {} /\ ~ Expected(e)
  /\ Handled(e, Silence)
  /\ UNCHANGED <<sock, node, mined>>

TrustsMeta(e, height) ==
  Eligible(node[At(e)]) /\ height >= SnapshotMin /\ At(Far(e)) \in Trusted

HandleMeta(e) ==
  /\ Expected(e)
  /\ \E m \in Arrived(e, "meta") :
       \E next \in {IF TrustsMeta(e, m.height)
                    THEN Bootstrap([node[At(e)] EXCEPT !.boot.meta = TRUE], e, m.height)
                    ELSE [node |-> [node[At(e)] EXCEPT !.boot = Idle], sends |-> <<>>]} :
         /\ sock' = Heard(e, m.height)
         /\ node' = [node EXCEPT ![At(e)] = next.node]
         /\ Handled(e, Only(e, next.sends))
  /\ UNCHANGED mined

-----------------------------------------------------------------------------
Handle(e) ==
  \/ Closing(e)
  \/ ServeHeaders(e) \/ RefuseHeaders(e) \/ HeadersNotAhead(e) \/ HeadersWhileBusy(e)
  \/ HeadersForSnapshot(e) \/ HeadersForBlocks(e)
  \/ ServeRange(e) \/ IgnoreRange(e) \/ RefuseRange(e) \/ ApplyRange(e)
  \/ HandleInv(e) \/ ServeBlock(e) \/ RefuseBlock(e) \/ ConnectBlock(e)
  \/ ServeMeta(e) \/ IgnoreMeta(e) \/ HandleMeta(e)

Lifecycle(l) ==
  \/ Dial(l) /\ UNCHANGED <<node, mined>>
  \/ Accept(l)
  \/ Open(l)

Next ==
  \/ \E e \in End : Handle(e) \/ Close(e) \/ Drop(e)
  \/ \E l \in Link : Lifecycle(l)
  \/ \E l \in Fragile : Break(l) /\ UNCHANGED <<node, mined>>
  \/ \E n \in Node : Mine(n) \/ Expire(n)

Spec == Init /\ [][Next]_vars

(***************************************************************************)
(* The event loop gets to every message and every closed socket, and the   *)
(* peers a node is told of are dialled.  Nobody has to mine.               *)
(***************************************************************************)
FairSpec ==
  /\ Spec
  /\ \A e \in End : WF_vars(Handle(e)) /\ WF_vars(Close(e))
  /\ \A l \in Link : WF_vars(Lifecycle(l))

-----------------------------------------------------------------------------
(* Properties. *)

\* Blocks are equally difficult: the higher of two is the one with more work.
EquallyDifficult(high) ==
  /\ high \in [Blk -> Nat] /\ high[Genesis] = 0
  /\ \A b \in Blk \ {Genesis} : high[b] = high[Prev[b]] + 1
  /\ \A a, b \in Blk : Work[a] < Work[b] => high[a] < high[b]

Bootstrapping == [status : {"idle", "waiting-meta", "waiting-snapshot"},
                  asked : End \cup {NoLink}, meta : BOOLEAN]

\* What a message may say.
Message ==
  [type : {"headers-request", "meta-request", "snapshot-request", "close"}]
    \cup [type : {"headers"}, hashes : Seq(mined) \ {<<>>}, anchored : BOOLEAN]
    \cup [type : {"range-request"}, from : Nat, count : Nat]
    \cup [type : {"range"}, from : Nat, anchored : BOOLEAN, blocks : Seq(mined)]
    \cup [type : {"inv"}, hash : mined, height : Nat]
    \cup [type : {"get"}, hash : mined]
    \cup [type : {"compact"}, hash : mined, anchored : BOOLEAN, height : Nat]
    \cup [type : {"meta"}, height : Nat]

(***************************************************************************)
(* Every variable holds what the code keeps in it; activeSyncPeer names a  *)
(* peer the node may have a socket to, and the bootstrap's request is one  *)
(* of the node's own.                                                      *)
(***************************************************************************)
TypeOK ==
  /\ sock \in [End -> [state : {"none", "dialing", "open", "closing", "closed"},
                       height : Nat \cup {NoHeight}, knows : SUBSET mined]]
  /\ wire \in [End -> Seq(Message)]
  /\ mined \subseteq Blk /\ Genesis \in mined
  /\ DOMAIN node = Node
  /\ \A n \in Node :
       /\ node[n].blocks \in Seq(mined) \ {<<>>} /\ node[n].base \in Nat
       /\ node[n].owner \in {NoPeer} \cup {Label(e) : e \in EndsOf(n)}
       /\ node[n].boot \in Bootstrapping /\ node[n].boot.asked \in EndsOf(n) \cup {NoLink}
       /\ node[n].recent \subseteq mined

(***************************************************************************)
(* Whatever arrives late, twice or from a peer that has changed its mind,  *)
(* the local blocks are a run of one chain that starts at genesis, or at   *)
(* the anchor (applyBlockRange's and tryAddBlock's checks of prevHash).    *)
(***************************************************************************)
ChainWhole ==
  \A n \in Node :
    /\ \A i \in 2..Len(node[n].blocks) : Follows(node[n].blocks[i], node[n].blocks[i - 1])
    /\ (node[n].base = 0) = (node[n].blocks[1] = Genesis)

(***************************************************************************)
(* A peer the node dialled owns the sync only while a connection to it is  *)
(* there (onSocketClose): it cannot keep the others out for ever.          *)
(***************************************************************************)
OwnerConnected ==
  \A e \in End : e[2] = "outbound" /\ IsOwner(e) => Dialled(At(e), Label(e))

(***************************************************************************)
(* What a node believes of a peer's height (peerRemoteHeight), from an     *)
(* announcement, headers, a range or snapshot metadata, is never more than *)
(* the peer has: no block is waited for that does not exist.  Where blocks *)
(* are equally difficult: a heavier branch may also be a shorter one.      *)
(***************************************************************************)
HeightsReal ==
  \A e \in End : sock[e].height <= Height(node[At(Far(e))])

(***************************************************************************)
(* While a node's only peer owns the sync an answer, or the peer's leaving, *)
(* is under way that will end or renew its turn; otherwise the node would  *)
(* wait for ever (acquire- and releaseSyncOwner).  With another peer that  *)
(* is known to be higher this is false: handleHeadersResponse keeps an     *)
(* owner that has nothing more, and drops the headers of the others.       *)
(* Where blocks are equally difficult: a peer that has moved to a shorter  *)
(* branch may have nothing left to answer with.                            *)
(***************************************************************************)
Answering(e) ==
  \/ \E m \in ToSet(wire[e]) : m.type \in {"headers", "range", "close"}
  \/ \E m \in ToSet(wire[Far(e)]) : m.type \in {"headers-request", "range-request"}

\* The node has had no other connection than this one, which is not closed.
OnlyPeer(e) ==
  sock[e].state # "closed" /\ \A x \in EndsOf(At(e)) \ {e} : sock[x].state = "none"

OwnerWaits ==
  \A e \in End : IsOwner(e) /\ OnlyPeer(e) => Answering(e) \/ sock[e].state = "closing"

\* A snapshot is never asked for: maybeStartSnapshotBootstrap of network.ts
\* wants an idle bootstrap that has metadata.
NeverBootstraps == \A n \in Node : node[n].boot.status # "waiting-snapshot"

\* A node leaves its chain only for a longer one that somebody mined.
Replicas == INSTANCE Replication WITH tip <- [n \in Node |-> Tip(node[n])]

Replicates == Replicas!Spec

\* Once nobody mines any more, connected nodes end up with one chain.
Converge == <>[](\A m, n \in Node : Tip(node[m]) = Tip(node[n]))

(***************************************************************************)
(* getNetworkStats: lagBlocks, how far the node is behind the highest of   *)
(* its peers.                                                              *)
(***************************************************************************)
LagBlocks(n) ==
  Max({0} \cup {sock[e].height - Height(node[n]) : e \in {x \in EndsOf(n) : Connected(x)}})

\* "Healthy node: syncLagBlocks: 0" (OPERATOR_GUIDE.md): no lag lasts for ever.
LagClears == \A n \in Node : []<>(LagBlocks(n) = 0)
=============================================================================
