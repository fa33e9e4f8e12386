---------------------------- MODULE Relay_proofs ----------------------------
(***************************************************************************)
(* The invariants of Relay, for any network of nodes and links, any tree   *)
(* of blocks and any limits.                                               *)
(*                                                                         *)
(* They rest on what a message says of the two nodes it passes between     *)
(* (Meant): the sender of an id has heard of it, so has the receiver       *)
(* unless it is an announcement, a request is remembered by the node that  *)
(* made it, and who is asked for a block's transfers has the block.  What  *)
(* a node has heard of it never loses, so a message stays meant until it   *)
(* is taken.                                                               *)
(*                                                                         *)
(* A handler's turn is built step by step from the state it starts in;     *)
(* Sound says what holds of it after each of these steps, and Taken what   *)
(* holds of the network when it ends.                                      *)
(***************************************************************************)
EXTENDS Relay, SequenceTheorems, TLAPS

-----------------------------------------------------------------------------
(* Types. *)

Id == Transfer \cup Blk

TransferType == {"tx-inv", "tx-get", "tx-batch"}
BlockType == {"inv", "get", "compact", "full-get", "block"}
PartType == {"block-tx-get", "block-txs"}

Message ==
  [type : TransferType, id : Transfer]
  \cup [type : BlockType, id : Blk]
  \cup [type : PartType, id : Blk, txs : SUBSET Transfer]
  \cup [type : {"mempool-request"}]
  \cup [type : {"mempool"}, txs : Seq(Transfer)]

Entry == [id : Blk, fetched : SUBSET Transfer, asked : SUBSET Transfer, rounds : Nat]

NodeState ==
  [blocks : Seq(Blk), pool : Seq(Transfer), recent : SUBSET Id, pending : Seq(Entry)]

SocketState ==
  [state : {"none", "dialing", "open", "closing", "closed"}, height : {NoHeight},
   knows : SUBSET Id]

TypeOK ==
  /\ sock \in [End -> SocketState]
  /\ wire \in [End -> Seq(Message)]
  /\ node \in [Node -> NodeState]

\* The two ends of a link, and the links that broke.
Fit(o, i, l) ==
  /\ \/ o.state = "none" /\ i.state = "none"
     \/ o.state = "dialing" /\ i.state \in {"none", "open"}
     \/ o.state = "open" /\ i.state = "open"
     \/ o.state \in {"closing", "closed"} /\ i.state \in {"closing", "closed"}
  /\ \A s \in {o, i} : s.state \in {"none", "dialing", "closed"} => s.knows = {}
  /\ "closing" \in {o.state, i.state} => l \in Fragile

Matched(l) == Fit(sock[Out(l)], sock[In(l)], l)

Paired == \A l \in Link : Matched(l)

-----------------------------------------------------------------------------
(* What nodes have heard of. *)

\* What recentTxSeen and recentBlockSeen have, or had before it expired.
Noted(n, nd) == nd.recent \cup Forgotten[n]

Heard(n, nd) == Noted(n, nd) \cup ToSet(nd.blocks) \cup Confirmed(nd)

PoolNoted == \A n \in Node : ToSet(node[n].pool) \subseteq Noted(n, node[n])

\* A message from node s, whose state is ns, to node r.
Meant(m, s, ns, r, nr) ==
  /\ "id" \in DOMAIN m => m.id \in Heard(s, ns)
  /\ "id" \in DOMAIN m /\ m.type \notin {"tx-inv", "inv"} => m.id \in Heard(r, nr)
  /\ m.type \in {"tx-get", "get"} => m.id \in Noted(s, ns)
  /\ m.type \in {"tx-batch", "compact"} => m.id \in Noted(r, nr)
  /\ m.type \in {"compact", "block-txs", "block"} => m.id \in ToSet(ns.blocks)
  /\ m.type \in {"block-tx-get", "full-get"} => m.id \in ToSet(nr.blocks)
  /\ m.type = "mempool" => ToSet(m.txs) \subseteq Heard(s, ns)
  /\ m.type = "block-txs" => m.txs \subseteq Heard(s, ns)
  /\ m.type = "block-tx-get" => m.txs \subseteq ToSet(Txs[m.id])

AllMeant ==
  \A e \in End : \A m \in ToSet(wire[e]) :
    Meant(m, At(Far(e)), node[At(Far(e))], At(e), node[At(e)])

\* KnowsRight, without the pool: what is there has been noted.
KnowsHeard ==
  \A e \in End : \A id \in sock[e].knows :
    \/ id \in Heard(At(Far(e)), node[At(Far(e))])
    \/ \E m \in ToSet(wire[Far(e)]) : Mentions(m, id)
    \/ sock[e].state = "closing"

-----------------------------------------------------------------------------
(* What nodes wait for. *)

Comes(n, b) ==
  \E e \in EndsOf(n) :
    \/ UnderWay(e, {"block-txs", "block"}, b)
    \/ UnderWay(Far(e), {"block-tx-get", "full-get"}, b)

\* A request for a transfer of the block, or an answer with it.
Carries(n, b, t) ==
  \E e \in EndsOf(n) :
    \/ \E m \in ToSet(wire[e]) : m.type = "block-txs" /\ m.id = b /\ t \in m.txs
    \/ \E m \in ToSet(wire[Far(e)]) : m.type = "block-tx-get" /\ m.id = b /\ t \in m.txs

AskedComes ==
  \A n \in Node : \A pb \in ToSet(node[n].pending) : \A t \in pb.asked :
    t \in pb.fetched \/ Carries(n, pb.id, t) \/ HasBroken(n)

\* What the turns of the handlers keep without looking at what they wait for.
Base == TypeOK /\ Paired /\ PoolNoted /\ AllMeant /\ KnowsHeard

-----------------------------------------------------------------------------
(* Ends and messages. *)

LEMMA Ends ==
  ASSUME NEW e \in End
  PROVE  /\ Far(e) \in End /\ Far(Far(e)) = e /\ Far(e) # e
         /\ At(e) \in Node /\ At(Far(e)) \in Node /\ At(Far(e)) # At(e)
         /\ e[1] \in Link /\ Far(e)[1] = e[1] /\ {e, Far(e)} = {Out(e[1]), In(e[1])}
<1>1. PICK l \in Link, s \in {"outbound", "inbound"} : e = <<l, s>>
  BY DEF End
<1>2. CASE s = "outbound"
  <2>1. e = <<l, "outbound">> /\ e[1] = l /\ e[2] = "outbound" /\ Far(e) = <<l, "inbound">>
    BY <1>1, <1>2 DEF Far, In
  <2>2. Far(e)[1] = l /\ Far(e)[2] = "inbound" /\ Far(Far(e)) = <<l, "outbound">>
    BY <2>1 DEF Far, Out
  <2>3. At(e) = Dialer[l] /\ At(Far(e)) = Acceptor[l]
    BY <2>1, <2>2 DEF At
  <2> QED
    BY <1>1, <2>1, <2>2, <2>3, NetworkAssumption DEF End, Out, In
<1>3. CASE s = "inbound"
  <2>1. e = <<l, "inbound">> /\ e[1] = l /\ e[2] = "inbound" /\ Far(e) = <<l, "outbound">>
    BY <1>1, <1>3 DEF Far, Out
  <2>2. Far(e)[1] = l /\ Far(e)[2] = "outbound" /\ Far(Far(e)) = <<l, "inbound">>
    BY <2>1 DEF Far, In
  <2>3. At(e) = Acceptor[l] /\ At(Far(e)) = Dialer[l]
    BY <2>1, <2>2 DEF At
  <2> QED
    BY <1>1, <2>1, <2>2, <2>3, NetworkAssumption DEF End, Out, In
<1> QED
  BY <1>1, <1>2, <1>3

LEMMA LinkEnds ==
  ASSUME NEW l \in Link
  PROVE  /\ Out(l) \in End /\ In(l) \in End /\ Out(l) # In(l)
         /\ Far(Out(l)) = In(l) /\ Far(In(l)) = Out(l) /\ Out(l)[1] = l /\ In(l)[1] = l
  BY DEF Out, In, End, Far

LEMMA SameEnd ==
  ASSUME NEW d \in End, NEW e \in End, Far(d) = e
  PROVE  d = Far(e)
  BY Ends

\* The ends of a link, seen from one of them.
LEMMA PairedEnds ==
  ASSUME TypeOK, Paired, NEW e \in End
  PROVE  /\ sock[e].state = "open" => sock[Far(e)].state \in {"open", "dialing"}
         /\ sock[e].state = "closing" =>
              sock[Far(e)].state \in {"closing", "closed"} /\ e[1] \in Fragile
         /\ sock[e].state \in {"none", "dialing", "closed"} => sock[e].knows = {}
<1>1. e[1] \in Link /\ Far(e) \in End
  BY Ends
<1>2. \/ e = Out(e[1]) /\ Far(e) = In(e[1])
      \/ e = In(e[1]) /\ Far(e) = Out(e[1])
  BY Ends, <1>1, LinkEnds
<1> QED
  BY <1>1, <1>2 DEF Paired, Matched, Fit

IdType == TransferType \cup BlockType \cup PartType

LEMMA MessageIds ==
  ASSUME NEW m \in Message
  PROVE  /\ "id" \in DOMAIN m <=> m.type \in IdType
         /\ m.type \in TransferType => m.id \in Transfer
         /\ m.type \in BlockType \cup PartType => m.id \in Blk
         /\ m.type \in PartType => m.txs \in SUBSET Transfer
         /\ m.type = "mempool" => m.txs \in Seq(Transfer)
         /\ m.type \in IdType \cup {"mempool-request", "mempool"}
  BY DEF Message, IdType, TransferType, BlockType, PartType

LEMMA MentionsId ==
  ASSUME NEW m \in Message, NEW id
  PROVE  Mentions(m, id) <=> m.type \in IdType /\ m.id = id
  BY MessageIds DEF Mentions

LEMMA NewMessage ==
  /\ \A x \in TransferType, t \in Transfer : [type |-> x, id |-> t] \in Message
  /\ \A x \in BlockType, b \in Blk : [type |-> x, id |-> b] \in Message
  /\ \A x \in PartType, b \in Blk, ts \in SUBSET Transfer :
       [type |-> x, id |-> b, txs |-> ts] \in Message
  /\ [type |-> "mempool-request"] \in Message
  /\ \A ts \in Seq(Transfer) : [type |-> "mempool", txs |-> ts] \in Message
  BY DEF Message

\* Sequences as the sets of their elements.
LEMMA Elements ==
  ASSUME NEW S, NEW s \in Seq(S)
  PROVE  /\ ToSet(s) \subseteq S
         /\ \A x \in S : Append(s, x) \in Seq(S) /\ ToSet(Append(s, x)) = ToSet(s) \cup {x}
         /\ \A t \in Seq(S) : s \o t \in Seq(S) /\ ToSet(s \o t) = ToSet(s) \cup ToSet(t)
         /\ s # <<>> => /\ Head(s) \in ToSet(s) /\ Tail(s) \in Seq(S)
                        /\ ToSet(Tail(s)) \subseteq ToSet(s)
                        /\ ToSet(s) \subseteq ToSet(Tail(s)) \cup {Head(s)}
         /\ ToSet(<<>>) = {}
<1>1. ToSet(s) = {s[i] : i \in 1..Len(s)} /\ ToSet(s) \subseteq S /\ Len(s) \in Nat
  BY DEF ToSet
<1>2. ASSUME NEW x \in S
      PROVE  Append(s, x) \in Seq(S) /\ ToSet(Append(s, x)) = ToSet(s) \cup {x}
  <2> DEFINE a == Append(s, x)
  <2>1. /\ a \in Seq(S) /\ Len(a) = Len(s) + 1 /\ a[Len(s) + 1] = x
        /\ \A i \in 1..Len(s) : a[i] = s[i]
    OBVIOUS
  <2>2. ToSet(a) = {a[i] : i \in 1..Len(a)}
    BY <2>1 DEF ToSet
  <2> HIDE DEF a
  <2>3. a \in Seq(S) /\ ToSet(a) = ToSet(s) \cup {x}
    BY <1>1, <2>1, <2>2
  <2> QED
    BY <2>3 DEF a
<1>3. ASSUME NEW t \in Seq(S)
      PROVE  s \o t \in Seq(S) /\ ToSet(s \o t) = ToSet(s) \cup ToSet(t)
  <2> DEFINE c == s \o t
  <2>1. /\ c \in Seq(S) /\ Len(c) = Len(s) + Len(t) /\ Len(t) \in Nat
        /\ \A i \in 1..Len(s) : c[i] = s[i]
        /\ \A i \in 1..Len(t) : c[Len(s) + i] = t[i]
    OBVIOUS
  <2>2. ToSet(c) = {c[i] : i \in 1..Len(c)} /\ ToSet(t) = {t[i] : i \in 1..Len(t)}
    BY <2>1 DEF ToSet
  <2> HIDE DEF c
  <2>3. ASSUME NEW i \in 1..Len(c)
        PROVE  c[i] \in ToSet(s) \cup ToSet(t)
    <3>1. CASE i <= Len(s)
      BY <1>1, <2>1, <3>1
    <3>2. CASE i > Len(s)
      <4>1. i - Len(s) \in 1..Len(t) /\ i = Len(s) + (i - Len(s))
        BY <1>1, <2>1, <3>2
      <4> QED
        BY <2>1, <2>2, <4>1
    <3> QED
      BY <1>1, <2>1, <3>1, <3>2
  <2>4. ASSUME NEW i \in 1..Len(s)
        PROVE  s[i] \in ToSet(c)
    BY <1>1, <2>1, <2>2
  <2>5. ASSUME NEW i \in 1..Len(t)
        PROVE  t[i] \in ToSet(c)
    <3>1. Len(s) + i \in 1..Len(c)
      BY <1>1, <2>1
    <3> QED
      BY <2>1, <2>2, <3>1
  <2>6. c \in Seq(S) /\ ToSet(c) = ToSet(s) \cup ToSet(t)
    <3>1. ToSet(c) \subseteq ToSet(s) \cup ToSet(t)
      BY <2>2, <2>3
    <3>2. ToSet(s) \subseteq ToSet(c)
      BY <1>1, <2>4
    <3>3. ToSet(t) \subseteq ToSet(c)
      BY <2>2, <2>5
    <3> QED
      BY <2>1, <3>1, <3>2, <3>3
  <2> QED
    BY <2>6 DEF c
<1>4. ASSUME s # <<>>
      PROVE  /\ Head(s) \in ToSet(s) /\ Tail(s) \in Seq(S)
             /\ ToSet(Tail(s)) \subseteq ToSet(s)
             /\ ToSet(s) \subseteq ToSet(Tail(s)) \cup {Head(s)}
  <2> DEFINE t == Tail(s)
  <2>1. /\ t \in Seq(S) /\ Len(t) = Len(s) - 1 /\ Len(s) >= 1 /\ Head(s) = s[1]
        /\ \A i \in 1..Len(t) : t[i] = s[i + 1]
    BY <1>4
  <2> HIDE DEF t
  <2>2. ToSet(t) = {t[i] : i \in 1..Len(t)}
    BY <2>1 DEF ToSet
  <2>3. ASSUME NEW i \in 1..Len(s), i # 1
        PROVE  s[i] \in ToSet(t)
    <3>1. i - 1 \in 1..Len(t) /\ i = (i - 1) + 1
      BY <1>1, <2>1, <2>3
    <3> QED
      BY <2>1, <2>2, <3>1
  <2>4. ASSUME NEW i \in 1..Len(t)
        PROVE  t[i] \in ToSet(s)
    <3>1. i + 1 \in 1..Len(s)
      BY <1>1, <2>1
    <3> QED
      BY <1>1, <2>1, <3>1
  <2>5. \A i \in 1..Len(s) : s[i] \in ToSet(t) \cup {s[1]}
    BY <2>3
  <2>6. ToSet(s) \subseteq ToSet(t) \cup {s[1]}
    BY <1>1, <2>5
  <2>7. s[1] \in ToSet(s)
    BY <1>1, <2>1
  <2>8. ToSet(t) \subseteq ToSet(s)
    BY <2>2, <2>4
  <2> QED
    BY <2>1, <2>6, <2>7, <2>8 DEF t
<1>5. ToSet(<<>>) = {}
  BY DEF ToSet
<1> QED
  BY <1>1, <1>2, <1>3, <1>4, <1>5

-----------------------------------------------------------------------------
(* A node grows: it forgets only what may expire, and keeps its blocks. *)

Grew(n, nd, nd2) ==
  /\ nd.recent \subseteq nd2.recent \cup Forgotten[n]
  /\ ToSet(nd.blocks) \subseteq ToSet(nd2.blocks)

LEMMA HeardGrew ==
  ASSUME NEW n, NEW nd, NEW nd2, Grew(n, nd, nd2)
  PROVE  Noted(n, nd) \subseteq Noted(n, nd2) /\ Heard(n, nd) \subseteq Heard(n, nd2)
<1>1. Noted(n, nd) \subseteq Noted(n, nd2)
  BY DEF Grew, Noted
<1>2. Confirmed(nd) \subseteq Confirmed(nd2)
  BY DEF Grew, Confirmed
<1> QED
  BY <1>1, <1>2 DEF Grew, Heard

LEMMA MeantGrew ==
  ASSUME NEW m, NEW s, NEW ns, NEW ns2, NEW r, NEW nr, NEW nr2,
         Meant(m, s, ns, r, nr), Grew(s, ns, ns2), Grew(r, nr, nr2)
  PROVE  Meant(m, s, ns2, r, nr2)
<1>1. /\ Noted(s, ns) \subseteq Noted(s, ns2) /\ Heard(s, ns) \subseteq Heard(s, ns2)
      /\ Noted(r, nr) \subseteq Noted(r, nr2) /\ Heard(r, nr) \subseteq Heard(r, nr2)
      /\ ToSet(ns.blocks) \subseteq ToSet(ns2.blocks)
      /\ ToSet(nr.blocks) \subseteq ToSet(nr2.blocks)
  BY HeardGrew DEF Grew
<1> HIDE DEF Grew
<1> QED
  BY <1>1 DEF Meant

LEMMA GrewAll ==
  ASSUME NEW n, NEW nd
  PROVE  Grew(n, nd, nd)
  BY DEF Grew

-----------------------------------------------------------------------------
(* A turn of node n on a message from the source, so far: "due" is what is *)
(* in the pool and not noted yet, "said" the answers, "waiting" what is    *)
(* pending.                                                                *)

TurnState ==
  [n : Node, source : SUBSET End, node : NodeState, sock : [End -> SocketState],
   out : [End -> Seq(Message)]]

SoundNode(turn, n, due) ==
  /\ Grew(n, node[n], turn.node)
  /\ ToSet(turn.node.pool) \subseteq Noted(n, turn.node) \cup due

\* The far side of d has heard of the id, or is about to be told.
Learns(d, id, out) ==
  \/ id \in Heard(At(Far(d)), node[At(Far(d))])
  \/ sock[d].state = "open" /\ \E m \in ToSet(out[d]) : Mentions(m, id)

SoundSock(turn, n) ==
  \A d \in End :
    /\ turn.sock[d].state = sock[d].state
    /\ d \notin EndsOf(n) => turn.sock[d] = sock[d]
    /\ sock[d].state \in {"none", "dialing", "closed"} => turn.sock[d].knows = {}
    /\ \A id \in turn.sock[d].knows : id \in sock[d].knows \/ Learns(d, id, turn.out)

SoundOut(turn, n, source, said) ==
  \A d \in End : \A m \in ToSet(turn.out[d]) :
    /\ d \in EndsOf(n)
    /\ Meant(m, n, turn.node, At(Far(d)), node[At(Far(d))])
    /\ m.type \in {"tx-inv", "inv"} \/ (d \in source /\ m \in said)

Sound(turn, n, source, due, said, waiting) ==
  /\ turn \in TurnState /\ turn.n = n /\ turn.source = source /\ turn.node.pending = waiting
  /\ SoundNode(turn, n, due) /\ SoundSock(turn, n) /\ SoundOut(turn, n, source, said)

\* A source a turn may have.
Source(n, source) == \A e \in source : e \in EndsOf(n) /\ Connected(e)

LEMMA SoundStart ==
  ASSUME Base, NEW n \in Node, NEW source \in SUBSET End
  PROVE  Sound(Turn(n, source), n, source, {}, {}, node[n].pending)
<1> DEFINE turn == Turn(n, source)
<1>1. /\ turn.n = n /\ turn.source = source /\ turn.node = node[n] /\ turn.sock = sock
      /\ turn.out = [e \in End |-> <<>>]
  BY DEF Turn, Silence
<1>2. turn \in TurnState
  BY DEF Turn, Silence, TurnState, Base, TypeOK
<1> HIDE DEF turn
<1>3. SoundNode(turn, n, {})
  BY <1>1, GrewAll DEF SoundNode, Base, PoolNoted
<1>4. SoundSock(turn, n)
  BY <1>1, PairedEnds DEF SoundSock, Base
<1>5. SoundOut(turn, n, source, {})
  <2>1. \A d \in End : ToSet(turn.out[d]) = {}
    BY <1>1 DEF ToSet
  <2> QED
    BY <2>1 DEF SoundOut
<1> QED
  BY <1>1, <1>2, <1>3, <1>4, <1>5 DEF Sound, turn

\* Only the node's state changes, and it grows.
LEMMA SoundGrow ==
  ASSUME NEW turn, NEW n \in Node, NEW source, NEW due, NEW said, NEW waiting,
         Sound(turn, n, source, due, said, waiting),
         NEW nd \in NodeState, NEW due2, Grew(n, turn.node, nd),
         ToSet(nd.pool) \subseteq Noted(n, nd) \cup due2
  PROVE  Sound([turn EXCEPT !.node = nd], n, source, due2, said, nd.pending)
<1> DEFINE next == [turn EXCEPT !.node = nd]
<1>1. turn \in TurnState /\ turn.n = n /\ turn.source = source
  BY DEF Sound
<1>2. /\ next \in TurnState /\ next.n = n /\ next.source = source
      /\ next.node = nd /\ next.sock = turn.sock /\ next.out = turn.out
  BY <1>1 DEF TurnState
<1> HIDE DEF next
<1>3. SoundNode(next, n, due2)
  <2>1. Grew(n, node[n], nd)
    BY DEF Sound, SoundNode, Grew
  <2> QED
    BY <1>2, <2>1 DEF SoundNode
<1>4. SoundSock(next, n)
  BY <1>2 DEF Sound, SoundSock
<1>5. SoundOut(next, n, source, said)
  <2>1. SUFFICES ASSUME NEW d \in End, NEW m \in ToSet(turn.out[d])
                 PROVE  Meant(m, n, nd, At(Far(d)), node[At(Far(d))])
    BY <1>2 DEF Sound, SoundOut
  <2>2. Meant(m, n, turn.node, At(Far(d)), node[At(Far(d))])
    BY DEF Sound, SoundOut
  <2> QED
    BY <2>2, MeantGrew, GrewAll
<1> QED
  BY <1>2, <1>3, <1>4, <1>5 DEF Sound, next

LEMMA SoundRemembered ==
  ASSUME NEW turn, NEW n \in Node, NEW source, NEW due, NEW said, NEW waiting,
         Sound(turn, n, source, due, said, waiting), NEW ids \in SUBSET Id
  PROVE  /\ Sound(Remembered(turn, ids), n, source, due \ ids, said, waiting)
         /\ Remembered(turn, ids).node = [turn.node EXCEPT !.recent = @ \cup ids]
         /\ Remembered(turn, ids).sock = turn.sock
<1> DEFINE nd == [turn.node EXCEPT !.recent = @ \cup ids]
<1>1. turn \in TurnState /\ turn.node \in NodeState /\ turn.node.pending = waiting
  BY DEF Sound, TurnState
<1>2. /\ nd \in NodeState /\ nd.recent = turn.node.recent \cup ids /\ nd.blocks = turn.node.blocks
      /\ nd.pool = turn.node.pool /\ nd.pending = waiting
  BY <1>1 DEF NodeState
<1>3. Remembered(turn, ids) = [turn EXCEPT !.node = nd]
  BY <1>1 DEF Remembered, TurnState, NodeState
<1> HIDE DEF nd
<1>4. Grew(n, turn.node, nd)
  BY <1>2 DEF Grew
<1>5. ToSet(nd.pool) \subseteq Noted(n, nd) \cup (due \ ids)
  BY <1>2 DEF Sound, SoundNode, Noted
<1>6. Sound([turn EXCEPT !.node = nd], n, source, due \ ids, said, nd.pending)
  BY <1>2, <1>4, <1>5, SoundGrow
<1>7. [turn EXCEPT !.node = nd].node = nd /\ [turn EXCEPT !.node = nd].sock = turn.sock
  BY <1>1 DEF TurnState
<1> QED
  BY <1>2, <1>3, <1>6, <1>7 DEF nd

\* Ids a node may note that ends know.
Notable(n, ends, ids, out) ==
  /\ ends \subseteq EndsOf(n) /\ ids \subseteq Id
  /\ \A e \in ends : Connected(e) /\ \A id \in ids : Learns(e, id, out)

\* Ids are noted of ends whose far sides have heard of them, or are told.
LEMMA SoundKnown ==
  ASSUME Base, NEW turn, NEW n \in Node, NEW source, NEW due, NEW said, NEW waiting,
         Sound(turn, n, source, due, said, waiting),
         NEW ends, NEW ids, Notable(n, ends, ids, turn.out)
  PROVE  /\ Sound([turn EXCEPT !.sock = Known(@, ends, ids)], n, source, due, said, waiting)
         /\ [turn EXCEPT !.sock = Known(@, ends, ids)].node = turn.node
<1> DEFINE sk == Known(turn.sock, ends, ids)
           next == [turn EXCEPT !.sock = sk]
<1>1. turn \in TurnState /\ turn.sock \in [End -> SocketState]
  BY DEF Sound, TurnState
<1>0. /\ ends \subseteq EndsOf(n) /\ ids \subseteq Id
      /\ \A e \in ends : Connected(e) /\ \A id \in ids : Learns(e, id, turn.out)
  BY DEF Notable
<1>2. sk \in [End -> SocketState]
  BY <1>0, <1>1 DEF Known, SocketState
<1>3. \A d \in End : /\ sk[d].state = turn.sock[d].state
                     /\ d \notin ends => sk[d] = turn.sock[d]
                     /\ d \in ends => sk[d].knows = turn.sock[d].knows \cup ids
  BY <1>0, <1>1 DEF Known, SocketState
<1> HIDE DEF sk
<1>4. /\ next \in TurnState /\ next.n = turn.n /\ next.source = turn.source
      /\ next.node = turn.node /\ next.sock = sk /\ next.out = turn.out
  BY <1>1, <1>2 DEF TurnState
<1> HIDE DEF next
<1>5. SoundSock(next, n)
  <2>1. SUFFICES ASSUME NEW d \in End
                 PROVE  /\ sk[d].state = sock[d].state
                        /\ d \notin EndsOf(n) => sk[d] = sock[d]
                        /\ sock[d].state \in {"none", "dialing", "closed"} => sk[d].knows = {}
                        /\ \A id \in sk[d].knows : id \in sock[d].knows \/ Learns(d, id, turn.out)
    BY <1>4 DEF SoundSock
  <2>2. CASE d \in ends
    <3>1. sock[d].state \notin {"none", "dialing", "closed"}
      BY <1>0, <2>2 DEF Connected
    <3> QED
      BY <1>0, <1>3, <2>2, <3>1 DEF Sound, SoundSock
  <2>3. CASE d \notin ends
    BY <1>3, <2>3 DEF Sound, SoundSock
  <2> QED
    BY <2>2, <2>3
<1>6. SoundNode(next, n, due) /\ SoundOut(next, n, source, said)
  BY <1>4 DEF Sound, SoundNode, SoundOut
<1> QED
  BY <1>4, <1>5, <1>6 DEF Sound, next, sk

\* A message a node may send to a set of its ends.
Sayable(nd, n, source, ends, m, more) ==
  /\ ends \subseteq EndsOf(n) /\ m \in Message
  /\ \A e \in ends : Meant(m, n, nd, At(Far(e)), node[At(Far(e))])
  /\ m.type \in {"tx-inv", "inv"} \/ (ends \subseteq source /\ m \in more)

LEMMA SoundSaying ==
  ASSUME Base, NEW turn, NEW n \in Node, NEW source, NEW due, NEW said, NEW waiting,
         Sound(turn, n, source, due, said, waiting),
         NEW ends, NEW m, NEW more, Sayable(turn.node, n, source, ends, m, more)
  PROVE  /\ Sound(Saying(turn, ends, m), n, source, due, said \cup more, waiting)
         /\ Saying(turn, ends, m).node = turn.node
         /\ \A e \in ends : m \in ToSet(Saying(turn, ends, m).out[e])
<1> DEFINE out == [e \in End |-> IF e \in ends THEN Append(turn.out[e], m) ELSE turn.out[e]]
           next == [turn EXCEPT !.out = out]
<1>0. /\ ends \subseteq EndsOf(n) /\ m \in Message
      /\ \A e \in ends : Meant(m, n, turn.node, At(Far(e)), node[At(Far(e))])
      /\ m.type \in {"tx-inv", "inv"} \/ (ends \subseteq source /\ m \in more)
  BY DEF Sayable
<1>1. turn \in TurnState /\ turn.out \in [End -> Seq(Message)]
  BY DEF Sound, TurnState
<1>2. Saying(turn, ends, m) = next
  BY <1>1 DEF Saying, TurnState
<1>3. /\ out \in [End -> Seq(Message)]
      /\ \A d \in End : d \notin ends => out[d] = turn.out[d]
      /\ \A d \in End : d \in ends => ToSet(out[d]) = ToSet(turn.out[d]) \cup {m}
  BY <1>0, <1>1, Elements
<1> HIDE DEF out
<1>4. /\ next \in TurnState /\ next.n = turn.n /\ next.source = turn.source
      /\ next.node = turn.node /\ next.sock = turn.sock /\ next.out = out
  BY <1>1, <1>3 DEF TurnState
<1> HIDE DEF next
<1>5. ends \subseteq End
  BY <1>0 DEF EndsOf
<1>6. \A d \in End : ToSet(turn.out[d]) \subseteq ToSet(out[d])
  BY <1>3
<1>7. SoundSock(next, n)
  BY <1>4, <1>6 DEF Sound, SoundSock, Learns
<1>8. SoundNode(next, n, due)
  BY <1>4 DEF Sound, SoundNode
<1>9. SoundOut(next, n, source, said \cup more)
  <2>1. SUFFICES ASSUME NEW d \in End, NEW x \in ToSet(out[d])
                 PROVE  /\ d \in EndsOf(n)
                        /\ Meant(x, n, turn.node, At(Far(d)), node[At(Far(d))])
                        /\ \/ x.type \in {"tx-inv", "inv"}
                           \/ d \in source /\ x \in said \cup more
    BY <1>4 DEF SoundOut
  <2>2. CASE x \in ToSet(turn.out[d])
    BY <2>2 DEF Sound, SoundOut
  <2>3. CASE x \notin ToSet(turn.out[d])
    <3>1. d \in ends /\ x = m
      BY <1>3, <2>3
    <3> QED
      BY <1>0, <3>1
  <2> QED
    BY <2>2, <2>3
<1> QED
  BY <1>2, <1>3, <1>4, <1>5, <1>7, <1>8, <1>9 DEF Sound

LEMMA SoundKnowing ==
  ASSUME Base, NEW turn, NEW n \in Node, NEW source, NEW due, NEW said, NEW waiting,
         Sound(turn, n, source, due, said, waiting), Source(n, source),
         NEW ids \in SUBSET Id,
         \A e \in source : ids \subseteq Heard(At(Far(e)), node[At(Far(e))])
  PROVE  /\ Sound(Knowing(turn, ids), n, source, due, said, waiting)
         /\ Knowing(turn, ids).node = turn.node
<1>1. turn.source = source /\ source \subseteq EndsOf(n) /\ \A e \in source : Connected(e)
  BY DEF Sound, Source
<1>2. Knowing(turn, ids) = [turn EXCEPT !.sock = Known(@, source, ids)]
  BY <1>1 DEF Knowing
<1>3. Notable(n, source, ids, turn.out)
  BY <1>1 DEF Notable, Learns
<1> QED
  BY <1>1, <1>2, <1>3, SoundKnown

LEMMA SoundReply ==
  ASSUME Base, NEW turn, NEW n \in Node, NEW source, NEW due, NEW said, NEW waiting,
         Sound(turn, n, source, due, said, waiting), Source(n, source), NEW m \in Message,
         \A e \in source : Meant(m, n, turn.node, At(Far(e)), node[At(Far(e))])
  PROVE  /\ Sound(Reply(turn, m), n, source, due, said \cup {m}, waiting)
         /\ Reply(turn, m).node = turn.node
         /\ \A e \in source : m \in ToSet(Reply(turn, m).out[e])
<1>1. turn.source = source /\ source \subseteq EndsOf(n)
  BY DEF Sound, Source
<1>2. Reply(turn, m) = Saying(turn, source, m)
  BY <1>1 DEF Reply
<1>3. Sayable(turn.node, n, source, source, m, {m})
  BY <1>1 DEF Sayable
<1> DEFINE next == Saying(turn, source, m)
<1>4. /\ Sound(next, n, source, due, said \cup {m}, waiting)
      /\ next.node = turn.node /\ \A e \in source : m \in ToSet(next.out[e])
  BY <1>3, SoundSaying
<1> HIDE DEF next
<1> QED
  BY <1>2, <1>4 DEF next

\* What is announced is noted, and told to whom it is news.
Announceable(type, id) ==
  \/ type = "tx-inv" /\ id \in Transfer
  \/ type = "inv" /\ id \in Blk

LEMMA SoundAnnounced ==
  ASSUME Base, NEW turn, NEW n \in Node, NEW source, NEW due, NEW said, NEW waiting,
         Sound(turn, n, source, due, said, waiting),
         NEW type, NEW id, Announceable(type, id)
  PROVE  /\ Sound(Announced(turn, type, id), n, source, due \ {id}, said, waiting)
         /\ Announced(turn, type, id).node = [turn.node EXCEPT !.recent = @ \cup {id}]
<1> DEFINE ends == Uninformed(turn, id)
           m == [type |-> type, id |-> id]
           noted == Remembered(turn, {id})
           told == Saying(noted, ends, m)
           last == [told EXCEPT !.sock = Known(@, ends, {id})]
<1>1. {id} \in SUBSET Id /\ m \in Message /\ m.type = type /\ m.id = id
  BY NewMessage DEF Id, TransferType, BlockType, Announceable
<1>2. /\ Sound(noted, n, source, due \ {id}, said, waiting)
      /\ noted.node = [turn.node EXCEPT !.recent = @ \cup {id}]
  BY <1>1, SoundRemembered
<1>3. /\ turn \in TurnState /\ noted \in TurnState /\ turn.n = n
      /\ turn.sock \in [End -> SocketState] /\ turn.node \in NodeState
  BY <1>2 DEF Sound, TurnState
<1>4. ends \subseteq EndsOf(n) /\ \A e \in ends : turn.sock[e].state = "open"
  BY <1>3 DEF Uninformed
<1>5. \A e \in ends : sock[e].state = "open" /\ Connected(e)
  BY <1>4 DEF Sound, SoundSock, EndsOf, Connected
<1>6. Announced(turn, type, id) = last
  <2> DEFINE K == Known(noted.sock, ends, {id})
             O == [e \in End |-> IF e \in ends THEN Append(noted.out[e], m) ELSE noted.out[e]]
             both == [n |-> noted.n, source |-> noted.source, node |-> noted.node, sock |-> K, out |-> O]
  <2>1. Announced(turn, type, id) = Saying([noted EXCEPT !.sock = Known(@, ends, {id})], ends, m)
    BY DEF Announced
  <2>0. noted \in TurnState
    BY <1>3
  <2> HIDE DEF noted, m, ends
  <2>2. Saying([noted EXCEPT !.sock = Known(@, ends, {id})], ends, m) = both
    <3>1. [noted EXCEPT !.sock = Known(@, ends, {id})] = [noted EXCEPT !.sock = K]
      BY <1>3 DEF TurnState
    <3> DEFINE next == [noted EXCEPT !.sock = K]
    <3> HIDE DEF K
    <3>2. next = [n |-> noted.n, source |-> noted.source, node |-> noted.node, sock |-> K,
                  out |-> noted.out]
      BY <2>0 DEF TurnState
    <3> HIDE DEF next
    <3>3. Saying(next, ends, m) = [next EXCEPT !.out = O]
      BY <3>2 DEF Saying
    <3> HIDE DEF O
    <3>4. [next EXCEPT !.out = O] = both
      BY <3>2
    <3> QED
      BY <3>1, <3>3, <3>4 DEF next
  <2>3. last = both
    <3>1. told = [noted EXCEPT !.out = O]
      BY <1>3 DEF Saying, TurnState
    <3> HIDE DEF O
    <3>2. told = [n |-> noted.n, source |-> noted.source, node |-> noted.node,
                  sock |-> noted.sock, out |-> O]
      BY <1>3, <3>1 DEF TurnState
    <3> HIDE DEF told
    <3>3. last = [told EXCEPT !.sock = K]
      BY <3>2
    <3> HIDE DEF K
    <3> QED
      BY <3>2, <3>3
  <2> QED
    BY <2>1, <2>2, <2>3
<1>7. id \in Noted(n, noted.node)
  BY <1>2, <1>3 DEF Noted, NodeState
<1>8. \A e \in ends : Meant(m, n, noted.node, At(Far(e)), node[At(Far(e))])
  BY <1>1, <1>7 DEF Meant, Heard, Announceable
<1> HIDE DEF ends, m, noted
<1>8a. Sayable(noted.node, n, source, ends, m, {}) /\ said \cup {} = said
  BY <1>1, <1>4, <1>8 DEF Sayable, Announceable
<1>9. /\ Sound(told, n, source, due \ {id}, said \cup {}, waiting)
      /\ told.node = noted.node /\ \A e \in ends : m \in ToSet(told.out[e])
  BY <1>2, <1>8a, SoundSaying
<1> HIDE DEF told
<1>10. Mentions(m, id)
  BY <1>1, MentionsId DEF IdType, TransferType, BlockType, Announceable
<1>11. Notable(n, ends, {id}, told.out)
  BY <1>1, <1>4, <1>5, <1>9, <1>10 DEF Notable, Learns
<1>12. Sound(told, n, source, due \ {id}, said, waiting)
  BY <1>9, <1>8a
<1>13. Sound(last, n, source, due \ {id}, said, waiting) /\ last.node = told.node
  BY <1>11, <1>12, SoundKnown
<1> QED
  BY <1>2, <1>6, <1>9, <1>13

\* A transfer is accepted and announced, or nothing happens.
LEMMA SoundOffered ==
  ASSUME Base, NEW turn, NEW n \in Node, NEW source, NEW said, NEW waiting,
         Sound(turn, n, source, {}, said, waiting), Source(n, source), NEW t \in Transfer,
         \A e \in source : t \in Heard(At(Far(e)), node[At(Far(e))])
  PROVE  /\ Sound(Offered(turn, t), n, source, {}, said, waiting)
         /\ Grew(n, turn.node, Offered(turn, t).node)
<1>1. CASE ~ Accepts(turn.node, t)
  BY <1>1, GrewAll DEF Offered
<1>2. CASE Accepts(turn.node, t)
  <2> DEFINE nd == [turn.node EXCEPT !.pool = Append(@, t)]
             pooled == [turn EXCEPT !.node = nd]
             known == Knowing(pooled, {t})
             last == Announced(known, "tx-inv", t)
  <2>1. turn \in TurnState /\ turn.node \in NodeState /\ turn.node.pending = waiting
    BY DEF Sound, TurnState
  <2>2. Offered(turn, t) = last
    <3>1. [turn EXCEPT !.node.pool = Append(@, t)] = pooled
      BY <2>1 DEF TurnState, NodeState
    <3> QED
      BY <1>2, <3>1 DEF Offered
  <2>3. /\ nd \in NodeState /\ nd.recent = turn.node.recent /\ nd.blocks = turn.node.blocks
        /\ nd.pending = waiting /\ ToSet(nd.pool) = ToSet(turn.node.pool) \cup {t}
    <3>1. turn.node.pool \in Seq(Transfer)
      BY <2>1 DEF NodeState
    <3>2. /\ Append(turn.node.pool, t) \in Seq(Transfer)
          /\ ToSet(Append(turn.node.pool, t)) = ToSet(turn.node.pool) \cup {t}
      BY <3>1, Elements
    <3> DEFINE q == Append(turn.node.pool, t)
    <3> HIDE DEF q
    <3>3. nd = [turn.node EXCEPT !.pool = q]
      BY <2>1 DEF q, NodeState
    <3> HIDE DEF nd
    <3>4. q \in Seq(Transfer) /\ ToSet(q) = ToSet(turn.node.pool) \cup {t}
      BY <3>2 DEF q
    <3> QED
      BY <2>1, <3>3, <3>4 DEF NodeState
  <2> HIDE DEF nd
  <2>4. Grew(n, turn.node, nd) /\ ToSet(nd.pool) \subseteq Noted(n, nd) \cup {t}
    BY <2>3 DEF Grew, Sound, SoundNode, Noted
  <2>5. Sound(pooled, n, source, {t}, said, nd.pending) /\ pooled.node = nd
    BY <2>1, <2>3, <2>4, SoundGrow DEF TurnState
  <2> HIDE DEF pooled
  <2>6. {t} \in SUBSET Id
    BY DEF Id
  <2>7. \A e \in source : {t} \subseteq Heard(At(Far(e)), node[At(Far(e))])
    OBVIOUS
  <2>8. Sound(known, n, source, {t}, said, waiting) /\ known.node = nd
    BY <2>3, <2>5, <2>6, <2>7, SoundKnowing
  <2> HIDE DEF known
  <2>9. /\ Sound(last, n, source, {t} \ {t}, said, waiting)
        /\ last.node = [nd EXCEPT !.recent = @ \cup {t}]
    <3>1. Announceable("tx-inv", t)
      BY DEF Announceable
    <3> QED
      BY <2>8, <3>1, SoundAnnounced
  <2>10. {t} \ {t} = {}
    OBVIOUS
  <2>11. Grew(n, turn.node, [nd EXCEPT !.recent = @ \cup {t}])
    BY <2>3 DEF Grew, NodeState
  <2> QED
    BY <2>2, <2>9, <2>10, <2>11
<1> QED
  BY <1>1, <1>2

LEMMA SoundReceived ==
  ASSUME Base, NEW turn, NEW n \in Node, NEW source, NEW said, NEW waiting,
         Sound(turn, n, source, {}, said, waiting), Source(n, source), NEW t \in Transfer,
         \A e \in source : t \in Heard(At(Far(e)), node[At(Far(e))])
  PROVE  /\ Sound(Received(turn, t), n, source, {}, said, waiting)
         /\ Grew(n, turn.node, Received(turn, t).node)
<1> DEFINE known == Knowing(turn, {t})
<1>1. {t} \in SUBSET Id /\ \A e \in source : {t} \subseteq Heard(At(Far(e)), node[At(Far(e))])
  BY DEF Id
<1>2. Sound(known, n, source, {}, said, waiting) /\ known.node = turn.node
  BY <1>1, SoundKnowing
<1> HIDE DEF known
<1>3. /\ Sound(Offered(known, t), n, source, {}, said, waiting)
      /\ Grew(n, known.node, Offered(known, t).node)
  BY <1>2, SoundOffered
<1> QED
  BY <1>2, <1>3 DEF Received, known

\* The loop over a peer's pool.
Receiving == INSTANCE Folding WITH op <- Received

ReceivingTrace(r, turn, txs) ==
  /\ r[0] = turn /\ r[Len(txs)] = Receiving!Fold(turn, txs)
  /\ \A k \in Nat : k < Len(txs) => \E x \in ToSet(txs) : r[k + 1] = Received(r[k], x)

LEMMA ReceivingSteps ==
  ASSUME NEW turn, NEW S, NEW txs \in Seq(S)
  PROVE  \E r : ReceivingTrace(r, turn, txs)
<1>1. txs \in Seq(ToSet(txs))
  BY DEF ToSet
<1> QED
  BY <1>1, Receiving!FoldSteps DEF ReceivingTrace

LEMMA SoundReceivedAll ==
  ASSUME Base, NEW turn, NEW n \in Node, NEW source, NEW said, NEW waiting,
         Sound(turn, n, source, {}, said, waiting), Source(n, source),
         NEW txs \in Seq(Transfer),
         \A e \in source : ToSet(txs) \subseteq Heard(At(Far(e)), node[At(Far(e))])
  PROVE  /\ Sound(FoldLeft(Received, turn, txs), n, source, {}, said, waiting)
         /\ Grew(n, turn.node, FoldLeft(Received, turn, txs).node)
<1> DEFINE last == FoldLeft(Received, turn, txs)
           steps == Len(txs)
<1>1. last = Receiving!Fold(turn, txs)
  BY DEF Receiving!Fold, Receiving!MapThenFoldSet, Receiving!Max, Max,
         FoldLeft, MapThenFoldSet
<1>2. steps \in Nat /\ txs \in Seq(ToSet(txs)) /\ ToSet(txs) \subseteq Transfer
  BY DEF ToSet
<1> HIDE DEF last
<1>3. PICK r : /\ r[0] = turn /\ r[steps] = Receiving!Fold(turn, txs)
               /\ \A k \in Nat : k < steps => \E x \in ToSet(txs) : r[k + 1] = Received(r[k], x)
  <2>1. \E r : ReceivingTrace(r, turn, txs)
    BY ReceivingSteps
  <2> QED
    BY <2>1 DEF ReceivingTrace
<1> HIDE DEF steps
<1> DEFINE K == {k \in Nat : k <= steps => /\ Sound(r[k], n, source, {}, said, waiting)
                                          /\ Grew(n, turn.node, r[k].node)}
<1>4. 0 \in K
  BY <1>3, GrewAll
<1>5. ASSUME NEW k \in Nat, k \in K
      PROVE  k + 1 \in K
  <2>1. SUFFICES ASSUME k + 1 <= steps
                 PROVE  /\ Sound(r[k + 1], n, source, {}, said, waiting)
                        /\ Grew(n, turn.node, r[k + 1].node)
    OBVIOUS
  <2>2. k < steps /\ k <= steps
    BY <1>2, <2>1
  <2>3. Sound(r[k], n, source, {}, said, waiting) /\ Grew(n, turn.node, r[k].node)
    BY <1>5, <2>2
  <2>4. PICK x \in ToSet(txs) : r[k + 1] = Received(r[k], x)
    BY <1>3, <2>2
  <2>5. x \in Transfer /\ \A e \in source : x \in Heard(At(Far(e)), node[At(Far(e))])
    BY <1>2, <2>4
  <2>6. /\ Sound(Received(r[k], x), n, source, {}, said, waiting)
        /\ Grew(n, r[k].node, Received(r[k], x).node)
    BY <2>3, <2>5, SoundReceived
  <2>7. Grew(n, turn.node, Received(r[k], x).node)
    BY <2>3, <2>6 DEF Grew
  <2> QED
    BY <2>4, <2>6, <2>7
<1> HIDE DEF K
<1>6. Nat \subseteq K
  BY <1>4, <1>5, Receiving!NatSet
<1> QED
  BY <1>1, <1>2, <1>3, <1>6 DEF K, last

-----------------------------------------------------------------------------
(* The end of a turn. *)

Effect(n, w, turn) ==
  node' = [node EXCEPT ![n] = turn.node] /\ sock' = turn.sock /\ wire' = Sent(w, turn.out)

\* What is left of the messages when node n, then nd, has taken some.
Left(w, n, nd) ==
  /\ w \in [End -> Seq(Message)]
  /\ \A d \in End :
       /\ ToSet(w[d]) \subseteq ToSet(wire[d])
       /\ \A m \in ToSet(wire[d]) :
            m \in ToSet(w[d]) \/ (d \in EndsOf(n) /\ \A id : Mentions(m, id) => id \in Heard(n, nd))

LEMMA Delivered ==
  ASSUME TypeOK, Paired, NEW w \in [End -> Seq(Message)], NEW out \in [End -> Seq(Message)]
  PROVE  /\ Sent(w, out) \in [End -> Seq(Message)]
         /\ \A d \in End :
              /\ ToSet(w[d]) \subseteq ToSet(Sent(w, out)[d])
              /\ ToSet(Sent(w, out)[d]) \subseteq ToSet(w[d]) \cup ToSet(out[Far(d)])
              /\ sock[Far(d)].state = "open" => ToSet(out[Far(d)]) \subseteq ToSet(Sent(w, out)[d])
<1> DEFINE s == Sent(w, out)
<1>1. \A d \in End : /\ Far(d) \in End /\ w[d] \in Seq(Message) /\ out[Far(d)] \in Seq(Message)
                     /\ w[d] \o out[Far(d)] \in Seq(Message)
                     /\ ToSet(w[d] \o out[Far(d)]) = ToSet(w[d]) \cup ToSet(out[Far(d)])
  BY Ends, Elements
<1>2. \A d \in End : s[d] = IF sock[Far(d)].state = "open" /\ sock[d].state # "closed"
                            THEN w[d] \o out[Far(d)] ELSE w[d]
  BY DEF Sent
<1>3. s \in [End -> Seq(Message)]
  <2>1. s = [d \in End |-> IF sock[Far(d)].state = "open" /\ sock[d].state # "closed"
                           THEN w[d] \o out[Far(d)] ELSE w[d]]
    BY DEF Sent
  <2> HIDE DEF s
  <2> QED
    BY <1>1, <2>1
<1>4. \A d \in End : sock[Far(d)].state = "open" => sock[d].state # "closed"
  <2>1. SUFFICES ASSUME NEW d \in End, sock[Far(d)].state = "open"
                 PROVE  sock[d].state # "closed"
    OBVIOUS
  <2>2. Far(d) \in End /\ Far(Far(d)) = d
    BY Ends
  <2>3. sock[Far(Far(d))].state \in {"open", "dialing"}
    BY <2>1, <2>2, PairedEnds
  <2> QED
    BY <2>2, <2>3
<1> HIDE DEF s
<1>5. \A d \in End : /\ ToSet(w[d]) \subseteq ToSet(s[d])
                     /\ ToSet(s[d]) \subseteq ToSet(w[d]) \cup ToSet(out[Far(d)])
                     /\ sock[Far(d)].state = "open" => ToSet(out[Far(d)]) \subseteq ToSet(s[d])
  BY <1>1, <1>2, <1>4
<1> QED
  BY <1>3, <1>5 DEF s

\* A sound turn leaves the network in order.
LEMMA BaseStep ==
  ASSUME Base, NEW turn, NEW n \in Node, NEW source, NEW said, NEW waiting,
         Sound(turn, n, source, {}, said, waiting),
         NEW w, Left(w, n, turn.node), Effect(n, w, turn)
  PROVE  Base'
<1>1. /\ turn \in TurnState /\ turn.node \in NodeState /\ turn.sock \in [End -> SocketState]
      /\ turn.out \in [End -> Seq(Message)]
  BY DEF Sound, TurnState
<1>2. w \in [End -> Seq(Message)]
  BY DEF Left
<1>3. /\ node' \in [Node -> NodeState] /\ node'[n] = turn.node
      /\ \A k \in Node : k # n => node'[k] = node[k]
  BY <1>1 DEF Effect, Base, TypeOK
<1>4. sock' = turn.sock
  BY DEF Effect
<1>5. /\ wire' \in [End -> Seq(Message)]
      /\ \A d \in End :
           /\ ToSet(w[d]) \subseteq ToSet(wire'[d])
           /\ ToSet(wire'[d]) \subseteq ToSet(w[d]) \cup ToSet(turn.out[Far(d)])
           /\ sock[Far(d)].state = "open" => ToSet(turn.out[Far(d)]) \subseteq ToSet(wire'[d])
  <2>1. wire' = Sent(w, turn.out) /\ TypeOK /\ Paired
    BY DEF Effect, Base
  <2> DEFINE out == turn.out
  <2>2. out \in [End -> Seq(Message)]
    BY <1>1
  <2> HIDE DEF out
  <2>3. /\ Sent(w, out) \in [End -> Seq(Message)]
        /\ \A d \in End :
             /\ ToSet(w[d]) \subseteq ToSet(Sent(w, out)[d])
             /\ ToSet(Sent(w, out)[d]) \subseteq ToSet(w[d]) \cup ToSet(out[Far(d)])
             /\ sock[Far(d)].state = "open" => ToSet(out[Far(d)]) \subseteq ToSet(Sent(w, out)[d])
    BY <1>2, <2>1, <2>2, Delivered
  <2> QED
    BY <2>1, <2>3 DEF out
<1>6. TypeOK'
  BY <1>1, <1>3, <1>4, <1>5 DEF TypeOK
<1>7. Paired'
  <2>1. SUFFICES ASSUME NEW l \in Link
                 PROVE  /\ sock'[Out(l)].state = sock[Out(l)].state
                        /\ sock'[In(l)].state = sock[In(l)].state
                        /\ \A e \in {Out(l), In(l)} :
                             sock'[e].state \in {"none", "dialing", "closed"} => sock'[e].knows = {}
    BY DEF Paired, Matched, Fit, Base
  <2>2. Out(l) \in End /\ In(l) \in End
    BY LinkEnds
  <2> QED
    BY <1>4, <2>2 DEF Sound, SoundSock
<1>8. \A k \in Node : Grew(k, node[k], node'[k])
  <2>1. Grew(n, node[n], node'[n])
    BY <1>3 DEF Sound, SoundNode
  <2> QED
    BY <1>3, <2>1, GrewAll
<1>9. PoolNoted'
  <2>1. ToSet(turn.node.pool) \subseteq Noted(n, turn.node)
    BY DEF Sound, SoundNode
  <2> QED
    BY <1>3, <2>1 DEF PoolNoted, Base
<1>10. AllMeant'
  <2>1. SUFFICES ASSUME NEW e \in End, NEW m \in ToSet(wire'[e])
                 PROVE  Meant(m, At(Far(e)), node'[At(Far(e))], At(e), node'[At(e)])
    BY DEF AllMeant
  <2>2. /\ Far(e) \in End /\ Far(Far(e)) = e /\ At(e) \in Node /\ At(Far(e)) \in Node
        /\ At(Far(e)) # At(e)
    BY Ends
  <2>3. \/ Meant(m, At(Far(e)), node[At(Far(e))], At(e), node[At(e)])
        \/ Meant(m, At(Far(e)), node'[At(Far(e))], At(e), node[At(e)])
    <3>1. CASE m \in ToSet(w[e])
      BY <3>1 DEF Left, Base, AllMeant
    <3>2. CASE m \in ToSet(turn.out[Far(e)])
      <4>1. Far(e) \in EndsOf(n) /\ Meant(m, n, turn.node, At(e), node[At(e)])
        BY <2>2, <3>2 DEF Sound, SoundOut
      <4>2. At(Far(e)) = n
        BY <4>1 DEF EndsOf
      <4> QED
        BY <1>3, <4>1, <4>2
    <3> QED
      BY <1>5, <3>1, <3>2
  <2>4. Grew(At(Far(e)), node[At(Far(e))], node'[At(Far(e))]) /\ Grew(At(e), node[At(e)], node'[At(e)])
    BY <1>8, <2>2
  <2>5. Grew(At(Far(e)), node'[At(Far(e))], node'[At(Far(e))])
    BY GrewAll
  <2> QED
    BY <2>3, <2>4, <2>5, MeantGrew
<1>11. KnowsHeard'
  <2>1. SUFFICES ASSUME NEW e \in End, NEW id \in sock'[e].knows
                 PROVE  \/ id \in Heard(At(Far(e)), node'[At(Far(e))])
                        \/ \E m \in ToSet(wire'[Far(e)]) : Mentions(m, id)
                        \/ sock'[e].state = "closing"
    BY DEF KnowsHeard
  <2>2. Far(e) \in End /\ Far(Far(e)) = e /\ At(Far(e)) \in Node
    BY Ends
  <2>3. Heard(At(Far(e)), node[At(Far(e))]) \subseteq Heard(At(Far(e)), node'[At(Far(e))])
    BY <1>8, <2>2, HeardGrew
  <2>4. sock'[e].state = sock[e].state
    BY <1>4 DEF Sound, SoundSock
  <2>5. \/ id \in sock[e].knows
        \/ id \in Heard(At(Far(e)), node[At(Far(e))])
        \/ sock[e].state = "open" /\ \E m \in ToSet(turn.out[e]) : Mentions(m, id)
    BY <1>4 DEF Sound, SoundSock, Learns
  <2>6. CASE \E m \in ToSet(wire[Far(e)]) : Mentions(m, id)
    <3>1. PICK m \in ToSet(wire[Far(e)]) : Mentions(m, id)
      BY <2>6
    <3>2. CASE m \in ToSet(w[Far(e)])
      BY <1>5, <2>2, <3>1, <3>2
    <3>3. CASE Far(e) \in EndsOf(n) /\ id \in Heard(n, turn.node)
      <4>1. At(Far(e)) = n
        BY <3>3 DEF EndsOf
      <4> QED
        BY <1>3, <3>3, <4>1
    <3> QED
      BY <2>2, <3>1, <3>2, <3>3 DEF Left
  <2>7. CASE id \in sock[e].knows
    BY <2>3, <2>4, <2>6, <2>7 DEF Base, KnowsHeard
  <2>8. CASE sock[e].state = "open" /\ \E m \in ToSet(turn.out[e]) : Mentions(m, id)
    BY <1>5, <2>2, <2>8
  <2> QED
    BY <2>3, <2>5, <2>7, <2>8
<1> QED
  BY <1>6, <1>7, <1>9, <1>10, <1>11 DEF Base

-----------------------------------------------------------------------------
(* What is under way. *)

LEMMA UnderWayStep ==
  ASSUME Base, NEW turn, NEW n \in Node, NEW source, NEW said, NEW waiting,
         Sound(turn, n, source, {}, said, waiting),
         NEW w, Left(w, n, turn.node), Effect(n, w, turn)
  PROVE  /\ wire' \in [End -> Seq(Message)]
         /\ \A d \in End :
              /\ ToSet(w[d]) \subseteq ToSet(wire'[d])
              /\ ToSet(wire'[d]) \subseteq ToSet(wire[d]) \cup ToSet(turn.out[Far(d)])
              /\ sock[Far(d)].state = "open" => ToSet(turn.out[Far(d)]) \subseteq ToSet(wire'[d])
<1> DEFINE out == turn.out
<1>1. out \in [End -> Seq(Message)] /\ w \in [End -> Seq(Message)] /\ TypeOK /\ Paired
  BY DEF Sound, TurnState, Left, Base
<1>2. wire' = Sent(w, out) /\ \A d \in End : ToSet(w[d]) \subseteq ToSet(wire[d])
  BY DEF Effect, Left
<1> HIDE DEF out
<1>3. /\ Sent(w, out) \in [End -> Seq(Message)]
      /\ \A d \in End :
           /\ ToSet(w[d]) \subseteq ToSet(Sent(w, out)[d])
           /\ ToSet(Sent(w, out)[d]) \subseteq ToSet(w[d]) \cup ToSet(out[Far(d)])
           /\ sock[Far(d)].state = "open" => ToSet(out[Far(d)]) \subseteq ToSet(Sent(w, out)[d])
  BY <1>1, Delivered
<1>4. /\ wire' \in [End -> Seq(Message)]
      /\ \A d \in End :
           /\ ToSet(w[d]) \subseteq ToSet(wire'[d])
           /\ ToSet(wire'[d]) \subseteq ToSet(wire[d]) \cup ToSet(out[Far(d)])
           /\ sock[Far(d)].state = "open" => ToSet(out[Far(d)]) \subseteq ToSet(wire'[d])
  BY <1>2, <1>3
<1> QED
  BY <1>4 DEF out

LEMMA FetchedNoted ==
  ASSUME Base, NEW d \in End, NEW id, Fetching(d, id)
  PROVE  id \in Noted(At(d), node[At(d)])
<1>1. Far(d) \in End /\ Far(Far(d)) = d
  BY Ends
<1>2. CASE UnderWay(Far(d), {"tx-get", "get"}, id)
  <2>1. PICK m \in ToSet(wire[Far(d)]) : m.type \in {"tx-get", "get"} /\ Mentions(m, id)
    BY <1>2 DEF UnderWay
  <2>2. Meant(m, At(d), node[At(d)], At(Far(d)), node[At(Far(d))])
    BY <1>1, <2>1 DEF Base, AllMeant
  <2> QED
    BY <2>1, <2>2 DEF Meant, Mentions
<1>3. CASE UnderWay(d, {"tx-batch", "compact"}, id)
  <2>1. PICK m \in ToSet(wire[d]) : m.type \in {"tx-batch", "compact"} /\ Mentions(m, id)
    BY <1>3 DEF UnderWay
  <2>2. Meant(m, At(Far(d)), node[At(Far(d))], At(d), node[At(d)])
    BY <2>1 DEF Base, AllMeant
  <2> QED
    BY <2>1, <2>2 DEF Meant, Mentions
<1> QED
  BY <1>2, <1>3 DEF Fetching

\* An answer a node may give: a request it has not made yet, what it was asked
\* for, or neither request nor answer.
Fair(m, n, source) ==
  \/ m.type \notin {"tx-get", "get", "tx-batch", "compact"}
  \/ m.type \in {"tx-get", "get"} /\ m.id \notin node[n].recent
  \/ m.type \in {"tx-batch", "compact"} /\ \A e \in source : Fetching(Far(e), m.id)

LEMMA AskedStep ==
  ASSUME Base, AskedOnce, NEW turn, NEW n \in Node, NEW source, NEW said, NEW waiting,
         Sound(turn, n, source, {}, said, waiting), Source(n, source),
         \A d, e \in source : d = e, \A m \in said : Fair(m, n, source),
         NEW w, Left(w, n, turn.node), Effect(n, w, turn)
  PROVE  AskedOnce'
<1>1. \A d \in End : ToSet(wire'[d]) \subseteq ToSet(wire[d]) \cup ToSet(turn.out[Far(d)])
  BY UnderWayStep
<1>2. \A d \in source : d \in End /\ At(d) = n
  BY DEF Source, EndsOf
<1>3. ASSUME NEW d \in End, NEW id, Fetching(d, id)'
      PROVE  Fetching(d, id) \/ (d \in source /\ id \notin node[n].recent)
  <2>1. Far(d) \in End /\ Far(Far(d)) = d
    BY Ends
  <2>2. CASE \E m \in ToSet(wire'[Far(d)]) : m.type \in {"tx-get", "get"} /\ Mentions(m, id)
    <3>1. PICK m \in ToSet(wire'[Far(d)]) : m.type \in {"tx-get", "get"} /\ Mentions(m, id)
      BY <2>2
    <3>2. CASE m \in ToSet(wire[Far(d)])
      BY <3>1, <3>2 DEF Fetching, UnderWay
    <3>3. CASE m \in ToSet(turn.out[d])
      <4>1. d \in source /\ m \in said
        BY <3>1, <3>3 DEF Sound, SoundOut
      <4>2. m.id = id /\ Fair(m, n, source)
        BY <3>1, <4>1 DEF Mentions
      <4> QED
        BY <3>1, <4>1, <4>2 DEF Fair
    <3> QED
      BY <1>1, <2>1, <3>1, <3>2, <3>3
  <2>3. CASE \E m \in ToSet(wire'[d]) : m.type \in {"tx-batch", "compact"} /\ Mentions(m, id)
    <3>1. PICK m \in ToSet(wire'[d]) : m.type \in {"tx-batch", "compact"} /\ Mentions(m, id)
      BY <2>3
    <3>2. CASE m \in ToSet(wire[d])
      BY <3>1, <3>2 DEF Fetching, UnderWay
    <3>3. CASE m \in ToSet(turn.out[Far(d)])
      <4>1. Far(d) \in source /\ m \in said
        BY <2>1, <3>1, <3>3 DEF Sound, SoundOut
      <4>2. m.id = id /\ Fair(m, n, source)
        BY <3>1, <4>1 DEF Mentions
      <4> QED
        BY <2>1, <3>1, <4>1, <4>2 DEF Fair
    <3> QED
      BY <1>1, <3>1, <3>2, <3>3
  <2> QED
    BY <1>3, <2>2, <2>3 DEF Fetching, UnderWay
<1>4. SUFFICES ASSUME NEW k \in Node, NEW id \in (Transfer \cup Blk) \ Forgotten[k],
                      NEW d \in EndsOf(k), NEW e \in EndsOf(k), Fetching(d, id)', Fetching(e, id)'
               PROVE  d = e
  BY DEF AskedOnce, EndsOf
<1>5. d \in End /\ e \in End /\ At(d) = k /\ At(e) = k
  BY DEF EndsOf
<1>6. \A x \in {d, e} : Fetching(x, id) => id \in node[k].recent
  BY <1>5, FetchedNoted DEF Noted
<1>7. \A x \in {d, e} : Fetching(x, id) \/ (x \in source /\ id \notin node[n].recent)
  BY <1>3, <1>4, <1>5
<1>8. \A x \in {d, e} : x \in source => k = n
  BY <1>2, <1>5
<1>9. CASE Fetching(d, id) /\ Fetching(e, id)
  BY <1>4, <1>9 DEF AskedOnce
<1>10. CASE d \in source /\ e \in source
  BY <1>10
<1> QED
  BY <1>6, <1>7, <1>8, <1>9, <1>10

-----------------------------------------------------------------------------
(* What is waited for. *)

Waited == AskedComes /\ PendingAnswered

LEMMA BrokenStays ==
  ASSUME NEW k, \A d \in End : sock'[d].state = sock[d].state, HasBroken(k)
  PROVE  HasBroken(k)'
  BY DEF HasBroken, EndsOf

\* A node with a connection that is closing has one that broke; so has its far side.
LEMMA ClosingBroken ==
  ASSUME Base, NEW e \in End, sock[e].state = "closing"
  PROVE  HasBroken(At(e)) /\ HasBroken(At(Far(e)))
<1>1. /\ sock[Far(e)].state \in {"closing", "closed"} /\ e[1] \in Fragile
      /\ Far(e) \in End /\ Far(e)[1] = e[1]
  BY PairedEnds, Ends DEF Base
<1> QED
  BY <1>1 DEF HasBroken, EndsOf

\* Every message is still under way but m, on its way to d.
Keeps(m, d) ==
  \A x \in End : \A y \in ToSet(wire[x]) : y \in ToSet(wire'[x]) \/ (y = m /\ x = d)

LEMMA ComesKept ==
  ASSUME NEW k, NEW b, NEW m, NEW e, Keeps(m, e), Comes(k, b),
         \/ m.type \notin {"block-txs", "block", "block-tx-get", "full-get"}
         \/ m.type \in {"block-txs", "block"} /\ (At(e) # k \/ m.id # b)
         \/ m.type \in {"block-tx-get", "full-get"} /\ (At(Far(e)) # k \/ m.id # b)
  PROVE  Comes(k, b)'
<1>1. PICK d \in EndsOf(k) : \/ UnderWay(d, {"block-txs", "block"}, b)
                             \/ UnderWay(Far(d), {"block-tx-get", "full-get"}, b)
  BY DEF Comes
<1>2. d \in End /\ At(d) = k /\ Far(d) \in End /\ Far(Far(d)) = d
  BY <1>1, Ends DEF EndsOf
<1>3. CASE UnderWay(d, {"block-txs", "block"}, b)
  <2>1. PICK x \in ToSet(wire[d]) : x.type \in {"block-txs", "block"} /\ Mentions(x, b)
    BY <1>3 DEF UnderWay
  <2>2. x \in ToSet(wire'[d])
    BY <1>2, <2>1 DEF Keeps, Mentions
  <2> QED
    BY <1>2, <2>1, <2>2 DEF Comes, UnderWay, EndsOf
<1>4. CASE UnderWay(Far(d), {"block-tx-get", "full-get"}, b)
  <2>1. PICK x \in ToSet(wire[Far(d)]) : x.type \in {"block-tx-get", "full-get"} /\ Mentions(x, b)
    BY <1>4 DEF UnderWay
  <2>2. x \in ToSet(wire'[Far(d)])
    BY <1>2, <2>1 DEF Keeps, Mentions
  <2> QED
    BY <1>2, <2>1, <2>2 DEF Comes, UnderWay, EndsOf
<1> QED
  BY <1>1, <1>3, <1>4

LEMMA CarriesKept ==
  ASSUME NEW k, NEW b, NEW t, NEW m, NEW e, Keeps(m, e), Carries(k, b, t),
         \/ m.type \notin {"block-txs", "block-tx-get"}
         \/ m.type = "block-txs" /\ (At(e) # k \/ m.id # b \/ t \notin m.txs)
         \/ m.type = "block-tx-get" /\ (At(Far(e)) # k \/ m.id # b \/ t \notin m.txs)
  PROVE  Carries(k, b, t)'
<1>1. PICK d \in EndsOf(k) :
        \/ \E x \in ToSet(wire[d]) : x.type = "block-txs" /\ x.id = b /\ t \in x.txs
        \/ \E x \in ToSet(wire[Far(d)]) : x.type = "block-tx-get" /\ x.id = b /\ t \in x.txs
  BY DEF Carries
<1>2. d \in End /\ At(d) = k /\ Far(d) \in End /\ Far(Far(d)) = d
  BY <1>1, Ends DEF EndsOf
<1>3. CASE \E x \in ToSet(wire[d]) : x.type = "block-txs" /\ x.id = b /\ t \in x.txs
  <2>1. PICK x \in ToSet(wire[d]) : x.type = "block-txs" /\ x.id = b /\ t \in x.txs
    BY <1>3
  <2>2. x \in ToSet(wire'[d])
    BY <1>2, <2>1 DEF Keeps
  <2> QED
    BY <1>2, <2>1, <2>2 DEF Carries, EndsOf
<1>4. CASE \E x \in ToSet(wire[Far(d)]) : x.type = "block-tx-get" /\ x.id = b /\ t \in x.txs
  <2>1. PICK x \in ToSet(wire[Far(d)]) : x.type = "block-tx-get" /\ x.id = b /\ t \in x.txs
    BY <1>4
  <2>2. x \in ToSet(wire'[Far(d)])
    BY <1>2, <2>1 DEF Keeps
  <2> QED
    BY <1>2, <2>1, <2>2 DEF Carries, EndsOf
<1> QED
  BY <1>1, <1>3, <1>4

\* Pending blocks and what they wait for are as they were.
LEMMA WaitedSame ==
  ASSUME Waited, \A k \in Node : node'[k].pending = node[k].pending,
         \A d \in End : sock'[d].state = sock[d].state,
         NEW m, NEW e, Keeps(m, e),
         m.type \notin {"block-txs", "block", "block-tx-get", "full-get"}
  PROVE  Waited'
<1>1. \A k \in Node : HasBroken(k) => HasBroken(k)'
  BY BrokenStays
<1>2. \A k \in Node : \A b : Comes(k, b) => Comes(k, b)'
  BY ComesKept
<1>3. \A k \in Node : \A b, t : Carries(k, b, t) => Carries(k, b, t)'
  BY CarriesKept
<1>4. AskedComes'
  BY <1>1, <1>3 DEF Waited, AskedComes
<1>5. \A k \in Node : \A pb \in ToSet(node[k].pending) : Comes(k, pb.id) \/ HasBroken(k)
  BY DEF Waited, PendingAnswered, Comes
<1>6. \A k \in Node : \A pb \in ToSet(node'[k].pending) : Comes(k, pb.id)' \/ HasBroken(k)'
  BY <1>1, <1>2, <1>5
<1>7. PendingAnswered'
  BY <1>6 DEF PendingAnswered, Comes
<1> QED
  BY <1>4, <1>7 DEF Waited

\* A request for a block or for some of its transfers is answered.
LEMMA WaitedServed ==
  ASSUME Base, Waited, \A k \in Node : node'[k].pending = node[k].pending,
         \A d \in End : sock'[d].state = sock[d].state,
         NEW e \in End, Connected(e), NEW m, Keeps(m, e),
         NEW y, Mentions(y, m.id), sock[e].state = "open" => y \in ToSet(wire'[Far(e)]),
         \/ m.type = "full-get" /\ y.type = "block"
         \/ m.type = "block-tx-get" /\ y.type = "block-txs" /\ m.txs \subseteq y.txs
  PROVE  Waited'
<1>1. \A k \in Node : HasBroken(k) => HasBroken(k)'
  BY BrokenStays
<1>2. Far(e) \in End /\ At(Far(e)) \in Node
  BY Ends
<1>3. sock[e].state = "open" \/ HasBroken(At(Far(e)))'
  BY <1>1, <1>2, ClosingBroken DEF Connected
<1>4. ASSUME NEW k \in Node, NEW b, Comes(k, b)
      PROVE  Comes(k, b)' \/ HasBroken(k)'
  <2>1. CASE At(Far(e)) # k \/ m.id # b
    BY <1>4, <2>1, ComesKept
  <2>2. CASE At(Far(e)) = k /\ m.id = b
    <3>1. CASE sock[e].state = "open"
      <4>1. UnderWay(Far(e), {"block-txs", "block"}, b)'
        BY <2>2, <3>1 DEF UnderWay
      <4> QED
        BY <1>2, <2>2, <4>1 DEF Comes, EndsOf
    <3> QED
      BY <1>3, <2>2, <3>1
  <2> QED
    BY <2>1, <2>2
<1>5. ASSUME NEW k \in Node, NEW b, NEW t, Carries(k, b, t)
      PROVE  Carries(k, b, t)' \/ HasBroken(k)'
  <2>1. CASE At(Far(e)) # k \/ m.id # b \/ m.type = "full-get" \/ t \notin m.txs
    BY <1>5, <2>1, CarriesKept
  <2>2. CASE At(Far(e)) = k /\ m.id = b /\ m.type = "block-tx-get" /\ t \in m.txs
    <3>1. CASE sock[e].state = "open"
      <4>1. y \in ToSet(wire'[Far(e)]) /\ y.type = "block-txs" /\ y.id = b /\ t \in y.txs
        BY <2>2, <3>1 DEF Mentions
      <4> QED
        BY <1>2, <2>2, <4>1 DEF Carries, EndsOf
    <3> QED
      BY <1>3, <2>2, <3>1
  <2> QED
    BY <2>1, <2>2
<1>6. AskedComes'
  BY <1>1, <1>5 DEF Waited, AskedComes
<1>7. \A k \in Node : \A pb \in ToSet(node[k].pending) : Comes(k, pb.id) \/ HasBroken(k)
  BY DEF Waited, PendingAnswered, Comes
<1>8. \A k \in Node : \A pb \in ToSet(node'[k].pending) : Comes(k, pb.id)' \/ HasBroken(k)'
  BY <1>1, <1>4, <1>7
<1>9. PendingAnswered'
  BY <1>8 DEF PendingAnswered, Comes
<1> QED
  BY <1>6, <1>9 DEF Waited

\* An answer or a compact block is taken by the node that waits: other entries
\* stay, and that of the block is settled or waits for something.
Renewed(n, pb) ==
  /\ Comes(n, pb.id)' \/ HasBroken(n)
  /\ \A t \in pb.asked : t \in pb.fetched \/ Carries(n, pb.id, t)' \/ HasBroken(n)

LEMMA WaitedAnswered ==
  ASSUME Base, Waited, NEW e \in End,
         \A k \in Node : k # At(e) => node'[k].pending = node[k].pending,
         \A d \in End : sock'[d].state = sock[d].state,
         NEW m, Keeps(m, e), m.type \in {"compact", "block-txs", "block"},
         \A pb \in ToSet(node'[At(e)].pending) :
           \/ pb \in ToSet(node[At(e)].pending) /\ pb.id # m.id
           \/ Renewed(At(e), pb)
  PROVE  Waited'
<1> DEFINE n == At(e)
<1>1. n \in Node /\ \A k \in Node : HasBroken(k) => HasBroken(k)'
  BY BrokenStays, Ends
<1>2. \A k \in Node : \A b : (k # n \/ b # m.id) /\ Comes(k, b) => Comes(k, b)'
  BY ComesKept
<1>3. \A k \in Node : \A b, t : (k # n \/ b # m.id) /\ Carries(k, b, t) => Carries(k, b, t)'
  BY CarriesKept
<1> HIDE DEF n
<1>4. \A k \in Node : \A pb \in ToSet(node[k].pending) : Comes(k, pb.id) \/ HasBroken(k)
  BY DEF Waited, PendingAnswered, Comes
<1>5. ASSUME NEW k \in Node, NEW pb \in ToSet(node'[k].pending)
      PROVE  /\ Comes(k, pb.id)' \/ HasBroken(k)'
             /\ \A t \in pb.asked : t \in pb.fetched \/ Carries(k, pb.id, t)' \/ HasBroken(k)'
  <2>1. CASE pb \in ToSet(node[k].pending) /\ (k # n \/ pb.id # m.id)
    BY <1>1, <1>2, <1>3, <1>4, <2>1 DEF Waited, AskedComes
  <2>2. CASE k = n /\ Renewed(n, pb)
    BY <1>1, <2>2 DEF Renewed
  <2> QED
    BY <2>1, <2>2 DEF n
<1>6. AskedComes'
  BY <1>5 DEF AskedComes
<1>7. PendingAnswered'
  BY <1>5 DEF PendingAnswered, Comes
<1> QED
  BY <1>6, <1>7 DEF Waited

-----------------------------------------------------------------------------
(* Messages that are taken. *)

Inv == Base /\ AskedOnce /\ Waited

LEMMA TakeFacts ==
  ASSUME Base, NEW e \in End, NEW type, NEW m \in Arrived(e, type)
  PROVE  /\ m \in Message /\ m.type = type /\ Connected(e) /\ m \in ToSet(wire[e])
         /\ Meant(m, At(Far(e)), node[At(Far(e))], At(e), node[At(e)])
         /\ At(e) \in Node /\ Source(At(e), {e}) /\ {e} \in SUBSET End
         /\ Far(e) \in End /\ At(Far(e)) \in Node /\ At(Far(e)) # At(e)
<1>1. m \in ToSet(wire[e]) /\ m.type = type /\ Connected(e) /\ wire[e] \in Seq(Message)
  BY DEF Arrived, Base, TypeOK
<1>2. m \in Message
  BY <1>1, Elements
<1> QED
  BY <1>1, <1>2, Ends DEF Source, EndsOf, Base, AllMeant

\* A turn that ends, of the node at e on the message m.
Over(e, m, turn, said, waiting) ==
  /\ Sound(turn, At(e), {e}, {}, said, waiting)
  /\ \A id : Mentions(m, id) => id \in Heard(At(e), turn.node)
  /\ \A x \in said : Fair(x, At(e), {e})
  /\ Takes(e, turn)

LEMMA TakeStep ==
  ASSUME Inv, NEW e \in End, NEW type, NEW m \in Arrived(e, type),
         NEW turn, NEW said, NEW waiting, Over(e, m, turn, said, waiting)
  PROVE  /\ Base' /\ AskedOnce' /\ Keeps(m, e)
         /\ \A d \in End : sock'[d].state = sock[d].state
         /\ node'[At(e)].pending = waiting
         /\ \A k \in Node : k # At(e) => node'[k] = node[k]
         /\ sock[e].state = "open" => ToSet(turn.out[e]) \subseteq ToSet(wire'[Far(e)])
<1> DEFINE n == At(e)
           w == [wire EXCEPT ![e] = Tail(@)]
<1>1. /\ m \in Message /\ m \in ToSet(wire[e]) /\ n \in Node /\ Source(n, {e})
      /\ Far(e) \in End /\ Far(Far(e)) = e /\ Base /\ wire \in [End -> Seq(Message)]
  BY TakeFacts, Ends DEF Inv, Base, TypeOK
<1>2. m = Head(wire[e]) /\ wire[e] # <<>>
  BY <1>1 DEF Arrived, ToSet
<1>3. /\ Tail(wire[e]) \in Seq(Message) /\ ToSet(Tail(wire[e])) \subseteq ToSet(wire[e])
      /\ ToSet(wire[e]) \subseteq ToSet(Tail(wire[e])) \cup {m}
  BY <1>1, <1>2, Elements
<1>4. w \in [End -> Seq(Message)] /\ w[e] = Tail(wire[e]) /\ \A d \in End : d # e => w[d] = wire[d]
  BY <1>1, <1>3
<1>5. e \in EndsOf(n)
  BY DEF EndsOf
<1>6. Effect(n, w, turn)
  BY DEF Over, Takes, Handled, Effect
<1> HIDE DEF w, n
<1>7. Left(w, n, turn.node)
  BY <1>3, <1>4, <1>5 DEF Left, Over, n
<1>8. Sound(turn, n, {e}, {}, said, waiting)
  BY DEF n, Over
<1>9. Base'
  BY <1>1, <1>6, <1>7, <1>8, BaseStep
<1>10. AskedOnce'
  <2>1. \A x \in said : Fair(x, n, {e})
    BY DEF n, Over
  <2>2. \A c, d \in {e} : c = d
    OBVIOUS
  <2>3. AskedOnce
    BY DEF Inv
  <2> QED
    BY <1>1, <1>6, <1>7, <1>8, <2>1, <2>2, <2>3, AskedStep
<1>11. /\ \A d \in End : ToSet(w[d]) \subseteq ToSet(wire'[d])
       /\ \A d \in End : sock[Far(d)].state = "open" => ToSet(turn.out[Far(d)]) \subseteq ToSet(wire'[d])
  BY <1>1, <1>6, <1>7, <1>8, UnderWayStep
<1>12. Keeps(m, e)
  BY <1>3, <1>4, <1>11 DEF Keeps
<1>13. \A d \in End : sock'[d].state = sock[d].state
  BY <1>6, <1>8 DEF Effect, Sound, SoundSock
<1>14. node'[n] = turn.node /\ \A k \in Node : k # n => node'[k] = node[k]
  BY <1>1, <1>6 DEF Effect, Base, TypeOK
<1> QED
  BY <1>1, <1>8, <1>9, <1>10, <1>11, <1>12, <1>13, <1>14 DEF Sound, n

\* Of messages nothing that is pending waits for.
LEMMA QuietStep ==
  ASSUME Inv, NEW e \in End, NEW type, NEW m \in Arrived(e, type),
         NEW turn, NEW said, Over(e, m, turn, said, node[At(e)].pending),
         type \notin {"block-txs", "block", "block-tx-get", "full-get"}
  PROVE  Inv'
<1>1. /\ Base' /\ AskedOnce' /\ Keeps(m, e)
      /\ \A d \in End : sock'[d].state = sock[d].state
      /\ node'[At(e)].pending = node[At(e)].pending
      /\ \A k \in Node : k # At(e) => node'[k] = node[k]
  BY TakeStep
<1>2. m.type = type /\ Waited
  BY TakeFacts DEF Inv
<1>3. \A k \in Node : node'[k].pending = node[k].pending
  BY <1>1
<1>4. Waited'
  BY <1>1, <1>2, <1>3, WaitedSame
<1> QED
  BY <1>1, <1>4 DEF Inv

-----------------------------------------------------------------------------
(* The handlers of announcements, requests and pools. *)

\* The start of a handler.
LEMMA SoundOn ==
  ASSUME Inv, NEW e \in End
  PROVE  /\ Sound(On(e), At(e), {e}, {}, {}, node[At(e)].pending) /\ On(e).node = node[At(e)]
         /\ node[At(e)] \in NodeState /\ At(e) \in Node
         /\ Source(At(e), {e}) <=> Connected(e)
<1>1. At(e) \in Node /\ {e} \in SUBSET End /\ Base
  BY Ends DEF Inv
<1> QED
  BY <1>1, SoundStart DEF On, Turn, Source, EndsOf, Base, TypeOK

\* An answer to the source, of a turn that has answered nothing yet.
LEMMA SoundAnswer ==
  ASSUME Inv, NEW e \in End, Connected(e), NEW turn, NEW waiting,
         Sound(turn, At(e), {e}, {}, {}, waiting), NEW m \in Message,
         Meant(m, At(e), turn.node, At(Far(e)), node[At(Far(e))])
  PROVE  /\ Sound(Reply(turn, m), At(e), {e}, {}, {m}, waiting)
         /\ Reply(turn, m).node = turn.node
         /\ m \in ToSet(Reply(turn, m).out[e])
<1>1. At(e) \in Node /\ Source(At(e), {e}) /\ Base
  BY Ends DEF Inv, Source, EndsOf
<1>2. \A x \in {e} : Meant(m, At(e), turn.node, At(Far(x)), node[At(Far(x))])
  OBVIOUS
<1>3. /\ Sound(Reply(turn, m), At(e), {e}, {}, {} \cup {m}, waiting)
      /\ Reply(turn, m).node = turn.node /\ \A x \in {e} : m \in ToSet(Reply(turn, m).out[x])
  BY <1>1, <1>2, SoundReply
<1>4. {} \cup {m} = {m}
  OBVIOUS
<1> QED
  BY <1>3, <1>4

\* Noting that the source knows the ids it has told.
LEMMA SoundTold ==
  ASSUME Inv, NEW e \in End, Connected(e), NEW ids \in SUBSET Id,
         ids \subseteq Heard(At(Far(e)), node[At(Far(e))])
  PROVE  /\ Sound(Knowing(On(e), ids), At(e), {e}, {}, {}, node[At(e)].pending)
         /\ Knowing(On(e), ids).node = node[At(e)]
<1>1. /\ Sound(On(e), At(e), {e}, {}, {}, node[At(e)].pending) /\ On(e).node = node[At(e)]
      /\ At(e) \in Node /\ Source(At(e), {e}) /\ Base
  BY SoundOn, Ends DEF Inv
<1>2. \A x \in {e} : ids \subseteq Heard(At(Far(x)), node[At(Far(x))])
  OBVIOUS
<1> DEFINE turn == On(e)
<1> HIDE DEF turn
<1>3. Sound(turn, At(e), {e}, {}, {}, node[At(e)].pending) /\ turn.node = node[At(e)]
  BY <1>1 DEF turn
<1>4. /\ Sound(Knowing(turn, ids), At(e), {e}, {}, {}, node[At(e)].pending)
      /\ Knowing(turn, ids).node = turn.node
  BY <1>1, <1>2, <1>3, SoundKnowing
<1> QED
  BY <1>3, <1>4 DEF turn

\* An announcement is noted and asked for, or is no news.
LEMMA AskStep ==
  ASSUME Inv, NEW e \in End, NEW type, NEW request, NEW m \in Arrived(e, type), NEW wanted,
         \/ type = "tx-inv" /\ request = "tx-get"
         \/ type = "inv" /\ request = "get",
         wanted => m.id \notin node[At(e)].recent,
         ~ wanted => m.id \in Heard(At(e), node[At(e)]),
         wanted \in BOOLEAN,
         Takes(e, IF wanted
                  THEN Reply(Remembered(Knowing(On(e), {m.id}), {m.id}), [type |-> request, id |-> m.id])
                  ELSE Knowing(On(e), {m.id}))
  PROVE  Inv'
<1> DEFINE told == Knowing(On(e), {m.id})
           noted == Remembered(told, {m.id})
           x == [type |-> request, id |-> m.id]
           n == At(e)
<1>1. /\ m \in Message /\ m.type = type /\ Connected(e)
      /\ Meant(m, At(Far(e)), node[At(Far(e))], n, node[n]) /\ n \in Node
  BY TakeFacts DEF Inv
<1>2. /\ "id" \in DOMAIN m /\ {m.id} \in SUBSET Id /\ \A id : Mentions(m, id) => id = m.id
      /\ x \in Message /\ x.type = request /\ x.id = m.id
  <2>1. /\ type = "tx-inv" => m.id \in Transfer
        /\ type = "inv" => m.id \in Blk
        /\ "id" \in DOMAIN m /\ \A id : Mentions(m, id) => id = m.id
    BY <1>1, MessageIds, MentionsId DEF IdType, TransferType, BlockType
  <2> QED
    BY <2>1, NewMessage DEF Id, TransferType, BlockType
<1>3. {m.id} \subseteq Heard(At(Far(e)), node[At(Far(e))])
  BY <1>1, <1>2 DEF Meant
<1>4. /\ Sound(told, n, {e}, {}, {}, node[n].pending) /\ told.node = node[n]
  BY <1>1, <1>2, <1>3, SoundTold
<1>5. node[n] \in NodeState
  BY <1>1 DEF Inv, Base, TypeOK
<1> HIDE DEF told
<1>6. CASE ~ wanted
  <2>1. \A id : Mentions(m, id) => id \in Heard(n, told.node)
    BY <1>2, <1>4, <1>6
  <2>2. Takes(e, told)
    BY <1>6 DEF told
  <2>3. type \notin {"block-txs", "block", "block-tx-get", "full-get"}
    OBVIOUS
  <2>4. Over(e, m, told, {}, node[n].pending)
    BY <1>4, <2>1, <2>2 DEF Over
  <2> QED
    BY <2>3, <2>4, QuietStep
<1>7. CASE wanted
  <2>0. /\ Sound(noted, n, {e}, {} \ {m.id}, {}, node[n].pending)
        /\ noted.node = [told.node EXCEPT !.recent = @ \cup {m.id}]
    <3> DEFINE ids == {m.id}
    <3>1. ids \in SUBSET Id
      BY <1>2
    <3> HIDE DEF ids, n
    <3>2. /\ Sound(Remembered(told, ids), n, {e}, {} \ ids, {}, node[n].pending)
          /\ Remembered(told, ids).node = [told.node EXCEPT !.recent = @ \cup ids]
      BY <1>1, <1>4, <3>1, SoundRemembered
    <3> QED
      BY <3>2 DEF ids
  <2>1. /\ Sound(noted, n, {e}, {} \ {m.id}, {}, node[n].pending)
        /\ noted.node = [node[n] EXCEPT !.recent = @ \cup {m.id}]
    BY <1>4, <2>0
  <2>2. {} \ {m.id} = {} /\ m.id \in Noted(n, noted.node)
    BY <1>5, <2>1 DEF Noted, NodeState
  <2>3. Sound(noted, n, {e}, {}, {}, node[n].pending)
    BY <2>1, <2>2
  <2> DEFINE last == Reply(noted, x)
  <2>4. Meant(x, n, noted.node, At(Far(e)), node[At(Far(e))])
    BY <1>2, <1>3, <2>2 DEF Meant, Heard
  <2> HIDE DEF noted, x
  <2>5. Sound(last, n, {e}, {}, {x}, node[n].pending) /\ last.node = noted.node
    BY <1>1, <1>2, <2>3, <2>4, SoundAnswer
  <2>6. \A id : Mentions(m, id) => id \in Heard(n, last.node)
    BY <1>2, <2>2, <2>5 DEF Heard
  <2>7. \A y \in {x} : Fair(y, n, {e})
    BY <1>2, <1>7 DEF Fair
  <2>8. Takes(e, last)
    BY <1>7 DEF told, noted, x
  <2>9. type \notin {"block-txs", "block", "block-tx-get", "full-get"}
    OBVIOUS
  <2> HIDE DEF last
  <2>10. Over(e, m, last, {x}, node[n].pending)
    BY <2>5, <2>6, <2>7, <2>8 DEF Over
  <2> QED
    BY <2>9, <2>10, QuietStep
<1> QED
  BY <1>6, <1>7

LEMMA HandleTxInvStep ==
  ASSUME Inv, NEW e \in End, HandleTxInv(e)
  PROVE  Inv'
<1>1. PICK m \in Arrived(e, "tx-inv") :
        Takes(e, IF ~ Pooled(Knowing(On(e), {m.id}).node, m.id)
                    /\ m.id \notin Knowing(On(e), {m.id}).node.recent
                 THEN Reply(Remembered(Knowing(On(e), {m.id}), {m.id}), [type |-> "tx-get", id |-> m.id])
                 ELSE Knowing(On(e), {m.id}))
  BY DEF HandleTxInv
<1> DEFINE wanted == ~ Pooled(node[At(e)], m.id) /\ m.id \notin node[At(e)].recent
<1>2. Knowing(On(e), {m.id}).node = node[At(e)]
  BY DEF Knowing, On, Turn
<1>3. ~ wanted => m.id \in Heard(At(e), node[At(e)])
  BY TakeFacts DEF Inv, Base, PoolNoted, Pooled, Heard, Noted
<1>4. wanted \in BOOLEAN /\ (wanted => m.id \notin node[At(e)].recent)
  OBVIOUS
<1>5. Takes(e, IF wanted
               THEN Reply(Remembered(Knowing(On(e), {m.id}), {m.id}), [type |-> "tx-get", id |-> m.id])
               ELSE Knowing(On(e), {m.id}))
  BY <1>1, <1>2
<1> HIDE DEF wanted
<1> QED
  BY <1>3, <1>4, <1>5, AskStep

LEMMA HandleInvStep ==
  ASSUME Inv, NEW e \in End, HandleInv(e)
  PROVE  Inv'
<1>1. PICK m \in Arrived(e, "inv") :
        Takes(e, IF ~ Holds(Knowing(On(e), {m.id}).node, m.id)
                    /\ m.id \notin Knowing(On(e), {m.id}).node.recent
                 THEN Reply(Remembered(Knowing(On(e), {m.id}), {m.id}), [type |-> "get", id |-> m.id])
                 ELSE Knowing(On(e), {m.id}))
  BY DEF HandleInv
<1> DEFINE wanted == ~ Holds(node[At(e)], m.id) /\ m.id \notin node[At(e)].recent
<1>2. Knowing(On(e), {m.id}).node = node[At(e)]
  BY DEF Knowing, On, Turn
<1>3. ~ wanted => m.id \in Heard(At(e), node[At(e)])
  BY DEF Holds, Heard, Noted
<1>4. wanted \in BOOLEAN /\ (wanted => m.id \notin node[At(e)].recent)
  OBVIOUS
<1>5. Takes(e, IF wanted
               THEN Reply(Remembered(Knowing(On(e), {m.id}), {m.id}), [type |-> "get", id |-> m.id])
               ELSE Knowing(On(e), {m.id}))
  BY <1>1, <1>2
<1> HIDE DEF wanted
<1> QED
  BY <1>3, <1>4, <1>5, AskStep

\* A transfer or a compact block that was asked for.
LEMMA ServeStep ==
  ASSUME Inv, NEW e \in End, NEW type, NEW answer, NEW m \in Arrived(e, type),
         \/ type = "tx-get" /\ answer = "tx-batch"
         \/ type = "get" /\ answer = "compact" /\ Holds(node[At(e)], m.id)
         \/ type = "full-get" /\ answer = "block" /\ Holds(node[At(e)], m.id),
         Takes(e, Reply(Knowing(On(e), {m.id}), [type |-> answer, id |-> m.id]))
  PROVE  Inv'
<1> DEFINE told == Knowing(On(e), {m.id})
           x == [type |-> answer, id |-> m.id]
           n == At(e)
           last == Reply(told, x)
<1>1. /\ m \in Message /\ m.type = type /\ Connected(e) /\ m \in ToSet(wire[e])
      /\ Meant(m, At(Far(e)), node[At(Far(e))], n, node[n]) /\ n \in Node
      /\ Far(e) \in End /\ Far(Far(e)) = e
  BY TakeFacts, Ends DEF Inv
<1>2. /\ "id" \in DOMAIN m /\ {m.id} \in SUBSET Id /\ \A id : Mentions(m, id) <=> id = m.id
      /\ x \in Message /\ x.type = answer /\ x.id = m.id
  <2>1. /\ type = "tx-get" => m.id \in Transfer
        /\ type \in {"get", "full-get"} => m.id \in Blk
        /\ "id" \in DOMAIN m /\ \A id : Mentions(m, id) <=> id = m.id
    BY <1>1, MessageIds, MentionsId DEF IdType, TransferType, BlockType
  <2> QED
    BY <2>1, NewMessage DEF Id, TransferType, BlockType
<1>3. {m.id} \subseteq Heard(At(Far(e)), node[At(Far(e))])
  BY <1>1, <1>2 DEF Meant
<1>4. /\ Sound(told, n, {e}, {}, {}, node[n].pending) /\ told.node = node[n]
  BY <1>1, <1>2, <1>3, SoundTold
<1>5. Takes(e, last)
  OBVIOUS
<1> HIDE DEF told
<1>6. m.id \in Heard(n, node[n])
  BY <1>1, <1>2 DEF Meant
<1>7. Meant(x, n, told.node, At(Far(e)), node[At(Far(e))])
  BY <1>1, <1>2, <1>3, <1>4, <1>6 DEF Meant, Holds
<1>8. Fair(x, n, {e})
  <2>1. type \in {"tx-get", "get"} => Fetching(Far(e), m.id)
    BY <1>1, <1>2 DEF Fetching, UnderWay
  <2> QED
    BY <1>2, <2>1 DEF Fair
<1> HIDE DEF x
<1>9. /\ Sound(last, n, {e}, {}, {x}, node[n].pending) /\ last.node = told.node
      /\ x \in ToSet(last.out[e])
  BY <1>1, <1>2, <1>4, <1>7, SoundAnswer
<1>10. \A id : Mentions(m, id) => id \in Heard(n, last.node)
  BY <1>2, <1>4, <1>6, <1>9
<1> HIDE DEF last
<1>11. Over(e, m, last, {x}, node[n].pending)
  BY <1>5, <1>8, <1>9, <1>10 DEF Over
<1>12. CASE type \in {"tx-get", "get"}
  <2>1. type \notin {"block-txs", "block", "block-tx-get", "full-get"}
    BY <1>12
  <2> QED
    BY <1>11, <2>1, QuietStep
<1>13. CASE type = "full-get"
  <2>1. /\ Base' /\ AskedOnce' /\ Keeps(m, e)
        /\ \A d \in End : sock'[d].state = sock[d].state
        /\ node'[n].pending = node[n].pending
        /\ \A k \in Node : k # n => node'[k] = node[k]
        /\ sock[e].state = "open" => ToSet(last.out[e]) \subseteq ToSet(wire'[Far(e)])
    BY <1>11, TakeStep
  <2>2. \A k \in Node : node'[k].pending = node[k].pending
    BY <2>1
  <2>3. sock[e].state = "open" => x \in ToSet(wire'[Far(e)])
    BY <1>9, <2>1
  <2>4. Mentions(x, m.id) /\ m.type = "full-get" /\ x.type = "block"
    BY <1>1, <1>2, <1>13 DEF Mentions, x
  <2>5. Waited'
    BY <1>1, <2>1, <2>2, <2>3, <2>4, WaitedServed DEF Inv
  <2> QED
    BY <2>1, <2>5 DEF Inv
<1> QED
  BY <1>12, <1>13

\* A request that is not answered.
LEMMA UnservedStep ==
  ASSUME Inv, NEW e \in End, NEW type, NEW m \in Arrived(e, type), type \in {"tx-get", "get"},
         Takes(e, On(e))
  PROVE  Inv'
<1>1. /\ m \in Message /\ m.type = type
      /\ Meant(m, At(Far(e)), node[At(Far(e))], At(e), node[At(e)])
  BY TakeFacts DEF Inv
<1> DEFINE turn == On(e)
<1>2. Sound(turn, At(e), {e}, {}, {}, node[At(e)].pending) /\ turn.node = node[At(e)]
  BY SoundOn
<1>3. Takes(e, turn)
  OBVIOUS
<1> HIDE DEF turn
<1>4. \A id : Mentions(m, id) => id \in Heard(At(e), turn.node)
  BY <1>1, <1>2 DEF Meant, Mentions
<1>5. Over(e, m, turn, {}, node[At(e)].pending)
  BY <1>2, <1>3, <1>4 DEF Over
<1>6. type \notin {"block-txs", "block", "block-tx-get", "full-get"}
  OBVIOUS
<1> QED
  BY <1>5, <1>6, QuietStep

LEMMA ServeTxStep ==
  ASSUME Inv, NEW e \in End, ServeTx(e)
  PROVE  Inv'
<1>1. PICK m \in Arrived(e, "tx-get") :
        Takes(e, IF Pooled(node[At(e)], m.id)
                 THEN Reply(Knowing(On(e), {m.id}), [type |-> "tx-batch", id |-> m.id])
                 ELSE On(e))
  BY DEF ServeTx
<1>2. CASE Pooled(node[At(e)], m.id)
  <2>1. Takes(e, Reply(Knowing(On(e), {m.id}), [type |-> "tx-batch", id |-> m.id]))
    BY <1>1, <1>2
  <2> QED
    BY <2>1, ServeStep
<1>3. CASE ~ Pooled(node[At(e)], m.id)
  <2>1. Takes(e, On(e))
    BY <1>1, <1>3
  <2> QED
    BY <2>1, UnservedStep
<1> QED
  BY <1>2, <1>3

\* Who is asked for a whole block has it.
LEMMA ServeBlockStep ==
  ASSUME Inv, NEW e \in End,
         ServeBlock(e, "get", "compact") \/ ServeBlock(e, "full-get", "block")
  PROVE  Inv'
<1>1. CASE ServeBlock(e, "get", "compact")
  <2>1. PICK m \in Arrived(e, "get") :
          Takes(e, IF Holds(node[At(e)], m.id)
                   THEN Reply(Knowing(On(e), {m.id}), [type |-> "compact", id |-> m.id])
                   ELSE On(e))
    BY <1>1 DEF ServeBlock
  <2>2. CASE Holds(node[At(e)], m.id)
    <3>1. Takes(e, Reply(Knowing(On(e), {m.id}), [type |-> "compact", id |-> m.id]))
      BY <2>1, <2>2
    <3> QED
      BY <2>2, <3>1, ServeStep
  <2>3. CASE ~ Holds(node[At(e)], m.id)
    <3>1. Takes(e, On(e))
      BY <2>1, <2>3
    <3> QED
      BY <3>1, UnservedStep
  <2> QED
    BY <2>2, <2>3
<1>2. CASE ServeBlock(e, "full-get", "block")
  <2>1. PICK m \in Arrived(e, "full-get") :
          Takes(e, IF Holds(node[At(e)], m.id)
                   THEN Reply(Knowing(On(e), {m.id}), [type |-> "block", id |-> m.id])
                   ELSE On(e))
    BY <1>2 DEF ServeBlock
  <2>2. Holds(node[At(e)], m.id)
    BY TakeFacts DEF Inv, Meant, Holds
  <2>3. Takes(e, Reply(Knowing(On(e), {m.id}), [type |-> "block", id |-> m.id]))
    BY <2>1, <2>2
  <2> QED
    BY <2>2, <2>3, ServeStep
<1> QED
  BY <1>1, <1>2

LEMMA ServeBlockTxsStep ==
  ASSUME Inv, NEW e \in End, ServeBlockTxs(e)
  PROVE  Inv'
<1> DEFINE n == At(e)
<1>1. PICK m \in Arrived(e, "block-tx-get") :
        Takes(e, IF Holds(node[n], m.id)
                 THEN Reply(On(e), [type |-> "block-txs", id |-> m.id,
                                    txs |-> m.txs \cap ToSet(Txs[m.id])])
                 ELSE On(e))
  BY DEF ServeBlockTxs
<1> DEFINE x == [type |-> "block-txs", id |-> m.id, txs |-> m.txs \cap ToSet(Txs[m.id])]
           last == Reply(On(e), x)
<1>2. /\ m \in Message /\ m.type = "block-tx-get" /\ Connected(e)
      /\ Meant(m, At(Far(e)), node[At(Far(e))], n, node[n]) /\ n \in Node
      /\ Far(e) \in End /\ Far(Far(e)) = e
  BY TakeFacts, Ends DEF Inv
<1>3. /\ "id" \in DOMAIN m /\ m.id \in Blk /\ m.txs \in SUBSET Transfer
      /\ \A id : Mentions(m, id) <=> id = m.id
  BY <1>2, MessageIds, MentionsId DEF IdType, PartType
<1>4. /\ m.id \in ToSet(node[n].blocks) /\ m.id \in Heard(n, node[n])
      /\ m.id \in Heard(At(Far(e)), node[At(Far(e))]) /\ m.txs \subseteq ToSet(Txs[m.id])
  BY <1>2, <1>3 DEF Meant
<1>5. Takes(e, last)
  BY <1>1, <1>4 DEF Holds
<1>6. x \in Message /\ x.type = "block-txs" /\ x.id = m.id /\ x.txs = m.txs
  BY <1>3, <1>4, NewMessage DEF PartType
<1>7. x.txs \subseteq Heard(n, node[n])
  BY <1>4, <1>6 DEF Heard, Confirmed
<1> HIDE DEF x
<1>8. Meant(x, n, node[n], At(Far(e)), node[At(Far(e))])
  BY <1>4, <1>6, <1>7 DEF Meant
<1>9. /\ Sound(last, n, {e}, {}, {x}, node[n].pending) /\ last.node = node[n]
      /\ x \in ToSet(last.out[e])
  <2> DEFINE turn == On(e)
  <2>1. Sound(turn, n, {e}, {}, {}, node[n].pending) /\ turn.node = node[n]
    BY SoundOn
  <2> HIDE DEF turn
  <2>2. Meant(x, n, turn.node, At(Far(e)), node[At(Far(e))])
    BY <1>8, <2>1
  <2>3. /\ Sound(Reply(turn, x), n, {e}, {}, {x}, node[n].pending)
        /\ Reply(turn, x).node = turn.node /\ x \in ToSet(Reply(turn, x).out[e])
    BY <1>2, <1>6, <2>1, <2>2, SoundAnswer
  <2> QED
    BY <2>1, <2>3 DEF turn
<1> HIDE DEF last
<1>10. Over(e, m, last, {x}, node[n].pending)
  <2>1. Fair(x, n, {e})
    BY <1>6 DEF Fair
  <2>2. \A id : Mentions(m, id) => id \in Heard(n, last.node)
    BY <1>3, <1>4, <1>9
  <2> QED
    BY <1>5, <1>9, <2>1, <2>2 DEF Over
<1>11. /\ Base' /\ AskedOnce' /\ Keeps(m, e)
       /\ \A d \in End : sock'[d].state = sock[d].state
       /\ node'[n].pending = node[n].pending
       /\ \A k \in Node : k # n => node'[k] = node[k]
       /\ sock[e].state = "open" => ToSet(last.out[e]) \subseteq ToSet(wire'[Far(e)])
  BY <1>10, TakeStep
<1>12. \A k \in Node : node'[k].pending = node[k].pending
  BY <1>11
<1>13. sock[e].state = "open" => x \in ToSet(wire'[Far(e)])
  BY <1>9, <1>11
<1>14. Mentions(x, m.id) /\ m.txs \subseteq x.txs
  BY <1>6 DEF Mentions, x
<1>15. Waited'
  BY <1>2, <1>6, <1>11, <1>12, <1>13, <1>14, WaitedServed DEF Inv
<1> QED
  BY <1>11, <1>15 DEF Inv

LEMMA HandleTxBatchStep ==
  ASSUME Inv, NEW e \in End, HandleTxBatch(e)
  PROVE  Inv'
<1> DEFINE n == At(e)
           turn == On(e)
<1>1. PICK m \in Arrived(e, "tx-batch") : Takes(e, Received(turn, m.id))
  BY DEF HandleTxBatch
<1>2. /\ m \in Message /\ m.type = "tx-batch" /\ Source(n, {e}) /\ n \in Node /\ Base
      /\ Meant(m, At(Far(e)), node[At(Far(e))], n, node[n])
  BY TakeFacts DEF Inv
<1>3. /\ m.id \in Transfer /\ m.id \in Heard(At(Far(e)), node[At(Far(e))])
      /\ m.id \in Heard(n, node[n]) /\ \A id : Mentions(m, id) <=> id = m.id
  BY <1>2, MessageIds, MentionsId DEF IdType, TransferType, Meant
<1>4. Sound(turn, n, {e}, {}, {}, node[n].pending) /\ turn.node = node[n]
  BY SoundOn
<1> HIDE DEF turn
<1> DEFINE last == Received(turn, m.id)
<1>5. /\ Sound(last, n, {e}, {}, {}, node[n].pending) /\ Grew(n, turn.node, last.node)
  <2>1. \A x \in {e} : m.id \in Heard(At(Far(x)), node[At(Far(x))])
    BY <1>3
  <2> QED
    BY <1>2, <1>3, <1>4, <2>1, SoundReceived
<1>6. Takes(e, last)
  BY <1>1
<1> HIDE DEF last
<1>7. m.id \in Heard(n, last.node)
  BY <1>3, <1>4, <1>5, HeardGrew
<1>8. Over(e, m, last, {}, node[n].pending)
  BY <1>3, <1>5, <1>6, <1>7 DEF Over
<1> QED
  BY <1>8, QuietStep

LEMMA ServeMempoolStep ==
  ASSUME Inv, NEW e \in End, ServeMempool(e)
  PROVE  Inv'
<1> DEFINE n == At(e)
           turn == On(e)
           x == [type |-> "mempool", txs |-> node[n].pool]
           last == Reply(turn, x)
<1>1. PICK m \in Arrived(e, "mempool-request") : TRUE
  BY DEF ServeMempool
<1>2. Takes(e, last)
  BY DEF ServeMempool
<1>3. m \in Message /\ m.type = "mempool-request" /\ Connected(e) /\ n \in Node
  BY TakeFacts DEF Inv
<1>4. Sound(turn, n, {e}, {}, {}, node[n].pending) /\ turn.node = node[n]
  BY SoundOn
<1>5. node[n].pool \in Seq(Transfer)
  BY <1>3 DEF Inv, Base, TypeOK, NodeState
<1>6. x \in Message /\ x.type = "mempool" /\ x.txs = node[n].pool /\ "id" \notin DOMAIN x
  BY <1>5, NewMessage
<1>7. ToSet(x.txs) \subseteq Heard(n, node[n])
  BY <1>3, <1>6 DEF Inv, Base, PoolNoted, Heard
<1> HIDE DEF x, turn
<1>8. Meant(x, n, turn.node, At(Far(e)), node[At(Far(e))])
  BY <1>4, <1>6, <1>7 DEF Meant
<1>9. Sound(last, n, {e}, {}, {x}, node[n].pending)
  BY <1>3, <1>4, <1>6, <1>8, SoundAnswer
<1> HIDE DEF last
<1>10. \A id : ~ Mentions(m, id)
  BY <1>3, MentionsId DEF IdType, TransferType, BlockType, PartType
<1>11. Fair(x, n, {e})
  BY <1>6 DEF Fair
<1>12. Over(e, m, last, {x}, node[n].pending)
  BY <1>2, <1>9, <1>10, <1>11 DEF Over
<1> QED
  BY <1>12, QuietStep

LEMMA HandleMempoolStep ==
  ASSUME Inv, NEW e \in End, HandleMempool(e)
  PROVE  Inv'
<1> DEFINE n == At(e)
           turn == On(e)
<1>1. PICK m \in Arrived(e, "mempool") : Takes(e, FoldLeft(Received, turn, m.txs))
  BY DEF HandleMempool
<1>2. /\ m \in Message /\ m.type = "mempool" /\ Source(n, {e}) /\ n \in Node /\ Base
      /\ Meant(m, At(Far(e)), node[At(Far(e))], n, node[n])
  BY TakeFacts DEF Inv
<1>3. /\ m.txs \in Seq(Transfer) /\ ToSet(m.txs) \subseteq Heard(At(Far(e)), node[At(Far(e))])
      /\ \A id : ~ Mentions(m, id)
  BY <1>2, MessageIds, MentionsId DEF IdType, TransferType, BlockType, PartType, Meant
<1>4. Sound(turn, n, {e}, {}, {}, node[n].pending)
  BY SoundOn
<1> DEFINE txs == m.txs
           last == FoldLeft(Received, turn, txs)
<1>5. Takes(e, last)
  BY <1>1
<1>6. txs \in Seq(Transfer) /\ \A x \in {e} : ToSet(txs) \subseteq Heard(At(Far(x)), node[At(Far(x))])
  BY <1>3
<1> HIDE DEF turn, txs
<1>7. Sound(last, n, {e}, {}, {}, node[n].pending)
  BY <1>2, <1>4, <1>6, SoundReceivedAll
<1> HIDE DEF last
<1>8. Over(e, m, last, {}, node[n].pending)
  BY <1>3, <1>5, <1>7 DEF Over
<1> QED
  BY <1>8, QuietStep

-----------------------------------------------------------------------------
(* Compact blocks. *)

LEMMA Kept ==
  ASSUME NEW S, NEW s \in Seq(S), NEW T
  PROVE  Within(s, T) \in Seq(S) /\ ToSet(Within(s, T)) \subseteq ToSet(s) \cap T
<1>1. s \in Seq(ToSet(s))
  BY DEF ToSet
<1>2. Within(s, T) \in Seq(S \cap T) /\ Within(s, T) \in Seq(ToSet(s) \cap T)
  BY <1>1, Receiving!WithinSeq DEF Within, Receiving!Within
<1> DEFINE w == Within(s, T)
<1> HIDE DEF w
<1>3. w \in Seq(S) /\ ToSet(w) \subseteq ToSet(s) \cap T
  BY <1>2, Elements DEF w
<1> QED
  BY <1>3 DEF w

LEMMA OthersSeq ==
  ASSUME NEW q \in Seq(Entry), NEW b
  PROVE  /\ Others(q, b) \in Seq(Entry)
         /\ \A pb \in ToSet(Others(q, b)) : pb \in ToSet(q) /\ pb.id # b
  BY Kept DEF Others

LEMMA TouchedSeq ==
  ASSUME NEW q \in Seq(Entry), NEW pb \in Entry
  PROVE  /\ Touched(q, pb) \in Seq(Entry)
         /\ \A x \in ToSet(Touched(q, pb)) : x = pb \/ (x \in ToSet(q) /\ x.id # pb.id)
<1> DEFINE r == Append(Others(q, pb.id), pb)
<1>1. /\ Others(q, pb.id) \in Seq(Entry)
      /\ \A x \in ToSet(Others(q, pb.id)) : x \in ToSet(q) /\ x.id # pb.id
  BY OthersSeq
<1>2. r \in Seq(Entry) /\ ToSet(r) = ToSet(Others(q, pb.id)) \cup {pb}
  BY <1>1, Elements
<1>3. r # <<>>
  BY <1>1
<1>4. Touched(q, pb) = IF Len(r) > PendingMax THEN Tail(r) ELSE r
  BY DEF Touched
<1> HIDE DEF r
<1>5. Tail(r) \in Seq(Entry) /\ ToSet(Tail(r)) \subseteq ToSet(r)
  BY <1>2, <1>3, Elements
<1>6. /\ Touched(q, pb) \in Seq(Entry) /\ ToSet(Touched(q, pb)) \subseteq ToSet(r)
  BY <1>2, <1>4, <1>5
<1> QED
  BY <1>1, <1>2, <1>6

LEMMA MissingIn ==
  ASSUME NEW nd \in NodeState, NEW pb \in Entry
  PROVE  Missing(nd, pb) \subseteq ToSet(Txs[pb.id]) \ pb.fetched
<1> DEFINE T == Transfer \ (pb.fetched \cup ToSet(nd.pool))
           all == Within(Txs[pb.id], T)
           k == IF Len(all) < FetchMax THEN Len(all) ELSE FetchMax
<1>1. Txs[pb.id] \in Seq(Transfer) /\ FetchMax \in Nat
  BY RelayAssumption DEF Entry
<1>2. Missing(nd, pb) = ToSet(SubSeq(all, 1, k))
  BY DEF Missing
<1>3. all \in Seq(Transfer) /\ ToSet(all) \subseteq ToSet(Txs[pb.id]) \cap T
  BY <1>1, Kept
<1>4. T \cap pb.fetched = {}
  OBVIOUS
<1> HIDE DEF all, T
<1>5. Len(all) \in Nat /\ k \in Nat /\ k <= Len(all)
  BY <1>1, <1>3
<1> HIDE DEF k
<1>6. \A i \in 1..k : SubSeq(all, 1, k)[i] \in ToSet(all)
  <2>1. SUFFICES ASSUME NEW i \in 1..k
                 PROVE  SubSeq(all, 1, k)[i] \in ToSet(all)
    OBVIOUS
  <2>2. SubSeq(all, 1, k)[i] = all[i] /\ i \in 1..Len(all)
    BY <1>3, <1>5, SubSeqProperties
  <2>3. ToSet(all) = {all[j] : j \in 1..Len(all)}
    BY <1>3 DEF ToSet
  <2> QED
    BY <2>2, <2>3
<1>7. SubSeq(all, 1, k) \in Seq(Transfer) /\ Len(SubSeq(all, 1, k)) = k
  BY <1>3, <1>5, SubSeqProperties
<1>8. ToSet(SubSeq(all, 1, k)) \subseteq ToSet(all)
  BY <1>6, <1>7 DEF ToSet
<1> QED
  BY <1>2, <1>3, <1>4, <1>8

LEMMA RequestsIn ==
  ASSUME NEW nd \in NodeState, NEW pb \in Entry, NEW ids \in Requests(nd, pb)
  PROVE  ids \subseteq ToSet(Txs[pb.id]) /\ ids \subseteq Transfer
<1>1. Missing(nd, pb) \subseteq ToSet(Txs[pb.id])
  BY MissingIn
<1>2. Txs[pb.id] \in Seq(Transfer)
  BY RelayAssumption DEF Entry
<1>3. ToSet(Txs[pb.id]) \subseteq Transfer
  BY <1>2, Elements
<1> QED
  BY <1>1, <1>3 DEF Requests

\* Turns with other entries.
LEMMA SoundEntries ==
  ASSUME NEW turn, NEW n \in Node, NEW source, NEW said, NEW waiting,
         Sound(turn, n, source, {}, said, waiting), NEW q \in Seq(Entry)
  PROVE  /\ Sound([turn EXCEPT !.node.pending = q], n, source, {}, said, q)
         /\ [turn EXCEPT !.node.pending = q].node = [turn.node EXCEPT !.pending = q]
<1> DEFINE nd == [turn.node EXCEPT !.pending = q]
<1>1. turn \in TurnState /\ turn.node \in NodeState
  BY DEF Sound, TurnState
<1>2. /\ nd \in NodeState /\ nd.recent = turn.node.recent /\ nd.blocks = turn.node.blocks
      /\ nd.pool = turn.node.pool /\ nd.pending = q
  BY <1>1 DEF NodeState
<1>3. [turn EXCEPT !.node.pending = q] = [turn EXCEPT !.node = nd]
  BY <1>1 DEF TurnState, NodeState
<1> HIDE DEF nd
<1>4. Grew(n, turn.node, nd) /\ ToSet(nd.pool) \subseteq Noted(n, nd) \cup {}
  BY <1>2 DEF Grew, Sound, SoundNode, Noted
<1>5. Sound([turn EXCEPT !.node = nd], n, source, {}, said, nd.pending)
  BY <1>2, <1>4, SoundGrow
<1>6. [turn EXCEPT !.node = nd].node = nd
  BY <1>1 DEF TurnState
<1> QED
  BY <1>2, <1>3, <1>5, <1>6 DEF nd

LEMMA SoundPending ==
  ASSUME NEW turn, NEW n \in Node, NEW source, NEW said, NEW waiting,
         Sound(turn, n, source, {}, said, waiting), NEW pb \in Entry
  PROVE  /\ Sound(Pending(turn, pb), n, source, {}, said, Touched(waiting, pb))
         /\ Noted(n, Pending(turn, pb).node) = Noted(n, turn.node)
         /\ Heard(n, Pending(turn, pb).node) = Heard(n, turn.node)
<1> DEFINE q == Touched(waiting, pb)
           nd == [turn.node EXCEPT !.pending = q]
<1>1. turn \in TurnState /\ turn.node \in NodeState /\ turn.node.pending = waiting
  BY DEF Sound, TurnState
<1>2. q \in Seq(Entry)
  BY <1>1, TouchedSeq DEF NodeState
<1>3. Pending(turn, pb) = [turn EXCEPT !.node.pending = q]
  BY <1>1 DEF Pending, TurnState, NodeState
<1> HIDE DEF q
<1>4. /\ Sound([turn EXCEPT !.node.pending = q], n, source, {}, said, q)
      /\ [turn EXCEPT !.node.pending = q].node = nd
  BY <1>2, SoundEntries
<1>5. nd.recent = turn.node.recent /\ nd.blocks = turn.node.blocks
  BY <1>1 DEF NodeState
<1>6. Noted(n, nd) = Noted(n, turn.node) /\ Heard(n, nd) = Heard(n, turn.node)
  BY <1>5 DEF Noted, Heard, Confirmed
<1> HIDE DEF nd
<1> QED
  BY <1>3, <1>4, <1>6 DEF q

LEMMA SoundSettled ==
  ASSUME NEW turn, NEW n \in Node, NEW source, NEW said, NEW waiting,
         Sound(turn, n, source, {}, said, waiting), NEW b
  PROVE  /\ Sound(Settled(turn, b), n, source, {}, said, Others(waiting, b))
         /\ Heard(n, Settled(turn, b).node) = Heard(n, turn.node)
<1> DEFINE q == Others(waiting, b)
           nd == [turn.node EXCEPT !.pending = q]
<1>1. turn \in TurnState /\ turn.node \in NodeState /\ turn.node.pending = waiting
  BY DEF Sound, TurnState
<1>2. q \in Seq(Entry)
  BY <1>1, OthersSeq DEF NodeState
<1>3. Settled(turn, b) = [turn EXCEPT !.node.pending = q]
  BY <1>1 DEF Settled, TurnState, NodeState
<1> HIDE DEF q
<1>4. /\ Sound([turn EXCEPT !.node.pending = q], n, source, {}, said, q)
      /\ [turn EXCEPT !.node.pending = q].node = nd
  BY <1>2, SoundEntries
<1>5. nd.recent = turn.node.recent /\ nd.blocks = turn.node.blocks
  BY <1>1 DEF NodeState
<1>6. Heard(n, nd) = Heard(n, turn.node)
  BY <1>5 DEF Noted, Heard, Confirmed
<1> HIDE DEF nd
<1> QED
  BY <1>3, <1>4, <1>6 DEF q

\* A block is connected and announced.
LEMMA SoundConnect ==
  ASSUME Base, NEW turn, NEW n \in Node, NEW source, NEW said, NEW waiting,
         Sound(turn, n, source, {}, said, waiting), NEW b \in Blk
  PROVE  /\ Sound(Connect(turn, b), n, source, {}, said, waiting)
         /\ Heard(n, turn.node) \subseteq Heard(n, Connect(turn, b).node)
<1> DEFINE nd == Extended(turn.node, b)
           next == [turn EXCEPT !.node = nd]
           T == Transfer \ ToSet(Txs[b])
           p == Within(turn.node.pool, T)
           c == Append(turn.node.blocks, b)
<1>1. /\ turn \in TurnState /\ turn.node \in NodeState /\ turn.node.pending = waiting
      /\ turn.node.pool \in Seq(Transfer) /\ turn.node.blocks \in Seq(Blk)
  BY DEF Sound, TurnState, NodeState
<1>2. p \in Seq(Transfer) /\ ToSet(p) \subseteq ToSet(turn.node.pool)
  BY <1>1, Kept
<1>3. c \in Seq(Blk) /\ ToSet(c) = ToSet(turn.node.blocks) \cup {b}
  BY <1>1, Elements
<1>4. nd = [turn.node EXCEPT !.blocks = c, !.pool = p]
  BY <1>1 DEF Extended, NodeState
<1>5. [turn EXCEPT !.node = Extended(@, b)] = next
  BY <1>1 DEF TurnState
<1> HIDE DEF c, p, nd
<1>6. /\ nd \in NodeState /\ nd.recent = turn.node.recent /\ nd.blocks = c
      /\ nd.pool = p /\ nd.pending = waiting
  BY <1>1, <1>2, <1>3, <1>4 DEF NodeState
<1>7. Grew(n, turn.node, nd)
  BY <1>3, <1>6 DEF Grew
<1>8. ToSet(nd.pool) \subseteq Noted(n, nd) \cup {}
  BY <1>2, <1>6 DEF Sound, SoundNode, Noted
<1>9. Sound(next, n, source, {}, said, waiting) /\ next.node = nd
  <2>1. Sound(next, n, source, {}, said, nd.pending)
    BY <1>6, <1>7, <1>8, SoundGrow
  <2> QED
    BY <1>1, <1>6, <2>1 DEF TurnState
<1>10. Connect(turn, b) = Announced(next, "inv", b)
  BY <1>5 DEF Connect
<1> HIDE DEF next
<1> DEFINE last == Announced(next, "inv", b)
<1>11. /\ Sound(last, n, source, {} \ {b}, said, waiting)
       /\ last.node = [next.node EXCEPT !.recent = @ \cup {b}]
  <2>1. Announceable("inv", b)
    BY DEF Announceable
  <2> QED
    BY <1>9, <2>1, SoundAnnounced
<1> HIDE DEF last
<1>12. {} \ {b} = {}
  OBVIOUS
<1>13. Grew(n, nd, last.node)
  BY <1>6, <1>9, <1>11 DEF Grew, NodeState
<1>14. Heard(n, turn.node) \subseteq Heard(n, last.node)
  BY <1>7, <1>13, HeardGrew
<1> QED
  BY <1>10, <1>11, <1>12, <1>14 DEF last

-----------------------------------------------------------------------------
(* The handlers of compact blocks, of transfers they lack and of whole     *)
(* blocks.                                                                 *)

\* What has come, of a block: a compact block, or a batch for its entry.
Came(e, m, p) ==
  /\ p.pb \in Entry /\ p.pb.id = m.id /\ m.id \in Blk
  /\ Sound(p.turn, At(e), {e}, {}, {}, node[At(e)].pending)
  /\ p.turn.node \in NodeState
  /\ m.id \in Heard(At(e), p.turn.node)
  /\ m.id \in ToSet(node[At(Far(e))].blocks)
  /\ m.id \in Heard(At(Far(e)), node[At(Far(e))])
  /\ \/ m.type = "compact" /\ p.pb.asked = {}
     \/ /\ m.type = "block-txs"
        /\ \E pb \in ToSet(node[At(e)].pending) :
             pb.id = m.id /\ p.pb.asked = pb.asked /\ p.pb.fetched = pb.fetched \cup m.txs

\* A compact block or a whole block comes: it is noted.
LEMMA NotedTold ==
  ASSUME Inv, NEW e \in End, NEW type \in {"compact", "block"}, NEW m \in Arrived(e, type),
         NEW turn, turn = Remembered(Knowing(On(e), {m.id}), {m.id})
  PROVE  /\ Sound(turn, At(e), {e}, {}, {}, node[At(e)].pending) /\ turn.node \in NodeState
         /\ m.id \in Blk /\ m.id \in Heard(At(e), turn.node)
         /\ m.id \in Heard(At(Far(e)), node[At(Far(e))])
         /\ m.id \in ToSet(node[At(Far(e))].blocks)
<1> DEFINE n == At(e)
           ids == {m.id}
           told == Knowing(On(e), ids)
           noted == Remembered(told, ids)
<1>1. /\ m \in Message /\ m.type = type /\ Connected(e) /\ n \in Node
      /\ Meant(m, At(Far(e)), node[At(Far(e))], n, node[n])
  BY TakeFacts DEF Inv
<1>2. m.id \in Blk /\ "id" \in DOMAIN m /\ ids \in SUBSET Id
  BY <1>1, MessageIds DEF IdType, BlockType, Id
<1>3. /\ m.id \in Heard(At(Far(e)), node[At(Far(e))]) /\ m.id \in Heard(n, node[n])
      /\ m.id \in ToSet(node[At(Far(e))].blocks)
  BY <1>1, <1>2 DEF Meant
<1>4. ids \subseteq Heard(At(Far(e)), node[At(Far(e))]) /\ {} \ ids = {} /\ turn = noted
  BY <1>3
<1> HIDE DEF ids
<1>5. Sound(told, n, {e}, {}, {}, node[n].pending) /\ told.node = node[n]
  BY <1>1, <1>2, <1>4, SoundTold
<1> HIDE DEF told, n
<1>6. Sound(noted, n, {e}, {} \ ids, {}, node[n].pending)
  BY <1>1, <1>2, <1>5, SoundRemembered
<1> HIDE DEF noted
<1>7. Sound(noted, n, {e}, {}, {}, node[n].pending)
  BY <1>4, <1>6
<1>8. Grew(n, node[n], noted.node) /\ noted.node \in NodeState
  BY <1>7 DEF Sound, SoundNode, TurnState
<1>9. m.id \in Heard(n, noted.node)
  BY <1>3, <1>8, HeardGrew
<1> QED
  BY <1>2, <1>3, <1>4, <1>7, <1>8, <1>9 DEF n

LEMMA ProgressCame ==
  ASSUME Inv, NEW e \in End, NEW p \in Progress(e)
  PROVE  \E type \in {"compact", "block-txs"} : \E m \in Arrived(e, type) : Came(e, m, p)
<1> DEFINE n == At(e)
<1>1. CASE \E m \in Arrived(e, "compact") :
             p = [pb |-> NewEntry(m.id),
                  turn |-> Remembered(Knowing(On(e), {m.id}), {m.id})]
  <2>1. PICK m \in Arrived(e, "compact") :
          p = [pb |-> NewEntry(m.id), turn |-> Remembered(Knowing(On(e), {m.id}), {m.id})]
    BY <1>1
  <2> DEFINE noted == Remembered(Knowing(On(e), {m.id}), {m.id})
  <2>2. p.pb = NewEntry(m.id) /\ p.turn = noted
    BY <2>1
  <2>3. /\ Sound(noted, n, {e}, {}, {}, node[n].pending) /\ noted.node \in NodeState
        /\ m.id \in Blk /\ m.id \in Heard(n, noted.node)
        /\ m.id \in Heard(At(Far(e)), node[At(Far(e))])
        /\ m.id \in ToSet(node[At(Far(e))].blocks)
    BY NotedTold
  <2> HIDE DEF noted
  <2>4. NewEntry(m.id) \in Entry /\ NewEntry(m.id).id = m.id /\ NewEntry(m.id).asked = {}
    BY <2>3 DEF NewEntry, Entry
  <2>5. m.type = "compact"
    BY DEF Arrived
  <2>6. Came(e, m, p)
    BY <2>2, <2>3, <2>4, <2>5 DEF Came
  <2> QED
    BY <2>6
<1>2. CASE \E m \in Arrived(e, "block-txs") : \E pb \in Entries(node[n], m.id) :
             p = [pb |-> [pb EXCEPT !.fetched = @ \cup m.txs], turn |-> Knowing(On(e), m.txs)]
  <2>0. PICK m \in Arrived(e, "block-txs") : \E pb \in Entries(node[n], m.id) :
          p = [pb |-> [pb EXCEPT !.fetched = @ \cup m.txs], turn |-> Knowing(On(e), m.txs)]
    BY <1>2
  <2>1. PICK pb \in Entries(node[n], m.id) :
          p = [pb |-> [pb EXCEPT !.fetched = @ \cup m.txs], turn |-> Knowing(On(e), m.txs)]
    BY <2>0
  <2> DEFINE told == Knowing(On(e), m.txs)
             next == [pb EXCEPT !.fetched = @ \cup m.txs]
  <2>2. /\ m \in Message /\ m.type = "block-txs" /\ Connected(e) /\ n \in Node
        /\ Meant(m, At(Far(e)), node[At(Far(e))], n, node[n])
    BY TakeFacts DEF Inv
  <2>3. m.id \in Blk /\ "id" \in DOMAIN m /\ m.txs \in SUBSET Transfer /\ m.txs \in SUBSET Id
    BY <2>2, MessageIds DEF IdType, PartType, Id
  <2>4. /\ m.id \in Heard(At(Far(e)), node[At(Far(e))]) /\ m.id \in Heard(n, node[n])
        /\ m.id \in ToSet(node[At(Far(e))].blocks)
        /\ m.txs \subseteq Heard(At(Far(e)), node[At(Far(e))])
    BY <2>2, <2>3 DEF Meant
  <2>5. /\ Sound(told, n, {e}, {}, {}, node[n].pending) /\ told.node = node[n]
    BY <2>2, <2>3, <2>4, SoundTold
  <2>6. node[n] \in NodeState
    BY <2>2 DEF Inv, Base, TypeOK
  <2>7. pb \in ToSet(node[n].pending) /\ pb.id = m.id
    BY <2>1 DEF Entries
  <2>8. pb \in Entry
    BY <2>6, <2>7, Elements DEF NodeState
  <2>9. next \in Entry /\ next.id = m.id /\ next.asked = pb.asked /\ next.fetched = pb.fetched \cup m.txs
    BY <2>3, <2>7, <2>8 DEF Entry
  <2>10. p.pb = next /\ p.turn = told
    BY <2>1
  <2> HIDE DEF told, next
  <2>11. Came(e, m, p)
    BY <2>2, <2>3, <2>4, <2>5, <2>6, <2>7, <2>9, <2>10 DEF Came
  <2> QED
    BY <2>1, <2>11
<1> QED
  BY <1>1, <1>2 DEF Progress

\* The turn ends: other entries stay, and that of the block waits for something.
LEMMA AnswerStep ==
  ASSUME Inv, NEW e \in End, NEW type, NEW m \in Arrived(e, type),
         type \in {"compact", "block-txs", "block"},
         NEW turn, NEW said, NEW waiting, Over(e, m, turn, said, waiting),
         \A pb \in ToSet(waiting) :
           \/ pb \in ToSet(node[At(e)].pending) /\ pb.id # m.id
           \/ Renewed(At(e), pb)
  PROVE  Inv'
<1>1. /\ Base' /\ AskedOnce' /\ Keeps(m, e)
      /\ \A d \in End : sock'[d].state = sock[d].state
      /\ node'[At(e)].pending = waiting
      /\ \A k \in Node : k # At(e) => node'[k] = node[k]
  BY TakeStep
<1>2. m.type = type /\ Base /\ Waited
  BY TakeFacts DEF Inv
<1>3. \A k \in Node : k # At(e) => node'[k].pending = node[k].pending
  BY <1>1
<1>4. Waited'
  BY <1>1, <1>2, <1>3, WaitedAnswered
<1> QED
  BY <1>1, <1>4 DEF Inv

\* The block is settled: no entry of it is left.
LEMMA SettledStep ==
  ASSUME Inv, NEW e \in End, NEW type, NEW m \in Arrived(e, type),
         type \in {"compact", "block-txs", "block"},
         NEW turn, NEW said,
         Over(e, m, turn, said, Others(node[At(e)].pending, m.id))
  PROVE  Inv'
<1>1. At(e) \in Node /\ node[At(e)] \in NodeState
  BY SoundOn
<1>2. \A pb \in ToSet(Others(node[At(e)].pending, m.id)) :
        pb \in ToSet(node[At(e)].pending) /\ pb.id # m.id
  BY <1>1, OthersSeq DEF NodeState
<1> QED
  BY <1>2, AnswerStep

\* Connected, announced, and the peer's pool asked for.
LEMMA AcceptedStep ==
  ASSUME Inv, NEW e \in End, NEW type, NEW m \in Arrived(e, type),
         type \in {"compact", "block-txs", "block"}, m.id \in Blk,
         NEW settled, Sound(settled, At(e), {e}, {}, {}, Others(node[At(e)].pending, m.id)),
         m.id \in Heard(At(e), settled.node),
         Takes(e, Reply(Connect(settled, m.id), [type |-> "mempool-request"]))
  PROVE  Inv'
<1> DEFINE n == At(e)
           b == m.id
           others == Others(node[n].pending, b)
           x == [type |-> "mempool-request"]
           next == Connect(settled, b)
           last == Reply(next, x)
<1>1. n \in Node /\ Base /\ Connected(e) /\ m \in Message /\ m.type = type
  BY TakeFacts DEF Inv
<1>2. Sound(next, n, {e}, {}, {}, others) /\ Heard(n, settled.node) \subseteq Heard(n, next.node)
  <2>1. b \in Blk /\ Sound(settled, n, {e}, {}, {}, others)
    OBVIOUS
  <2> HIDE DEF b, n, others
  <2> QED
    BY <1>1, <2>1, SoundConnect
<1>3. x \in Message /\ x.type = "mempool-request" /\ "id" \notin DOMAIN x
  BY NewMessage
<1>4. Takes(e, last)
  OBVIOUS
<1> HIDE DEF x, next, others
<1>5. Meant(x, n, next.node, At(Far(e)), node[At(Far(e))])
  BY <1>3 DEF Meant
<1>6. Sound(last, n, {e}, {}, {x}, others) /\ last.node = next.node
  BY <1>1, <1>2, <1>3, <1>5, SoundAnswer
<1>7. Fair(x, n, {e})
  BY <1>3 DEF Fair
<1>8. \A id : Mentions(m, id) => id \in Heard(n, last.node)
  BY <1>2, <1>6 DEF Mentions
<1> HIDE DEF last
<1>9. Over(e, m, last, {x}, others)
  BY <1>4, <1>6, <1>7, <1>8 DEF Over
<1> QED
  BY <1>9, SettledStep DEF others

LEMMA ConnectBlockStep ==
  ASSUME Inv, NEW e \in End, ConnectBlock(e)
  PROVE  Inv'
<1>1. PICK p \in Progress(e) : Takes(e, Accepted(p.turn, p.pb.id))
  BY DEF ConnectBlock
<1>0. PICK type \in {"compact", "block-txs"} : \E m \in Arrived(e, type) : Came(e, m, p)
  BY ProgressCame
<1>2. PICK m \in Arrived(e, type) : Came(e, m, p)
  BY <1>0
<1> DEFINE settled == Settled(p.turn, m.id)
<1>3. m.id \in Blk /\ p.pb.id = m.id /\ m.id \in Heard(At(e), p.turn.node)
  BY <1>2 DEF Came
<1>4. Takes(e, Reply(Connect(settled, m.id), [type |-> "mempool-request"]))
  BY <1>1, <1>3 DEF Accepted
<1>5. At(e) \in Node
  BY Ends
<1>6. /\ Sound(settled, At(e), {e}, {}, {}, Others(node[At(e)].pending, m.id))
      /\ Heard(At(e), settled.node) = Heard(At(e), p.turn.node)
  BY <1>2, <1>5, SoundSettled DEF Came
<1> HIDE DEF settled
<1> QED
  BY <1>3, <1>4, <1>6, AcceptedStep

LEMMA RefuseBlockStep ==
  ASSUME Inv, NEW e \in End, RefuseBlock(e)
  PROVE  Inv'
<1>1. PICK p \in Progress(e) : Takes(e, Settled(p.turn, p.pb.id))
  BY DEF RefuseBlock
<1>0. PICK type \in {"compact", "block-txs"} : \E m \in Arrived(e, type) : Came(e, m, p)
  BY ProgressCame
<1>2. PICK m \in Arrived(e, type) : Came(e, m, p)
  BY <1>0
<1> DEFINE settled == Settled(p.turn, m.id)
<1>3. m.id \in Blk /\ p.pb.id = m.id /\ m.id \in Heard(At(e), p.turn.node)
  BY <1>2 DEF Came
<1>4. Takes(e, settled)
  BY <1>1, <1>3
<1>5. At(e) \in Node
  BY Ends
<1>6. /\ Sound(settled, At(e), {e}, {}, {}, Others(node[At(e)].pending, m.id))
      /\ Heard(At(e), settled.node) = Heard(At(e), p.turn.node)
  BY <1>2, <1>5, SoundSettled DEF Came
<1> HIDE DEF settled
<1>7. \A id : Mentions(m, id) => id \in Heard(At(e), settled.node)
  BY <1>3, <1>6 DEF Mentions
<1>8. Over(e, m, settled, {}, Others(node[At(e)].pending, m.id))
  BY <1>4, <1>6, <1>7 DEF Over
<1> QED
  BY <1>8, SettledStep

\* What was asked for before still comes.
LEMMA AskedStays ==
  ASSUME Inv, NEW e \in End, NEW m, NEW p, Came(e, m, p), Keeps(m, e)
  PROVE  \A t \in p.pb.asked :
           t \in p.pb.fetched \/ Carries(At(e), m.id, t)' \/ HasBroken(At(e))
<1>1. SUFFICES ASSUME NEW t \in p.pb.asked, t \notin p.pb.fetched, ~ HasBroken(At(e))
               PROVE  Carries(At(e), m.id, t)'
  OBVIOUS
<1>2. m.type = "block-txs"
  BY <1>1 DEF Came
<1>3. PICK q \in ToSet(node[At(e)].pending) :
        q.id = m.id /\ p.pb.asked = q.asked /\ p.pb.fetched = q.fetched \cup m.txs
  BY <1>2 DEF Came
<1>4. t \in q.asked /\ t \notin q.fetched /\ t \notin m.txs
  BY <1>1, <1>3
<1>5. Carries(At(e), m.id, t)
  BY <1>1, <1>3, <1>4, Ends DEF Inv, Waited, AskedComes
<1> QED
  BY <1>2, <1>4, <1>5, CarriesKept

LEMMA CarriesComes ==
  ASSUME Base', NEW k, NEW b, NEW t, Carries(k, b, t)'
  PROVE  Comes(k, b)'
<1>1. wire' \in [End -> Seq(Message)]
  BY DEF Base, TypeOK
<1>2. PICK d \in EndsOf(k) :
        \/ \E x \in ToSet(wire'[d]) : x.type = "block-txs" /\ x.id = b /\ t \in x.txs
        \/ \E x \in ToSet(wire'[Far(d)]) : x.type = "block-tx-get" /\ x.id = b /\ t \in x.txs
  BY DEF Carries, EndsOf
<1>3. d \in End /\ Far(d) \in End /\ d \in EndsOf(k)'
  BY <1>2, Ends DEF EndsOf
<1>4. /\ ToSet(wire'[d]) \subseteq Message /\ ToSet(wire'[Far(d)]) \subseteq Message
  BY <1>1, <1>3, Elements
<1>5. \A x \in Message : x.type \in {"block-txs", "block-tx-get"} /\ x.id = b => Mentions(x, b)
  BY MentionsId DEF IdType, PartType
<1>6. CASE \E x \in ToSet(wire'[d]) : x.type = "block-txs" /\ x.id = b
  BY <1>3, <1>4, <1>5, <1>6 DEF Comes, UnderWay
<1>7. CASE \E x \in ToSet(wire'[Far(d)]) : x.type = "block-tx-get" /\ x.id = b
  BY <1>3, <1>4, <1>5, <1>7 DEF Comes, UnderWay
<1> QED
  BY <1>2, <1>6, <1>7

\* A request is sent, for what is missing or for the whole block.
Wants(e, m, p, pb, x) ==
  /\ pb \in Entry /\ pb.id = m.id /\ pb.fetched = p.pb.fetched
  /\ x \in Message /\ x.id = m.id
  /\ \/ x.type = "full-get" /\ pb.asked = p.pb.asked
     \/ /\ x.type = "block-tx-get" /\ x.txs \subseteq ToSet(Txs[m.id])
        /\ pb.asked = p.pb.asked \cup x.txs

LEMMA RequestStep ==
  ASSUME Inv, NEW e \in End, NEW type \in {"compact", "block-txs"}, NEW m \in Arrived(e, type),
         NEW p, Came(e, m, p), NEW pb, NEW x, Wants(e, m, p, pb, x),
         Takes(e, Reply(Pending(p.turn, pb), x))
  PROVE  Inv'
<1> DEFINE n == At(e)
           turn == Pending(p.turn, pb)
           waiting == Touched(node[n].pending, pb)
           last == Reply(turn, x)
<1>1. /\ m \in Message /\ Connected(e) /\ n \in Node /\ Far(e) \in End /\ e \in EndsOf(n)
      /\ node[n] \in NodeState
  BY TakeFacts, SoundOn DEF Inv, EndsOf
<1>2. /\ Sound(p.turn, n, {e}, {}, {}, node[n].pending)
      /\ m.id \in Heard(n, p.turn.node) /\ m.id \in Heard(At(Far(e)), node[At(Far(e))])
      /\ m.id \in ToSet(node[At(Far(e))].blocks)
  BY DEF Came
<1>3. pb \in Entry /\ pb.id = m.id /\ x \in Message /\ x.id = m.id /\ x.type \in {"full-get", "block-tx-get"}
  BY DEF Wants
<1>4. Takes(e, last)
  OBVIOUS
<1>5. /\ Sound(turn, n, {e}, {}, {}, waiting) /\ Heard(n, turn.node) = Heard(n, p.turn.node)
  BY <1>1, <1>2, <1>3, SoundPending
<1>6. \A y \in ToSet(waiting) : y = pb \/ (y \in ToSet(node[n].pending) /\ y.id # m.id)
  BY <1>1, <1>3, TouchedSeq DEF NodeState
<1> HIDE DEF turn, waiting, n
<1>7. Meant(x, n, turn.node, At(Far(e)), node[At(Far(e))])
  BY <1>2, <1>3, <1>5 DEF Meant, Wants
<1>8. /\ Sound(last, n, {e}, {}, {x}, waiting) /\ last.node = turn.node /\ x \in ToSet(last.out[e])
  BY <1>1, <1>3, <1>5, <1>7, SoundAnswer DEF n
<1> HIDE DEF last
<1>9. Over(e, m, last, {x}, waiting)
  <2>1. Fair(x, n, {e})
    BY <1>3 DEF Fair
  <2>2. \A id : Mentions(m, id) => id \in Heard(n, last.node)
    BY <1>2, <1>5, <1>8 DEF Mentions
  <2> QED
    BY <1>4, <1>8, <2>1, <2>2 DEF Over, n
<1>10. /\ Base' /\ Keeps(m, e)
       /\ sock[e].state = "open" => ToSet(last.out[e]) \subseteq ToSet(wire'[Far(e)])
  BY <1>9, TakeStep
<1>11. x \in ToSet(wire'[Far(e)]) \/ HasBroken(n)
  BY <1>1, <1>8, <1>10, ClosingBroken DEF Connected, Inv, n
<1>12. Mentions(x, m.id)
  BY <1>3, MentionsId DEF IdType, BlockType, PartType
<1>13. e \in EndsOf(n)'
  BY <1>1 DEF EndsOf
<1>14. Comes(n, pb.id)' \/ HasBroken(n)
  BY <1>3, <1>11, <1>12, <1>13 DEF Comes, UnderWay
<1>15. \A t \in p.pb.asked : t \in p.pb.fetched \/ Carries(n, m.id, t)' \/ HasBroken(n)
  BY <1>10, AskedStays DEF n
<1>16. ASSUME x.type = "block-tx-get", NEW t \in x.txs
       PROVE  Carries(n, m.id, t)' \/ HasBroken(n)
  BY <1>3, <1>11, <1>13, <1>16 DEF Carries
<1>17. Renewed(n, pb)
  <2>1. \A t \in pb.asked : t \in p.pb.asked \/ (x.type = "block-tx-get" /\ t \in x.txs)
    BY DEF Wants
  <2>2. pb.fetched = p.pb.fetched
    BY DEF Wants
  <2> QED
    BY <1>3, <1>14, <1>15, <1>16, <2>1, <2>2 DEF Renewed
<1> QED
  BY <1>6, <1>9, <1>17, AnswerStep DEF n

LEMMA FetchTxsStep ==
  ASSUME Inv, NEW e \in End, FetchTxs(e)
  PROVE  Inv'
<1>1. PICK p \in Progress(e) : \E ids \in Requests(p.turn.node, p.pb) :
        Takes(e, Reply(Pending(p.turn, [p.pb EXCEPT !.asked = @ \cup ids, !.rounds = @ + 1]),
                       [type |-> "block-tx-get", id |-> p.pb.id, txs |-> ids]))
  BY DEF FetchTxs
<1>2. PICK ids \in Requests(p.turn.node, p.pb) :
        Takes(e, Reply(Pending(p.turn, [p.pb EXCEPT !.asked = @ \cup ids, !.rounds = @ + 1]),
                       [type |-> "block-tx-get", id |-> p.pb.id, txs |-> ids]))
  BY <1>1
<1>3. PICK type \in {"compact", "block-txs"} : \E m \in Arrived(e, type) : Came(e, m, p)
  BY ProgressCame
<1>4. PICK m \in Arrived(e, type) : Came(e, m, p)
  BY <1>3
<1> DEFINE pb == [p.pb EXCEPT !.asked = @ \cup ids, !.rounds = @ + 1]
           x == [type |-> "block-tx-get", id |-> p.pb.id, txs |-> ids]
<1>5. Takes(e, Reply(Pending(p.turn, pb), x))
  BY <1>2
<1>6. p.pb \in Entry /\ p.pb.id = m.id /\ m.id \in Blk /\ p.turn.node \in NodeState
  BY <1>4 DEF Came
<1>7. ids \subseteq ToSet(Txs[m.id]) /\ ids \subseteq Transfer
  BY <1>6, RequestsIn
<1>8. /\ pb \in Entry /\ pb.id = m.id /\ pb.fetched = p.pb.fetched
      /\ pb.asked = p.pb.asked \cup ids
  <2> DEFINE asked == p.pb.asked \cup ids
             rounds == p.pb.rounds + 1
  <2>1. /\ asked \in SUBSET Transfer /\ rounds \in Nat
        /\ pb = [p.pb EXCEPT !.asked = asked, !.rounds = rounds]
    BY <1>6, <1>7 DEF Entry
  <2> HIDE DEF asked, rounds, pb
  <2>2. /\ pb \in Entry /\ pb.id = m.id /\ pb.fetched = p.pb.fetched /\ pb.asked = asked
    BY <1>6, <2>1 DEF Entry
  <2> QED
    BY <2>2 DEF asked
<1>9. x \in Message /\ x.type = "block-tx-get" /\ x.id = m.id /\ x.txs = ids
  BY <1>6, <1>7, NewMessage DEF PartType
<1> HIDE DEF pb, x
<1>10. Wants(e, m, p, pb, x)
  BY <1>7, <1>8, <1>9 DEF Wants
<1> QED
  BY <1>4, <1>5, <1>10, RequestStep

LEMMA FetchBlockStep ==
  ASSUME Inv, NEW e \in End, FetchBlock(e)
  PROVE  Inv'
<1>1. PICK p \in Progress(e) :
        Takes(e, Reply(Pending(p.turn, p.pb), [type |-> "full-get", id |-> p.pb.id]))
  BY DEF FetchBlock
<1>2. PICK type \in {"compact", "block-txs"} : \E m \in Arrived(e, type) : Came(e, m, p)
  BY ProgressCame
<1>3. PICK m \in Arrived(e, type) : Came(e, m, p)
  BY <1>2
<1> DEFINE pb == p.pb
           x == [type |-> "full-get", id |-> pb.id]
<1>4. Takes(e, Reply(Pending(p.turn, pb), x))
  BY <1>1
<1>5. pb \in Entry /\ pb.id = m.id /\ m.id \in Blk
  BY <1>3 DEF Came
<1>6. x \in Message /\ x.type = "full-get" /\ x.id = m.id
  BY <1>5, NewMessage DEF BlockType
<1> HIDE DEF x
<1>7. Wants(e, m, p, pb, x)
  BY <1>5, <1>6 DEF Wants
<1> QED
  BY <1>3, <1>4, <1>7, RequestStep

\* What is missing has been asked for, and comes.
LEMMA AwaitStep ==
  ASSUME Inv, NEW e \in End, Await(e)
  PROVE  Inv'
<1>1. PICK p \in Progress(e) :
        /\ Missing(p.turn.node, p.pb) # {} /\ {} \in Requests(p.turn.node, p.pb)
        /\ Takes(e, Pending(p.turn, p.pb))
  BY DEF Await
<1>2. PICK type \in {"compact", "block-txs"} : \E m \in Arrived(e, type) : Came(e, m, p)
  BY ProgressCame
<1>3. PICK m \in Arrived(e, type) : Came(e, m, p)
  BY <1>2
<1> DEFINE n == At(e)
           turn == Pending(p.turn, p.pb)
           waiting == Touched(node[n].pending, p.pb)
<1>4. /\ p.pb \in Entry /\ p.pb.id = m.id /\ p.turn.node \in NodeState
      /\ Sound(p.turn, n, {e}, {}, {}, node[n].pending) /\ m.id \in Heard(n, p.turn.node)
  BY <1>3 DEF Came
<1>5. n \in Node /\ node[n] \in NodeState
  BY SoundOn
<1>6. PICK t \in p.pb.asked : t \notin p.pb.fetched
  <2>1. Missing(p.turn.node, p.pb) \cap p.pb.fetched = {}
    BY <1>4, MissingIn
  <2>2. Missing(p.turn.node, p.pb) \subseteq p.pb.asked
    BY <1>1 DEF Requests
  <2> QED
    BY <1>1, <2>1, <2>2
<1>7. Takes(e, turn)
  BY <1>1
<1>8. /\ Sound(turn, n, {e}, {}, {}, waiting) /\ Heard(n, turn.node) = Heard(n, p.turn.node)
  BY <1>4, <1>5, SoundPending
<1>9. \A y \in ToSet(waiting) : y = p.pb \/ (y \in ToSet(node[n].pending) /\ y.id # m.id)
  BY <1>4, <1>5, TouchedSeq DEF NodeState
<1> HIDE DEF turn, waiting
<1>10. Over(e, m, turn, {}, waiting)
  <2>1. \A id : Mentions(m, id) => id \in Heard(n, turn.node)
    BY <1>4, <1>8 DEF Mentions
  <2> QED
    BY <1>7, <1>8, <2>1 DEF Over
<1>11. Base' /\ Keeps(m, e)
  BY <1>10, TakeStep
<1>12. \A s \in p.pb.asked : s \in p.pb.fetched \/ Carries(n, m.id, s)' \/ HasBroken(n)
  BY <1>3, <1>11, AskedStays
<1>13. Comes(n, m.id)' \/ HasBroken(n)
  BY <1>6, <1>11, <1>12, CarriesComes
<1>14. Renewed(n, p.pb)
  BY <1>4, <1>12, <1>13 DEF Renewed
<1> QED
  BY <1>9, <1>10, <1>14, AnswerStep

LEMMA IgnoreCompactStep ==
  ASSUME Inv, NEW e \in End, IgnoreCompact(e)
  PROVE  Inv'
<1>1. PICK m \in Arrived(e, "compact") : Takes(e, Remembered(Knowing(On(e), {m.id}), {m.id}))
  BY DEF IgnoreCompact
<1> DEFINE turn == Remembered(Knowing(On(e), {m.id}), {m.id})
<1>2. Sound(turn, At(e), {e}, {}, {}, node[At(e)].pending) /\ m.id \in Heard(At(e), turn.node)
  BY NotedTold
<1>3. Takes(e, turn)
  BY <1>1
<1> HIDE DEF turn
<1>4. \A id : Mentions(m, id) => id \in Heard(At(e), turn.node)
  BY <1>2 DEF Mentions
<1>5. Over(e, m, turn, {}, node[At(e)].pending)
  BY <1>2, <1>3, <1>4 DEF Over
<1> QED
  BY <1>5, QuietStep

LEMMA IgnoreBlockTxsStep ==
  ASSUME Inv, NEW e \in End, IgnoreBlockTxs(e)
  PROVE  Inv'
<1>1. PICK m \in Arrived(e, "block-txs") : Entries(node[At(e)], m.id) = {} /\ Takes(e, On(e))
  BY DEF IgnoreBlockTxs
<1> DEFINE turn == On(e)
<1>2. Sound(turn, At(e), {e}, {}, {}, node[At(e)].pending) /\ turn.node = node[At(e)]
  BY SoundOn
<1>3. /\ m \in Message /\ m.type = "block-txs"
      /\ Meant(m, At(Far(e)), node[At(Far(e))], At(e), node[At(e)])
  BY TakeFacts DEF Inv
<1>4. Takes(e, turn)
  BY <1>1
<1> HIDE DEF turn
<1>5. \A id : Mentions(m, id) => id \in Heard(At(e), turn.node)
  BY <1>2, <1>3 DEF Mentions, Meant
<1>6. Over(e, m, turn, {}, node[At(e)].pending)
  BY <1>2, <1>4, <1>5 DEF Over
<1>7. \A pb \in ToSet(node[At(e)].pending) : pb.id # m.id
  BY <1>1 DEF Entries
<1> QED
  BY <1>6, <1>7, AnswerStep

LEMMA HandleBlockStep ==
  ASSUME Inv, NEW e \in End, HandleBlock(e)
  PROVE  Inv'
<1>1. PICK m \in Arrived(e, "block") :
        \/ Takes(e, Accepted(Remembered(Knowing(On(e), {m.id}), {m.id}), m.id))
        \/ Takes(e, Settled(Remembered(Knowing(On(e), {m.id}), {m.id}), m.id))
  BY DEF HandleBlock
<1> DEFINE turn == Remembered(Knowing(On(e), {m.id}), {m.id})
           settled == Settled(turn, m.id)
<1>2. /\ Sound(turn, At(e), {e}, {}, {}, node[At(e)].pending)
      /\ m.id \in Blk /\ m.id \in Heard(At(e), turn.node)
  BY NotedTold
<1>3. \/ Takes(e, Reply(Connect(settled, m.id), [type |-> "mempool-request"]))
      \/ Takes(e, settled)
  BY <1>1 DEF Accepted
<1> HIDE DEF turn
<1>4. At(e) \in Node
  BY Ends
<1>5. /\ Sound(settled, At(e), {e}, {}, {}, Others(node[At(e)].pending, m.id))
      /\ Heard(At(e), settled.node) = Heard(At(e), turn.node)
  BY <1>2, <1>4, SoundSettled
<1> HIDE DEF settled
<1>6. CASE Takes(e, Reply(Connect(settled, m.id), [type |-> "mempool-request"]))
  BY <1>2, <1>5, <1>6, AcceptedStep
<1>7. CASE Takes(e, settled)
  <2>1. \A id : Mentions(m, id) => id \in Heard(At(e), settled.node)
    BY <1>2, <1>5 DEF Mentions
  <2>2. Over(e, m, settled, {}, Others(node[At(e)].pending, m.id))
    BY <1>5, <1>7, <2>1 DEF Over
  <2> QED
    BY <2>2, SettledStep
<1> QED
  BY <1>3, <1>6, <1>7

-----------------------------------------------------------------------------
(* What a node does of its own accord. *)

LEMMA OwnStep ==
  ASSUME Inv, NEW n \in Node, NEW turn, Sound(turn, n, {}, {}, {}, node[n].pending),
         Effect(n, wire, turn)
  PROVE  Inv'
<1>1. /\ Base /\ AskedOnce /\ Waited /\ wire \in [End -> Seq(Message)] /\ node \in [Node -> NodeState]
  BY DEF Inv, Base, TypeOK
<1>2. Left(wire, n, turn.node)
  BY <1>1 DEF Left
<1>3. Source(n, {})
  BY DEF Source
<1>4. Base'
  BY <1>1, <1>2, BaseStep
<1>5. AskedOnce'
  <2>1. /\ \A c, d \in {} : c = d
        /\ \A m \in {} : Fair(m, n, {})
    OBVIOUS
  <2> QED
    BY <1>1, <1>2, <1>3, <2>1, AskedStep
<1>6. \A d \in End : ToSet(wire[d]) \subseteq ToSet(wire'[d])
  BY <1>1, <1>2, UnderWayStep
<1>7. \A d \in End : sock'[d].state = sock[d].state
  BY DEF Effect, Sound, SoundSock
<1>8. \A k \in Node : node'[k].pending = node[k].pending
  BY <1>1 DEF Effect, Sound
<1> DEFINE m == [type |-> "mempool-request"]
<1>9. m.type \notin {"block-txs", "block", "block-tx-get", "full-get"}
  OBVIOUS
<1> HIDE DEF m
<1>10. Keeps(m, n)
  BY <1>6 DEF Keeps
<1>11. Waited'
  BY <1>1, <1>7, <1>8, <1>9, <1>10, WaitedSame
<1> QED
  BY <1>4, <1>5, <1>11 DEF Inv

LEMMA SubmitStep ==
  ASSUME Inv, NEW n \in Node, Submit(n)
  PROVE  Inv'
<1>1. PICK t \in Wallet[n] :
        /\ node' = [node EXCEPT ![n] = Offered(Turn(n, {}), t).node]
        /\ sock' = Offered(Turn(n, {}), t).sock
        /\ wire' = Sent(wire, Offered(Turn(n, {}), t).out)
  BY DEF Submit
<1> DEFINE turn == Turn(n, {})
           last == Offered(turn, t)
<1>2. Effect(n, wire, last)
  BY <1>1 DEF Effect
<1>3. t \in Transfer /\ Base
  BY RelayAssumption DEF Inv
<1>4. Sound(turn, n, {}, {}, {}, node[n].pending)
  BY <1>3, SoundStart
<1> HIDE DEF turn
<1>5. Sound(last, n, {}, {}, {}, node[n].pending)
  <2>1. Source(n, {}) /\ \A e \in {} : t \in Heard(At(Far(e)), node[At(Far(e))])
    BY DEF Source
  <2> QED
    BY <1>3, <1>4, <2>1, SoundOffered
<1> HIDE DEF last
<1> QED
  BY <1>2, <1>5, OwnStep

LEMMA MineStep ==
  ASSUME Inv, NEW n \in Node, Mine(n)
  PROVE  Inv'
<1>1. PICK b \in Blk :
        /\ node' = [node EXCEPT ![n] = Connect(Turn(n, {}), b).node]
        /\ sock' = Connect(Turn(n, {}), b).sock
        /\ wire' = Sent(wire, Connect(Turn(n, {}), b).out)
  BY DEF Mine
<1> DEFINE turn == Turn(n, {})
           last == Connect(turn, b)
<1>2. Effect(n, wire, last) /\ Base
  BY <1>1 DEF Effect, Inv
<1>3. Sound(turn, n, {}, {}, {}, node[n].pending)
  BY <1>2, SoundStart
<1> HIDE DEF turn
<1>4. Sound(last, n, {}, {}, {}, node[n].pending)
  BY <1>2, <1>3, SoundConnect
<1> HIDE DEF last
<1> QED
  BY <1>2, <1>4, OwnStep

\* Only the node's state changes, and nothing is sent.
LEMMA InwardStep ==
  ASSUME Inv, NEW n \in Node, NEW nd \in NodeState, Grew(n, node[n], nd),
         ToSet(nd.pool) \subseteq Noted(n, nd), nd.pending = node[n].pending,
         node' = [node EXCEPT ![n] = nd], UNCHANGED networkVars
  PROVE  Inv'
<1> DEFINE turn == Turn(n, {})
           last == [turn EXCEPT !.node = nd]
<1>1. Base /\ wire \in [End -> Seq(Message)]
  BY DEF Inv, Base, TypeOK
<1>2. Sound(turn, n, {}, {}, {}, node[n].pending)
  BY <1>1, SoundStart
<1>3. turn.node = node[n] /\ turn.sock = sock /\ turn.out = Silence
  BY DEF Turn
<1> HIDE DEF turn
<1>4. ToSet(nd.pool) \subseteq Noted(n, nd) \cup {} /\ turn \in TurnState
  BY <1>2 DEF Sound
<1>5. Sound(last, n, {}, {}, {}, node[n].pending)
  <2>1. Sound(last, n, {}, {}, {}, nd.pending)
    BY <1>2, <1>3, <1>4, SoundGrow
  <2> QED
    BY <2>1
<1>6. last.node = nd /\ last.sock = sock /\ last.out = Silence
  BY <1>3, <1>4 DEF TurnState
<1>7. Sent(wire, Silence) = wire
  <2>1. \A e \in End : wire[e] \o Silence[Far(e)] = wire[e]
    BY <1>1, Ends DEF Silence
  <2>2. Sent(wire, Silence) = [e \in End |-> wire[e]]
    BY <2>1 DEF Sent
  <2> QED
    BY <1>1, <2>2
<1>8. Effect(n, wire, last)
  BY <1>6, <1>7 DEF Effect, networkVars
<1> HIDE DEF last
<1> QED
  BY <1>5, <1>8, OwnStep

LEMMA EvictStep ==
  ASSUME Inv, NEW n \in Node, Evict(n)
  PROVE  Inv'
<1>1. PICK t : /\ node' = [node EXCEPT ![n].pool = Within(@, Transfer \ {t})]
               /\ UNCHANGED networkVars
  BY DEF Evict
<1> DEFINE pool == Within(node[n].pool, Transfer \ {t})
           nd == [node[n] EXCEPT !.pool = pool]
<1>2. /\ node[n] \in NodeState /\ node[n].pool \in Seq(Transfer)
      /\ ToSet(node[n].pool) \subseteq Noted(n, node[n])
  BY DEF Inv, Base, TypeOK, PoolNoted, NodeState
<1>3. pool \in Seq(Transfer) /\ ToSet(pool) \subseteq ToSet(node[n].pool)
  BY <1>2, Kept
<1>4. node' = [node EXCEPT ![n] = nd]
  BY <1>1
<1> HIDE DEF pool
<1>5. /\ nd \in NodeState /\ nd.blocks = node[n].blocks /\ nd.recent = node[n].recent
      /\ nd.pool = pool /\ nd.pending = node[n].pending
  BY <1>2, <1>3 DEF NodeState
<1> HIDE DEF nd
<1>6. Grew(n, node[n], nd) /\ ToSet(nd.pool) \subseteq Noted(n, nd)
  BY <1>2, <1>3, <1>5 DEF Grew, Noted
<1> QED
  BY <1>1, <1>4, <1>5, <1>6, InwardStep

LEMMA ExpireStep ==
  ASSUME Inv, NEW n \in Node, Expire(n)
  PROVE  Inv'
<1>1. PICK id \in Forgotten[n] : /\ node' = [node EXCEPT ![n].recent = @ \ {id}]
                                 /\ UNCHANGED networkVars
  BY DEF Expire
<1> DEFINE nd == [node[n] EXCEPT !.recent = @ \ {id}]
<1>2. node[n] \in NodeState /\ ToSet(node[n].pool) \subseteq Noted(n, node[n])
  BY DEF Inv, Base, TypeOK, PoolNoted
<1>3. node' = [node EXCEPT ![n] = nd]
  BY <1>1
<1>4. /\ nd \in NodeState /\ nd.blocks = node[n].blocks /\ nd.recent = node[n].recent \ {id}
      /\ nd.pool = node[n].pool /\ nd.pending = node[n].pending
  BY <1>2 DEF NodeState
<1> HIDE DEF nd
<1>5. Grew(n, node[n], nd) /\ ToSet(nd.pool) \subseteq Noted(n, nd)
  BY <1>1, <1>2, <1>4 DEF Grew, Noted
<1> QED
  BY <1>1, <1>3, <1>4, <1>5, InwardStep

-----------------------------------------------------------------------------
(* Connections. *)

\* Of a link: its ends' new states, and what is lost with it.
Relinked ==
  /\ sock' \in [End -> SocketState] /\ wire' \in [End -> Seq(Message)] /\ UNCHANGED node
  /\ Paired'
  /\ \A d \in End : \A m \in ToSet(wire'[d]) : m \in ToSet(wire[d]) \/ m.type = "mempool-request"
  /\ \A d \in End :
       \/ sock'[d].knows = {}
       \/ sock'[d].knows = sock[d].knows /\ sock'[d].state = "closing"
       \/ sock'[d] = sock[d] /\ ToSet(wire[Far(d)]) \subseteq ToSet(wire'[Far(d)])
  /\ \A d \in End : sock[d].state \in {"closing", "closed"} => sock'[d].state \in {"closing", "closed"}
  /\ \A d \in End :
       \/ ToSet(wire[d]) \subseteq ToSet(wire'[d])
       \/ d[1] \in Fragile /\ {sock'[d].state, sock'[Far(d)].state} \subseteq {"closing", "closed"}

LEMMA RelinkedStep ==
  ASSUME Inv, Relinked
  PROVE  Inv'
<1>1. Base /\ AskedOnce /\ Waited /\ node' = node /\ TypeOK'
  BY DEF Inv, Base, TypeOK, Relinked
<1>2. \A d \in End : \A m \in ToSet(wire'[d]) : m \in Message
  BY Elements DEF Relinked
<1>3. \A d \in End : \A m \in ToSet(wire'[d]) : m \in ToSet(wire[d]) \/ m.type = "mempool-request"
  BY DEF Relinked
<1>4. PoolNoted'
  BY <1>1 DEF Base, PoolNoted
<1>5. AllMeant'
  <2>1. SUFFICES ASSUME NEW d \in End, NEW m \in ToSet(wire'[d])
                 PROVE  Meant(m, At(Far(d)), node[At(Far(d))], At(d), node[At(d)])
    BY <1>1 DEF AllMeant
  <2>2. CASE m \in ToSet(wire[d])
    BY <1>1, <2>2 DEF Base, AllMeant
  <2>3. CASE m.type = "mempool-request"
    <3>1. "id" \notin DOMAIN m
      BY <1>2, <2>3, MessageIds DEF IdType, TransferType, BlockType, PartType
    <3> QED
      BY <2>3, <3>1 DEF Meant
  <2> QED
    BY <1>3, <2>2, <2>3
<1>6. KnowsHeard'
  <2>1. SUFFICES ASSUME NEW d \in End, NEW id \in sock'[d].knows
                 PROVE  \/ id \in Heard(At(Far(d)), node[At(Far(d))])
                        \/ \E m \in ToSet(wire'[Far(d)]) : Mentions(m, id)
                        \/ sock'[d].state = "closing"
    BY <1>1 DEF KnowsHeard
  <2>2. CASE sock'[d] = sock[d] /\ ToSet(wire[Far(d)]) \subseteq ToSet(wire'[Far(d)])
    BY <1>1, <2>2 DEF Base, KnowsHeard
  <2> QED
    BY <2>2 DEF Relinked
<1>7. Base'
  BY <1>1, <1>4, <1>5, <1>6 DEF Base, Relinked
<1>8. \A d \in End : \A id : Fetching(d, id)' => Fetching(d, id)
  BY <1>3, Ends DEF Fetching, UnderWay
<1>9. AskedOnce'
  BY <1>1, <1>8 DEF AskedOnce, EndsOf
<1>10. \A k \in Node : HasBroken(k) => HasBroken(k)'
  BY DEF HasBroken, EndsOf, Relinked
<1>11. \A d \in End : ToSet(wire[d]) \subseteq ToSet(wire'[d])
                      \/ (HasBroken(At(d))' /\ HasBroken(At(Far(d)))')
  BY Ends DEF Relinked, HasBroken, EndsOf
<1>12. \A k \in Node : \A b : Comes(k, b) => Comes(k, b)' \/ HasBroken(k)'
  BY <1>11, Ends DEF Comes, UnderWay, EndsOf
<1>13. \A k \in Node : \A b, t : Carries(k, b, t) => Carries(k, b, t)' \/ HasBroken(k)'
  BY <1>11, Ends DEF Carries, EndsOf
<1>14. AskedComes'
  BY <1>1, <1>10, <1>13 DEF Waited, AskedComes
<1>15. \A k \in Node : \A pb \in ToSet(node[k].pending) : Comes(k, pb.id) \/ HasBroken(k)
  BY <1>1 DEF Waited, PendingAnswered, Comes
<1>16. PendingAnswered'
  <2>1. \A k \in Node : \A pb \in ToSet(node'[k].pending) : Comes(k, pb.id)' \/ HasBroken(k)'
    BY <1>1, <1>10, <1>12, <1>15
  <2> QED
    BY <2>1 DEF PendingAnswered, Comes
<1> QED
  BY <1>7, <1>9, <1>14, <1>16 DEF Inv, Waited

\* A link's sockets become o and i, and the messages to its ends these.
LinkChange(l, o, i, toOut, toIn) ==
  /\ o \in SocketState /\ i \in SocketState /\ Fit(o, i, l)
  /\ toOut \in Seq(Message) /\ toIn \in Seq(Message)
  /\ sock' = [sock EXCEPT ![Out(l)] = o, ![In(l)] = i]
  /\ wire' = [wire EXCEPT ![Out(l)] = toOut, ![In(l)] = toIn]
  /\ \A m \in ToSet(toOut) : m \in ToSet(wire[Out(l)]) \/ m.type = "mempool-request"
  /\ \A m \in ToSet(toIn) : m \in ToSet(wire[In(l)]) \/ m.type = "mempool-request"
  /\ \/ o.knows = {}
     \/ o.knows = sock[Out(l)].knows /\ o.state = "closing"
     \/ o = sock[Out(l)] /\ ToSet(wire[In(l)]) \subseteq ToSet(toIn)
  /\ \/ i.knows = {}
     \/ i.knows = sock[In(l)].knows /\ i.state = "closing"
     \/ i = sock[In(l)] /\ ToSet(wire[Out(l)]) \subseteq ToSet(toOut)
  /\ sock[Out(l)].state \in {"closing", "closed"} => o.state \in {"closing", "closed"}
  /\ sock[In(l)].state \in {"closing", "closed"} => i.state \in {"closing", "closed"}
  /\ \/ ToSet(wire[Out(l)]) \subseteq ToSet(toOut) /\ ToSet(wire[In(l)]) \subseteq ToSet(toIn)
     \/ l \in Fragile /\ {o.state, i.state} \subseteq {"closing", "closed"}

LEMMA LinkStep ==
  ASSUME Inv, NEW l \in Link, UNCHANGED node, NEW o, NEW i, NEW toOut, NEW toIn,
         LinkChange(l, o, i, toOut, toIn)
  PROVE  Inv'
<1>1. /\ sock \in [End -> SocketState] /\ wire \in [End -> Seq(Message)] /\ Paired
  BY DEF Inv, Base, TypeOK
<1>2. /\ Out(l) \in End /\ In(l) \in End /\ Out(l) # In(l)
      /\ Far(Out(l)) = In(l) /\ Far(In(l)) = Out(l) /\ Out(l)[1] = l /\ In(l)[1] = l
  BY LinkEnds
<1>3. /\ sock' \in [End -> SocketState] /\ sock'[Out(l)] = o /\ sock'[In(l)] = i
      /\ \A d \in End : d \notin {Out(l), In(l)} => sock'[d] = sock[d]
  BY <1>1, <1>2 DEF LinkChange
<1>4. /\ wire' \in [End -> Seq(Message)] /\ wire'[Out(l)] = toOut /\ wire'[In(l)] = toIn
      /\ \A d \in End : d \notin {Out(l), In(l)} => wire'[d] = wire[d]
  BY <1>1, <1>2 DEF LinkChange
<1>5. \A d \in End : d \notin {Out(l), In(l)} => Far(d) \in End /\ Far(d) \notin {Out(l), In(l)}
  BY <1>2, Ends
<1>6. Paired'
  <2>1. Matched(l)'
    BY <1>3 DEF Matched, LinkChange
  <2>2. SUFFICES ASSUME NEW k \in Link, k # l
                 PROVE  Matched(k)'
    BY <2>1 DEF Paired
  <2>3. Out(k) \in End /\ In(k) \in End /\ Out(k)[1] = k /\ In(k)[1] = k
    BY LinkEnds
  <2>4. sock'[Out(k)] = sock[Out(k)] /\ sock'[In(k)] = sock[In(k)]
    BY <1>2, <1>3, <2>2, <2>3
  <2> QED
    BY <1>1, <2>4 DEF Paired, Matched
<1>7. \A d \in End : \A m \in ToSet(wire'[d]) : m \in ToSet(wire[d]) \/ m.type = "mempool-request"
  BY <1>4 DEF LinkChange
<1>8. \A d \in End :
        \/ sock'[d].knows = {}
        \/ sock'[d].knows = sock[d].knows /\ sock'[d].state = "closing"
        \/ sock'[d] = sock[d] /\ ToSet(wire[Far(d)]) \subseteq ToSet(wire'[Far(d)])
  BY <1>2, <1>3, <1>4, <1>5 DEF LinkChange
<1>9. \A d \in End : sock[d].state \in {"closing", "closed"} => sock'[d].state \in {"closing", "closed"}
  BY <1>3 DEF LinkChange
<1>10. \A d \in End :
         \/ ToSet(wire[d]) \subseteq ToSet(wire'[d])
         \/ d[1] \in Fragile /\ {sock'[d].state, sock'[Far(d)].state} \subseteq {"closing", "closed"}
  BY <1>2, <1>3, <1>4 DEF LinkChange
<1>11. Relinked
  BY <1>3, <1>4, <1>6, <1>7, <1>8, <1>9, <1>10 DEF Relinked
<1> QED
  BY <1>11, RelinkedStep

LEMMA LinkState ==
  ASSUME Inv, NEW l \in Link
  PROVE  /\ sock[Out(l)] \in SocketState /\ sock[In(l)] \in SocketState
         /\ wire[Out(l)] \in Seq(Message) /\ wire[In(l)] \in Seq(Message)
         /\ Fit(sock[Out(l)], sock[In(l)], l)
<1>1. sock \in [End -> SocketState] /\ wire \in [End -> Seq(Message)] /\ Matched(l)
  BY DEF Inv, Base, TypeOK, Paired
<1> QED
  BY <1>1, LinkEnds DEF Matched

\* A change of one end, as a change of both.
LEMMA BothOf ==
  ASSUME Inv, NEW l \in Link, NEW x
  PROVE  /\ [sock EXCEPT ![Out(l)] = x] = [sock EXCEPT ![Out(l)] = x, ![In(l)] = sock[In(l)]]
         /\ [sock EXCEPT ![In(l)] = x] = [sock EXCEPT ![Out(l)] = sock[Out(l)], ![In(l)] = x]
         /\ [wire EXCEPT ![Out(l)] = x] = [wire EXCEPT ![Out(l)] = x, ![In(l)] = wire[In(l)]]
         /\ [wire EXCEPT ![In(l)] = x] = [wire EXCEPT ![Out(l)] = wire[Out(l)], ![In(l)] = x]
         /\ wire = [wire EXCEPT ![Out(l)] = wire[Out(l)], ![In(l)] = wire[In(l)]]
<1>1. sock \in [End -> SocketState] /\ wire \in [End -> Seq(Message)]
  BY DEF Inv, Base, TypeOK
<1>2. /\ [sock EXCEPT ![Out(l)] = x] = [sock EXCEPT ![Out(l)] = x, ![In(l)] = sock[In(l)]]
      /\ [sock EXCEPT ![In(l)] = x] = [sock EXCEPT ![Out(l)] = sock[Out(l)], ![In(l)] = x]
  BY <1>1, LinkEnds
<1>3. /\ [wire EXCEPT ![Out(l)] = x] = [wire EXCEPT ![Out(l)] = x, ![In(l)] = wire[In(l)]]
      /\ [wire EXCEPT ![In(l)] = x] = [wire EXCEPT ![Out(l)] = wire[Out(l)], ![In(l)] = x]
      /\ wire = [wire EXCEPT ![Out(l)] = wire[Out(l)], ![In(l)] = wire[In(l)]]
  BY <1>1, LinkEnds
<1> QED
  BY <1>2, <1>3

LEMMA Fresh ==
  ASSUME NEW s \in {"none", "dialing", "open", "closing", "closed"}
  PROVE  Socket(s) \in SocketState /\ Socket(s).state = s /\ Socket(s).knows = {}
  BY DEF Socket, SocketState

LEMMA DialStep ==
  ASSUME Inv, NEW l \in Link, Dial(l), UNCHANGED node
  PROVE  Inv'
<1> DEFINE o == Socket("dialing")
           i == sock[In(l)]
<1>1. o \in SocketState /\ o.state = "dialing" /\ o.knows = {}
  BY Fresh
<1>2. /\ sock[Out(l)].state = "none" /\ i.state = "none" /\ i.knows = {}
      /\ i \in SocketState /\ wire[Out(l)] \in Seq(Message) /\ wire[In(l)] \in Seq(Message)
  BY LinkState DEF Dial, Fit
<1>3. /\ sock' = [sock EXCEPT ![Out(l)] = o, ![In(l)] = i]
      /\ wire' = [wire EXCEPT ![Out(l)] = wire[Out(l)], ![In(l)] = wire[In(l)]]
  BY BothOf DEF Dial
<1> HIDE DEF o
<1>4. Fit(o, i, l)
  BY <1>1, <1>2 DEF Fit
<1>5. LinkChange(l, o, i, wire[Out(l)], wire[In(l)])
  BY <1>1, <1>2, <1>3, <1>4 DEF LinkChange
<1> QED
  BY <1>5, LinkStep

LEMMA AcceptStep ==
  ASSUME Inv, NEW l \in Link, Accept(l)
  PROVE  Inv'
<1> DEFINE o == sock[Out(l)]
           i == Socket("open")
           x == [type |-> "mempool-request"]
           toOut == Append(wire[Out(l)], x)
<1>1. i \in SocketState /\ i.state = "open" /\ i.knows = {}
  BY Fresh
<1>2. /\ o.state = "dialing" /\ o.knows = {} /\ sock[In(l)].state = "none"
      /\ o \in SocketState /\ wire[Out(l)] \in Seq(Message) /\ wire[In(l)] \in Seq(Message)
  BY LinkState DEF Accept, Fit
<1>3. toOut \in Seq(Message) /\ ToSet(toOut) = ToSet(wire[Out(l)]) \cup {x} /\ x.type = "mempool-request"
  BY <1>2, NewMessage, Elements
<1>4. sock' = [sock EXCEPT ![In(l)] = i] /\ wire' = [wire EXCEPT ![Out(l)] = toOut] /\ UNCHANGED node
  BY LinkEnds DEF Accept, Greet
<1> HIDE DEF i, toOut
<1>5. /\ sock' = [sock EXCEPT ![Out(l)] = o, ![In(l)] = i]
      /\ wire' = [wire EXCEPT ![Out(l)] = toOut, ![In(l)] = wire[In(l)]]
  BY <1>4, BothOf
<1>6. Fit(o, i, l)
  BY <1>1, <1>2 DEF Fit
<1>7. LinkChange(l, o, i, toOut, wire[In(l)])
  BY <1>1, <1>2, <1>3, <1>5, <1>6 DEF LinkChange
<1> QED
  BY <1>4, <1>7, LinkStep

LEMMA OpenStep ==
  ASSUME Inv, NEW l \in Link, Open(l)
  PROVE  Inv'
<1> DEFINE o == Socket("open")
           i == sock[In(l)]
           x == [type |-> "mempool-request"]
           toIn == Append(wire[In(l)], x)
<1>1. o \in SocketState /\ o.state = "open" /\ o.knows = {}
  BY Fresh
<1>2. /\ sock[Out(l)].state = "dialing" /\ i.state = "open"
      /\ i \in SocketState /\ wire[Out(l)] \in Seq(Message) /\ wire[In(l)] \in Seq(Message)
  BY LinkState DEF Open
<1>3. toIn \in Seq(Message) /\ ToSet(toIn) = ToSet(wire[In(l)]) \cup {x} /\ x.type = "mempool-request"
  BY <1>2, NewMessage, Elements
<1>4. sock' = [sock EXCEPT ![Out(l)] = o] /\ wire' = [wire EXCEPT ![In(l)] = toIn] /\ UNCHANGED node
  BY LinkEnds DEF Open, Greet
<1> HIDE DEF o, toIn
<1>5. /\ sock' = [sock EXCEPT ![Out(l)] = o, ![In(l)] = i]
      /\ wire' = [wire EXCEPT ![Out(l)] = wire[Out(l)], ![In(l)] = toIn]
  BY <1>4, BothOf
<1>6. Fit(o, i, l)
  BY <1>1, <1>2 DEF Fit
<1>7. LinkChange(l, o, i, wire[Out(l)], toIn)
  BY <1>1, <1>2, <1>3, <1>5, <1>6 DEF LinkChange
<1> QED
  BY <1>4, <1>7, LinkStep

LEMMA CloseStep ==
  ASSUME Inv, NEW e \in End, Close(e)
  PROVE  Inv'
<1> DEFINE l == e[1]
           s == Socket("closed")
           o == sock[Out(l)]
           i == sock[In(l)]
<1>1. l \in Link /\ (e = Out(l) \/ e = In(l))
  BY Ends
<1>2. s \in SocketState /\ s.state = "closed" /\ s.knows = {}
  BY Fresh
<1>3. <<>> \in Seq(Message) /\ ToSet(<<>>) = {}
  BY DEF ToSet
<1>4. /\ sock[e].state = "closing" /\ sock' = [sock EXCEPT ![e] = s]
      /\ wire' = [wire EXCEPT ![e] = <<>>] /\ UNCHANGED node
  BY DEF Close
<1> HIDE DEF l, s
<1>5. /\ o \in SocketState /\ i \in SocketState /\ Fit(o, i, l)
      /\ wire[Out(l)] \in Seq(Message) /\ wire[In(l)] \in Seq(Message)
  BY <1>1, LinkState
<1>6. /\ o.state \in {"closing", "closed"} /\ i.state \in {"closing", "closed"} /\ l \in Fragile
      /\ o.state = "closed" => o.knows = {}
      /\ i.state = "closed" => i.knows = {}
  BY <1>1, <1>4, <1>5 DEF Fit
<1>7. Fit(s, i, l) /\ Fit(o, s, l)
  BY <1>2, <1>6 DEF Fit
<1>8. CASE e = Out(l)
  <2>1. /\ sock' = [sock EXCEPT ![Out(l)] = s, ![In(l)] = i]
        /\ wire' = [wire EXCEPT ![Out(l)] = <<>>, ![In(l)] = wire[In(l)]]
    BY <1>1, <1>4, <1>8, BothOf
  <2>2. LinkChange(l, s, i, <<>>, wire[In(l)])
    BY <1>2, <1>3, <1>5, <1>6, <1>7, <2>1 DEF LinkChange
  <2> QED
    BY <1>1, <1>4, <2>2, LinkStep
<1>9. CASE e = In(l)
  <2>1. /\ sock' = [sock EXCEPT ![Out(l)] = o, ![In(l)] = s]
        /\ wire' = [wire EXCEPT ![Out(l)] = wire[Out(l)], ![In(l)] = <<>>]
    BY <1>1, <1>4, <1>9, BothOf
  <2>2. LinkChange(l, o, s, wire[Out(l)], <<>>)
    BY <1>2, <1>3, <1>5, <1>6, <1>7, <2>1 DEF LinkChange
  <2> QED
    BY <1>1, <1>4, <2>2, LinkStep
<1> QED
  BY <1>1, <1>8, <1>9

LEMMA BreakStep ==
  ASSUME Inv, NEW l \in Fragile, Break(l), UNCHANGED node
  PROVE  Inv'
<1> DEFINE so == sock[Out(l)]
           si == sock[In(l)]
           o2 == IF so.state = "dialing" THEN "closed" ELSE IF so.state = "open" THEN "closing" ELSE so.state
           i2 == IF si.state = "none" THEN "closed" ELSE IF si.state = "open" THEN "closing" ELSE si.state
           o == [so EXCEPT !.state = o2]
           i == [si EXCEPT !.state = i2]
<1>1. l \in Link
  BY RelayAssumption
<1>2. <<>> \in Seq(Message) /\ ToSet(<<>>) = {}
  BY DEF ToSet
<1>3. /\ so \in SocketState /\ si \in SocketState /\ Fit(so, si, l)
  BY <1>1, LinkState
<1>4. /\ sock' = [sock EXCEPT ![Out(l)] = o, ![In(l)] = i]
      /\ wire' = [wire EXCEPT ![Out(l)] = <<>>, ![In(l)] = <<>>]
  <2>1. sock \in [End -> SocketState] /\ Out(l) \in End /\ In(l) \in End /\ Out(l) # In(l)
    BY <1>1, LinkEnds DEF Inv, Base, TypeOK
  <2> QED
    BY <2>1 DEF Break
<1>5. /\ so.state \in {"dialing", "open"} /\ si.state \in {"none", "open"}
      /\ so.state = "dialing" => so.knows = {}
      /\ si.state = "none" => si.knows = {}
  BY <1>3 DEF Fit, Break
<1>6. /\ o2 \in {"closing", "closed"} /\ i2 \in {"closing", "closed"}
      /\ o2 = "closed" => so.knows = {}
      /\ i2 = "closed" => si.knows = {}
  BY <1>5
<1> HIDE DEF so, si, o2, i2
<1>7. /\ o \in SocketState /\ o.state = o2 /\ o.knows = so.knows
      /\ i \in SocketState /\ i.state = i2 /\ i.knows = si.knows
  BY <1>3, <1>6 DEF SocketState
<1> HIDE DEF o, i
<1>8. Fit(o, i, l)
  BY <1>6, <1>7 DEF Fit
<1>9. /\ o.knows = {} \/ (o.knows = sock[Out(l)].knows /\ o.state = "closing")
      /\ i.knows = {} \/ (i.knows = sock[In(l)].knows /\ i.state = "closing")
  BY <1>6, <1>7 DEF so, si
<1>10. LinkChange(l, o, i, <<>>, <<>>)
  BY <1>2, <1>4, <1>6, <1>7, <1>8, <1>9 DEF LinkChange
<1> QED
  BY <1>1, <1>10, LinkStep

-----------------------------------------------------------------------------
(* The theorems. *)

LEMMA InitInv ==
  ASSUME Init
  PROVE  Inv
<1>1. PICK start \in Start : sock = [e \in End |-> Socket(start[e[1]])]
  BY DEF Init
<1>2. start \in [Link -> {"none", "open", "closed"}]
  BY <1>1, RelayAssumption
<1>3. \A e \in End : /\ sock[e] = Socket(start[e[1]]) /\ sock[e] \in SocketState
                     /\ sock[e].state = start[e[1]] /\ sock[e].knows = {}
  BY <1>1, <1>2, Ends, Fresh
<1>4. wire = [e \in End |-> <<>>] /\ \A e \in End : ToSet(wire[e]) = {}
  BY DEF Init, ToSet
<1>5. \A n \in Node : /\ node[n] \in NodeState
                      /\ ToSet(node[n].pool) = {} /\ ToSet(node[n].pending) = {}
  BY RelayAssumption DEF Init, NodeState, ToSet
<1>6. TypeOK
  <2>1. sock \in [End -> SocketState]
    BY <1>1, <1>3
  <2>2. wire \in [End -> Seq(Message)]
    BY <1>4
  <2>3. node \in [Node -> NodeState]
    <3>1. DOMAIN node = Node /\ node = [n \in Node |-> node[n]]
      BY DEF Init
    <3> QED
      BY <1>5, <3>1
  <2> QED
    BY <2>1, <2>2, <2>3 DEF TypeOK
<1>7. Paired
  <2>1. SUFFICES ASSUME NEW l \in Link
                 PROVE  Fit(sock[Out(l)], sock[In(l)], l)
    BY DEF Paired, Matched
  <2>2. /\ sock[Out(l)].state = start[l] /\ sock[In(l)].state = start[l]
        /\ sock[Out(l)].knows = {} /\ sock[In(l)].knows = {}
    BY <1>3, LinkEnds
  <2> QED
    BY <1>2, <2>2 DEF Fit
<1>8. Base
  BY <1>3, <1>4, <1>5, <1>6, <1>7, Ends DEF Base, PoolNoted, AllMeant, KnowsHeard
<1>9. AskedOnce
  BY <1>4, Ends DEF AskedOnce, Fetching, UnderWay, EndsOf
<1>10. Waited
  BY <1>5 DEF Waited, AskedComes, PendingAnswered
<1> QED
  BY <1>8, <1>9, <1>10 DEF Inv

LEMMA HandleStep ==
  ASSUME Inv, NEW e \in End, Handle(e)
  PROVE  Inv'
BY HandleTxInvStep, ServeTxStep, HandleTxBatchStep, ServeMempoolStep, HandleMempoolStep,
   HandleInvStep, ServeBlockStep, ServeBlockTxsStep, ConnectBlockStep, RefuseBlockStep,
   FetchTxsStep, FetchBlockStep, AwaitStep, IgnoreCompactStep, IgnoreBlockTxsStep,
   HandleBlockStep DEF Handle

LEMMA IdleStep ==
  ASSUME Inv, UNCHANGED vars
  PROVE  Inv'
BY DEF vars, networkVars, Inv, Base, TypeOK, Paired, Matched, PoolNoted, AllMeant, KnowsHeard,
       AskedOnce, Fetching, UnderWay, EndsOf, Waited, AskedComes, Carries, PendingAnswered,
       HasBroken

LEMMA NextStep ==
  ASSUME Inv, [Next]_vars
  PROVE  Inv'
<1>1. CASE \E e \in End : Handle(e)
  BY <1>1, HandleStep
<1>2. CASE \E e \in End : Close(e)
  BY <1>2, CloseStep
<1>3. CASE \E l \in Link : Lifecycle(l)
  BY <1>3, DialStep, AcceptStep, OpenStep DEF Lifecycle
<1>4. CASE \E l \in Fragile : Break(l) /\ UNCHANGED node
  BY <1>4, BreakStep
<1>5. CASE \E n \in Node : Submit(n) \/ Evict(n) \/ Mine(n) \/ Expire(n)
  BY <1>5, SubmitStep, EvictStep, MineStep, ExpireStep
<1>6. CASE UNCHANGED vars
  BY <1>6, IdleStep
<1> QED
  BY <1>1, <1>2, <1>3, <1>4, <1>5, <1>6 DEF Next

(* What every message says of the two nodes it passes between, what is noted *)
(* of every peer and what every entry of pendingCompactBlocks waits for are  *)
(* kept by every handler of network.ts, by breaking and closing connections  *)
(* and by what expires.                                                      *)
THEOREM Invariant == Spec => []Inv
<1>1. Init => Inv
  BY InitInv
<1>2. Inv /\ [Next]_vars => Inv'
  BY NextStep
<1> QED
  BY <1>1, <1>2, PTL DEF Spec

(* A transfer or a block that several peers announce is fetched from one of  *)
(* them, as long as recentTxSeen and recentBlockSeen remember it.            *)
THEOREM FetchedOnce == Spec => []AskedOnce
<1>1. Inv => AskedOnce
  BY DEF Inv
<1> QED
  BY <1>1, Invariant, PTL

(* peerKnownTxs and peerKnownBlocks never say too much: who is left out of   *)
(* an announcement has heard of the id, or the word is on its way.           *)
THEOREM Knowledge == Spec => []KnowsRight
<1>1. Inv => KnowsRight
  <2>1. SUFFICES ASSUME Inv, NEW e \in End, NEW id \in sock[e].knows
                 PROVE  \/ Aware(At(Far(e)), id)
                        \/ \E m \in ToSet(wire[Far(e)]) : Mentions(m, id)
                        \/ sock[e].state = "closing"
    BY DEF KnowsRight
  <2>2. \/ id \in Heard(At(Far(e)), node[At(Far(e))])
        \/ \E m \in ToSet(wire[Far(e)]) : Mentions(m, id)
        \/ sock[e].state = "closing"
    BY <2>1 DEF Inv, Base, KnowsHeard
  <2> QED
    BY <2>2 DEF Heard, Noted, Aware
<1> QED
  BY <1>1, Invariant, PTL

(* What a node waits for in pendingCompactBlocks is under way to it, asked   *)
(* for or answered, unless one of its connections broke.                     *)
THEOREM Answered == Spec => []PendingAnswered
<1>1. Inv => PendingAnswered
  BY DEF Inv, Waited
<1> QED
  BY <1>1, Invariant, PTL
=============================================================================
