----------------------------- MODULE StateProofs -----------------------------
(***************************************************************************)
(* State proofs: the Merkle tree over the leaves of a ledger, the cache of *)
(* its layers, the node that answers for the balance, nonce, pending       *)
(* reward or supply asked of it, over HTTP or by a PROOF_REQUEST of the    *)
(* peer-to-peer protocol, and the command-line client that asks a peer.    *)
(*                                                                         *)
(* Hashes do not collide: the hash of a leaf is the leaf, marked as one,   *)
(* and the hash of two hashes is the pair.  How the node comes to a ledger *)
(* is module Chain's subject; here its tip moves among the blocks of Blk.  *)
(***************************************************************************)
EXTENDS Ledger

CONSTANTS
  Blk,          (* the blocks the tip can be                               *)
  Genesis,      (* GENESIS_HASH                                            *)
  LedgerAt,     (* block -> the ledger it leaves                           *)
  Accounts,     (* the accounts in the order their names sort in           *)
  Client,       (* processes that ask the node for a proof                 *)
  Wanted,       (* what is asked: [kind, address, index]                   *)
  CacheMax,     (* MERKLE_LAYERS_CACHE_MAX                                 *)
  MaxAsked      (* bounds the requests a client makes                      *)

ASSUME StateProofsAssumption ==
  /\ Genesis \in Blk
  /\ Range(Accounts) = Account
  /\ \A b \in Blk : IsLedger(LedgerAt[b])
  /\ CacheMax \in Nat \ {0} /\ MaxAsked \in Nat

VARIABLES
  tip,      (* the node's tip                                              *)
  cache,    (* merkleLayersCache: [key, layers], the oldest first          *)
  asks,     (* client -> requests made                                     *)
  client,   (* client -> [phase, want, answer]                             *)
  wire,     (* client -> what is under way on its connection               *)
  seen      (* client -> the tips the node has had since it asked          *)

vars == <<tip, cache, asks, client, wire, seen>>

-----------------------------------------------------------------------------
(* The leaves of a ledger. *)

Minted(n) == [kind |-> "minted", address |-> "none", index |-> 0, value |-> <<n>>]
Balance(a, n) == [kind |-> "balance", address |-> a, index |-> 0, value |-> <<n>>]
Nonce(a, n) == [kind |-> "nonce", address |-> a, index |-> 0, value |-> <<n>>]
Pending(a, i, p) == [kind |-> "pending", address |-> a, index |-> i, value |-> <<p.unlock, p.amount>>]

\* An account's rewards, those that mature first first.
Rewards(st, a) ==
  SetToSortSeq({p \in st.pend : p.to = a},
               LAMBDA p, q : p.unlock < q.unlock \/ (p.unlock = q.unlock /\ p.amount < q.amount))

InOrder(S) == SelectSeq(Accounts, LAMBDA a : a \in S)

\* Sorted as strings: by kind, then by address and index.
Leaves(st) ==
  LET OfPending(a) == [i \in 1..Len(Rewards(st, a)) |-> Pending(a, i - 1, Rewards(st, a)[i])]
      balances == InOrder(DOMAIN st.bal)
      nonces == InOrder(DOMAIN st.nonce)
  IN [i \in DOMAIN balances |-> Balance(balances[i], st.bal[balances[i]])]
     \o <<Minted(st.minted)>>
     \o [i \in DOMAIN nonces |-> Nonce(nonces[i], st.nonce[nonces[i]])]
     \o FlattenSeq([i \in DOMAIN Accounts |-> OfPending(Accounts[i])])

-----------------------------------------------------------------------------
(* The tree. *)

Leaf(claim) == [leaf |-> claim]
Hash(left, right) == [left |-> left, right |-> right]

\* Mutant: the last hash of an odd layer is left out.
Above_Dropped(layer) ==
  [i \in 1..Max({1, Len(layer) \div 2}) |-> Hash(layer[2 * i - 1], layer[2 * i])]

\* The next layer: pairs, an odd one out paired with itself.
Above(layer) ==
  [i \in 1..((Len(layer) + 1) \div 2) |->
     Hash(layer[2 * i - 1], layer[Min({2 * i, Len(layer)})])]

RECURSIVE LayersFrom(_)
LayersFrom(layer) ==
  IF Len(layer) = 1 THEN <<layer>> ELSE <<layer>> \o LayersFrom(Above(layer))

RootOf(layers) == Last(layers)[1]

\* What goes with the hash at place i, counted from 0, up to the root.
Path(layers, i) ==
  [d \in 1..(Len(layers) - 1) |->
     LET at == i \div 2 ^ (d - 1)
         pair == IF at % 2 = 1 THEN at - 1 ELSE at + 1
     IN [position |-> IF at % 2 = 1 THEN "left" ELSE "right",
         hash |-> layers[d][Min({pair + 1, Len(layers[d])})]]]

\* verifyStateProof: the path leads from the claim's leaf to the root.
Verifies(proof) ==
  proof.root =
    FoldLeft(LAMBDA hash, step : IF step.position = "left" THEN Hash(step.hash, hash)
                                                         ELSE Hash(hash, step.hash),
             Leaf(proof.claim), proof.path)

-----------------------------------------------------------------------------
(* The cache of layers. *)

LeavesAt == [b \in Blk |-> Leaves(LedgerAt[b])]
HashesAt == [b \in Blk |-> [i \in DOMAIN LeavesAt[b] |-> Leaf(LeavesAt[b][i])]]

\* computeStateRoot, from nothing.
RootAt == [b \in Blk |-> RootOf(LayersFrom(HashesAt[b]))]

Key(hashes) == hashes

Hits(hashes) == {i \in DOMAIN cache : cache[i].key = Key(hashes)}

Layers(hashes) ==
  IF Hits(hashes) # {} THEN cache[CHOOSE i \in Hits(hashes) : TRUE].layers
  ELSE LayersFrom(hashes)

\* A hit becomes the youngest entry; a new one may push out the oldest.
Used(hashes) ==
  LET entry == [key |-> Key(hashes), layers |-> Layers(hashes)]
      others == SelectSeq(cache, LAMBDA e : e.key # Key(hashes))
  IN cache' = Append(IF Len(others) < CacheMax THEN others ELSE Tail(others), entry)

-----------------------------------------------------------------------------
(* The node. *)

\* The claim that answers a wish, in a set that is empty if there is none.
Answering(want, b) ==
  {claim \in Range(LeavesAt[b]) :
     /\ claim.kind = want.kind
     /\ want.kind = "minted" \/ (claim.address = want.address /\ claim.index = want.index)}

Unavailable == [ok |-> FALSE]

\* Mutant: the proof is made from the leaf after the one that is claimed.
Proof_Shifted(claim, hashes, layers) ==
  [root |-> RootOf(layers), claim |-> claim,
   path |-> Path(layers, IndexFirstSubSeq(<<Leaf(claim)>>, hashes) % Len(hashes))]

Proof(claim, hashes, layers) ==
  [root |-> RootOf(layers), claim |-> claim,
   path |-> Path(layers, IndexFirstSubSeq(<<Leaf(claim)>>, hashes) - 1)]

Shown(proof) == [ok |-> TRUE, verified |-> Verifies(proof), proof |-> proof]

Answered(want) ==
  IF Answering(want, tip) = {} THEN Unavailable
  ELSE Shown(Proof(CHOOSE c \in Answering(want, tip) : TRUE, HashesAt[tip], Layers(HashesAt[tip])))

\* Only a proof that is made looks at the layers.
Proving(want) == IF Answering(want, tip) = {} THEN UNCHANGED cache ELSE Used(HashesAt[tip])

\* A block is connected or a branch adopted: its root is computed on the way.
\* (The roots of transactions are kept in the same cache and only push out.)
Move(b) ==
  /\ b # tip
  /\ tip' = b
  /\ Used(HashesAt[b])
  /\ seen' = [c \in Client |-> IF client[c].phase = "open" THEN seen[c] \cup {b} ELSE seen[c]]
  /\ UNCHANGED <<asks, client, wire>>

\* GET /proof/..., answered in one turn.
Get(c, want) ==
  /\ client[c].phase = "idle"
  /\ client' = [client EXCEPT ![c] = [phase |-> "answered", want |-> want, answer |-> Answered(want)]]
  /\ seen' = [seen EXCEPT ![c] = {tip}]
  /\ Proving(want)
  /\ UNCHANGED <<tip, asks, wire>>

\* PROOF_REQUEST.
Serve(c) ==
  /\ wire[c] = "request"
  /\ wire' = [wire EXCEPT ![c] = "reply"]
  /\ client' = [client EXCEPT ![c].answer = Answered(client[c].want)]
  /\ Proving(client[c].want)
  /\ UNCHANGED <<tip, asks, seen>>

\* A limit swallows the request or the reply.
Lose(c) ==
  /\ wire[c] \in {"request", "reply"}
  /\ wire' = [wire EXCEPT ![c] = "nothing"]
  /\ client' = [client EXCEPT ![c].answer = Unavailable]
  /\ UNCHANGED <<tip, cache, asks, seen>>

-----------------------------------------------------------------------------
(* The client, requestP2PProof. *)

Resting == [phase |-> "idle", want |-> [kind |-> "none"], answer |-> Unavailable]

\* However it ends, the socket is closed and what is on it is lost.
Ended(c, phase) ==
  /\ client' = [client EXCEPT ![c] = [@ EXCEPT !.phase = phase, !.answer = Unavailable]]
  /\ wire' = [wire EXCEPT ![c] = "nothing"]

Ask(c, want) ==
  /\ client[c].phase = "idle" /\ asks[c] < MaxAsked
  /\ asks' = [asks EXCEPT ![c] = @ + 1]
  /\ client' = [client EXCEPT ![c] = [Resting EXCEPT !.phase = "dialling", !.want = want]]
  /\ UNCHANGED <<tip, cache, wire, seen>>

Open(c) ==
  /\ client[c].phase = "dialling"
  /\ client' = [client EXCEPT ![c].phase = "open"]
  /\ wire' = [wire EXCEPT ![c] = "request"]
  /\ seen' = [seen EXCEPT ![c] = {tip}]
  /\ UNCHANGED <<tip, cache, asks>>

\* Messages that are not the answer to this request are passed over.
Receive(c) ==
  /\ client[c].phase = "open" /\ wire[c] = "reply"
  /\ client' = [client EXCEPT ![c].phase = "answered"]
  /\ wire' = [wire EXCEPT ![c] = "nothing"]
  /\ UNCHANGED <<tip, cache, asks, seen>>

\* Mutant: the time runs while the connection is being made only.
Timeout_Dialling(c) ==
  /\ client[c].phase = "dialling"
  /\ Ended(c, "failed")
  /\ UNCHANGED <<tip, cache, asks, seen>>

Timeout(c) ==
  /\ client[c].phase \in {"dialling", "open"}
  /\ Ended(c, "failed")
  /\ UNCHANGED <<tip, cache, asks, seen>>

SocketError(c) ==
  /\ client[c].phase \in {"dialling", "open"}
  /\ Ended(c, "failed")
  /\ UNCHANGED <<tip, cache, asks, seen>>

\* The node closes the connection: the timer is stopped, and nothing else.
Closed(c) ==
  /\ client[c].phase = "open"
  /\ Ended(c, "silent")
  /\ UNCHANGED <<tip, cache, asks, seen>>

\* The process is over; the next command is a new one.
Exit(c) ==
  /\ client[c].phase \in {"answered", "failed", "silent"}
  /\ client' = [client EXCEPT ![c] = Resting]
  /\ seen' = [seen EXCEPT ![c] = {}]
  /\ UNCHANGED <<tip, cache, asks, wire>>

\* The node starts again on its chain, with an empty cache.
Restart ==
  /\ cache' = <<>>
  /\ client' = [c \in Client |-> IF client[c].phase = "open"
                                 THEN [client[c] EXCEPT !.phase = "silent", !.answer = Unavailable]
                                 ELSE client[c]]
  /\ wire' = [c \in Client |-> "nothing"]
  /\ UNCHANGED <<tip, asks, seen>>

Init ==
  /\ tip = Genesis /\ cache = <<>>
  /\ asks = [c \in Client |-> 0]
  /\ client = [c \in Client |-> Resting]
  /\ wire = [c \in Client |-> "nothing"]
  /\ seen = [c \in Client |-> {}]

Next ==
  \/ \E b \in Blk : Move(b)
  \/ \E c \in Client :
       \/ \E want \in Wanted : Get(c, want) \/ Ask(c, want)
       \/ Open(c) \/ Serve(c) \/ Lose(c) \/ Receive(c)
       \/ Timeout(c) \/ SocketError(c) \/ Closed(c) \/ Exit(c)
  \/ Restart

\* Only the client's own timer is relied on.
Spec == Init /\ [][Next]_vars /\ \A c \in Client : WF_vars(Timeout(c))

-----------------------------------------------------------------------------
(* Properties. *)

\* Is it the answer to the wish on the ledger of b?
True(answer, want, b) ==
  IF answer.ok
  THEN /\ answer.verified /\ Verifies(answer.proof)
       /\ answer.proof.claim \in Answering(want, b)
       /\ answer.proof.root = RootAt[b]
  ELSE Answering(want, b) = {}

(* Every answer, over HTTP or from a peer, is true of one ledger: that of   *)
(* a tip the node had while the question was open.  The claim, the path and *)
(* the root that blocks commit to are of the same ledger, and "not          *)
(* available" is said only where there is nothing to prove, however tips    *)
(* move and layers come from the cache or fall out of it.                   *)
AnswersTrue ==
  \A c \in Client : client[c].phase = "answered" =>
    \E b \in seen[c] : True(client[c].answer, client[c].want, b)

(* The root tells ledgers apart: blocks commit to equal roots only if they  *)
(* leave equal ledgers, accounts with a balance of nothing included.        *)
RootsTell ==
  \A b \in Blk : RootAt[b] = RootOf(Layers(HashesAt[tip]))
                   => LedgerAt[b] = LedgerAt[tip]

(* A request ends whatever becomes of its messages: with an answer, with an *)
(* error, or because the node has closed the connection.                    *)
RequestsEnd ==
  \A c \in Client : client[c].phase \in {"dialling", "open"}
                      ~> client[c].phase \in {"answered", "failed", "silent"}

=============================================================================
