---------------------------- MODULE MempoolPolicy ----------------------------
(***************************************************************************)
(* The mempool of chain.ts as functions of a pool and the ledger the chain *)
(* currently stands on: reservations, admission with eviction, and the     *)
(* selection of a block's body.                                            *)
(*                                                                         *)
(* A pool is a record                                                      *)
(*    txs    the waiting transfers                     (mempool)           *)
(*    next   sender -> nonce it must use next          (mempoolNextNonce)  *)
(*    held   sender -> sum its usable transfers spend  (mempoolReserved)   *)
(* The Map's insertion order only breaks ties between transfers that       *)
(* compare equal; the model leaves such ties open, so operators that       *)
(* depend on them return the set of possible outcomes.                     *)
(***************************************************************************)
EXTENDS Ledger

CONSTANTS
  MaxNonce,        (* largest nonce a transfer may carry (MAX_SAFE_INTEGER)*)
  MaxPoolTxs,      (* MAX_MEMPOOL_TXS                                      *)
  MaxPerSender,    (* MAX_MEMPOOL_TXS_PER_SENDER                           *)
  MinRelayFee,     (* DEFAULT_MIN_RELAY_FEE, per started 1000 bytes        *)
  MaxTxPerBlock,   (* MAX_TX_PER_BLOCK                                     *)
  MaxBlockBytes    (* MAX_BLOCK_BYTES                                      *)

ASSUME PoolAssumption ==
  /\ {MaxNonce, MaxPoolTxs, MaxPerSender, MaxTxPerBlock} \subseteq Nat \ {0}
  /\ {MinRelayFee, MaxBlockBytes} \subseteq Nat

MempoolMinBytes == 100
MempoolMaxBytes == 50000

TransferType == [from : Account, to : Account, amount : Nat \ {0}, fee : Nat,
                 nonce : 1..MaxNonce, bytes : Nat \ {0}]

-----------------------------------------------------------------------------
(* Reservations: rebuilt from the pool and the ledger after every change.  *)

Senders(txs) == {t.from : t \in txs}

NoncesOf(txs, a) == {t.nonce : t \in {u \in txs : u.from = a}}

\* The first nonce above the confirmed one that no waiting transfer carries.
FirstGap(txs, st, a) ==
  LET confirmed == Num(st.nonce, a)
  IN CHOOSE n \in (confirmed + 1)..(confirmed + MaxNonce + 1) :
       /\ n \notin NoncesOf(txs, a)
       /\ \A k \in (confirmed + 1)..(n - 1) : k \in NoncesOf(txs, a)

\* The transfers of a that could be confirmed one after the other.
Usable(txs, st, a) ==
  {t \in txs : /\ t.from = a
               /\ t.nonce > Num(st.nonce, a)
               /\ t.nonce < FirstGap(txs, st, a)}

Rebuilt(txs, st) ==
  [txs  |-> txs,
   next |-> [a \in Senders(txs) |-> FirstGap(txs, st, a)],
   held |-> [a \in {s \in Senders(txs) : Usable(txs, st, s) # {}} |->
               Total(Cost, Usable(txs, st, a))]]

EmptyPool == [txs |-> {}, next |-> EmptyMap, held |-> EmptyMap]

\* Mutant: the transfers that wait are not counted.
NextNonce_Confirmed(pool, st, a) == Num(st.nonce, a) + 1

NextNonce(pool, st, a) ==
  IF a \in DOMAIN pool.next THEN pool.next[a] ELSE Num(st.nonce, a) + 1

-----------------------------------------------------------------------------
(* Relay policy and eviction. *)

RelayFee(bytes) == Max({1, (bytes + 999) \div 1000}) * MinRelayFee

PolicyOk(t) ==
  /\ t.bytes \in MempoolMinBytes..MempoolMaxBytes
  /\ t.fee >= RelayFee(t.bytes)

\* Fee rates are compared as fractions, cross-multiplied.
RateBelow(a, b) == a.fee * b.bytes < b.fee * a.bytes
RateEqual(a, b) == a.fee * b.bytes = b.fee * a.bytes

Weaker(a, b) ==
  \/ RateBelow(a, b)
  \/ RateEqual(a, b) /\ a.fee < b.fee
  \/ RateEqual(a, b) /\ a.fee = b.fee /\ a.bytes > b.bytes

EvictedBefore(a, b) == Weaker(a, b) \/ (~ Weaker(b, a) /\ a.nonce < b.nonce)

Weakest(txs) == {t \in txs : \A u \in txs : ~ EvictedBefore(u, t)}

\* Mutant: the transfers that depend on the evicted one stay.
Package_Alone(txs, w) == {w}

\* Evicting a transfer takes every later one of its sender along.
Package(txs, w) == {t \in txs : t.from = w.from /\ t.nonce >= w.nonce}

\* The incoming fee rate beats the rate of the whole package.
Outbids(t, package) ==
  t.fee * Total(LAMBDA u : u.bytes, package) > Total(LAMBDA u : u.fee, package) * t.bytes

\* The outcomes of one eviction among scope to make room for t.
EvictFrom(txs, t, scope) ==
  {IF Outbids(t, Package(txs, w))
     THEN [ok |-> TRUE, txs |-> txs \ Package(txs, w)]
     ELSE [ok |-> FALSE, txs |-> txs] : w \in Weakest(scope)}

\* Mutant: the limit is noticed one transfer late.
EvictForSender_Late(txs, t) ==
  LET own == {u \in txs : u.from = t.from}
  IN IF Cardinality(own) > MaxPerSender THEN EvictFrom(txs, t, own)
                                        ELSE {[ok |-> TRUE, txs |-> txs]}

EvictForSender(txs, t) ==
  LET own == {u \in txs : u.from = t.from}
  IN IF Cardinality(own) >= MaxPerSender THEN EvictFrom(txs, t, own)
                                         ELSE {[ok |-> TRUE, txs |-> txs]}

\* The loop's second round would need more than MaxPoolTxs in the pool.
EvictForPool(txs, t) ==
  IF Cardinality(txs) >= MaxPoolTxs THEN EvictFrom(txs, t, txs)
                                    ELSE {[ok |-> TRUE, txs |-> txs]}

MaybeEvictForAdmission(txs, t) ==
  UNION {IF e.ok THEN EvictForPool(e.txs, t) ELSE {e} : e \in EvictForSender(txs, t)}

-----------------------------------------------------------------------------
(* addToMempool. *)

Acceptable(pool, st, t) ==
  /\ t \notin pool.txs
  /\ t.amount > 0 /\ t.fee >= MinFee /\ t.nonce > 0
  /\ PolicyOk(t)
  /\ t.nonce = NextNonce(pool, st, t.from)

\* What is left of the pool once room is made, and t in it if it can pay.
Admit(txs, st, t) ==
  LET room == Rebuilt(txs, st)
  IN IF Num(st.bal, t.from) - Num(room.held, t.from) >= Cost(t)
     THEN [added |-> TRUE, pool |-> Rebuilt(txs \cup {t}, st)]
     ELSE [added |-> FALSE, pool |-> room]

\* The outcomes of offering t to the pool.
AddToMempool(pool, st, t) ==
  IF ~ Acceptable(pool, st, t)
  THEN {[added |-> FALSE, pool |-> pool]}
  ELSE {IF e.ok THEN Admit(e.txs, st, t)
                ELSE [added |-> FALSE,
                      pool |-> IF e.txs = pool.txs THEN pool ELSE Rebuilt(e.txs, st)] :
          e \in MaybeEvictForAdmission(pool.txs, t)}

-----------------------------------------------------------------------------
(* buildBlock: one pass over the pool in order of priority. *)

Before(a, b) ==
  \/ RateBelow(b, a)
  \/ RateEqual(a, b) /\ a.fee > b.fee
  \/ RateEqual(a, b) /\ a.fee = b.fee /\ a.bytes < b.bytes

PriorityOrders(txs) ==
  {s \in SetToSeqs(txs) : \A i, j \in DOMAIN s : i < j => ~ Before(s[j], s[i])}

Bytes(body) == FoldLeft(LAMBDA sum, t : sum + t.bytes, 0, body)

\* The pass keeps a transfer only if it is its sender's next when reached.
Select(order, st) ==
  LET Needed(body, a) == Num(st.nonce, a) + 1 + Len(SelectSeq(body, LAMBDA t : t.from = a))
      Step(body, t) ==
        IF /\ Len(body) < MaxTxPerBlock
           /\ t.nonce = Needed(body, t.from)
           /\ Bytes(body) + t.bytes <= MaxBlockBytes
        THEN Append(body, t)
        ELSE body
  IN FoldLeft(Step, <<>>, order)

\* The bodies buildBlock may choose from the pool.
BlockBodies(txs, st) == {Select(order, st) : order \in PriorityOrders(txs)}
=============================================================================
