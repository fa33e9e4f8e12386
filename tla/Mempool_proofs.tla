--------------------------- MODULE Mempool_proofs ---------------------------
(***************************************************************************)
(* Proofs of what Mempool claims, for every set of accounts and transfers, *)
(* every ledger and every limit.                                           *)
(*                                                                         *)
(* The invariant that carries the others is Inductive: the index is fresh, *)
(* so the nonce a sender must use next is one no waiting transfer of his   *)
(* carries; and the last save is as good as the pool, so that a restart    *)
(* finds nothing worse than what was there.                                *)
(***************************************************************************)
EXTENDS Mempool, FiniteSetTheorems, WellFoundedInduction, TLAPS

USE LedgerAssumption, PoolAssumption, MempoolAssumption

-----------------------------------------------------------------------------
(* The next nonce. *)

\* A nonempty set of numbers has a least one.
LEMMA LeastNat ==
  ASSUME NEW T, T \subseteq Nat, T # {}
  PROVE  \E x \in T : \A y \in T : x <= y
<1>1. IsWellFoundedOn(OpToRel(<,Nat), Nat)  BY NatLessThanWellFounded
<1>2. PICK x \in T : \A y \in T : ~ (<<y, x>> \in OpToRel(<,Nat))  BY <1>1, WFMin
<1>3. \A y \in T : ~ (y < x)  BY <1>2 DEF OpToRel
<1>. QED BY <1>3

\* FirstGap always finds a nonce above the confirmed one, and nobody waits with it.
LEMMA GapFound ==
  ASSUME NEW txs \in SUBSET Tx, NEW st, NEW a, Num(st.nonce, a) \in Nat
  PROVE  /\ FirstGap(txs, st, a) \in Nat
         /\ FirstGap(txs, st, a) > Num(st.nonce, a)
         /\ FirstGap(txs, st, a) \notin NoncesOf(txs, a)
<1>. DEFINE c == Num(st.nonce, a)
            window == (c + 1)..(c + MaxNonce + 1)
            free == window \ NoncesOf(txs, a)
<1>1. c + MaxNonce + 1 \in free
  BY DEF NoncesOf, TransferType
<1>2. PICK n \in free : \A k \in free : n <= k
  <2>. free \subseteq Nat  OBVIOUS
  <2>. HIDE DEF free
  <2>. QED BY <1>1, LeastNat
<1>3. \A k \in (c + 1)..(n - 1) : k \in NoncesOf(txs, a)
  BY <1>2
<1>4. \E m \in window : /\ m \notin NoncesOf(txs, a)
                        /\ \A k \in (c + 1)..(m - 1) : k \in NoncesOf(txs, a)
  BY <1>2, <1>3
<1>. QED BY <1>4 DEF FirstGap

-----------------------------------------------------------------------------
(* Making room. *)

\* kept is what is left of txs when only tails of senders' nonces went.
TailCut(txs, kept) ==
  /\ kept \subseteq txs
  /\ \A out \in txs \ kept, in \in kept : out.from = in.from => in.nonce < out.nonce

OwnOf(txs, a) == {t \in txs : t.from = a}

Bounded(txs) ==
  /\ Cardinality(txs) <= MaxPoolTxs
  /\ \A a \in Account : Cardinality(OwnOf(txs, a)) <= MaxPerSender

LEMMA TailCutSelf == ASSUME NEW txs PROVE TailCut(txs, txs)
BY DEF TailCut

LEMMA TailCutTwice ==
  ASSUME NEW txs, NEW mid, NEW kept, TailCut(txs, mid), TailCut(mid, kept)
  PROVE  TailCut(txs, kept)
BY DEF TailCut

\* Evicting a package cuts a tail and, if it succeeds, frees a place in scope.
LEMMA EvictCuts ==
  ASSUME NEW txs \in SUBSET Tx, NEW t, NEW scope \in SUBSET txs,
         NEW e \in EvictFrom(txs, t, scope)
  PROVE  /\ TailCut(txs, e.txs)
         /\ e.ok => \E w \in scope : w \notin e.txs
<1>1. PICK w \in Weakest(scope) :
         e = IF Outbids(t, Package(txs, w))
             THEN [ok |-> TRUE, txs |-> txs \ Package(txs, w)]
             ELSE [ok |-> FALSE, txs |-> txs]
  BY DEF EvictFrom
<1>2. w \in scope /\ w \in Tx  BY DEF Weakest
<1>3. CASE Outbids(t, Package(txs, w))
  <2>1. e.ok = TRUE /\ e.txs = txs \ Package(txs, w)  BY <1>1, <1>3
  <2>2. w.nonce \in Nat /\ \A u \in txs : u.nonce \in Nat
    BY <1>2 DEF TransferType
  <2>3. w \in Package(txs, w)  BY <1>2, <2>2 DEF Package
  <2>4. TailCut(txs, txs \ Package(txs, w))
    BY <2>2 DEF TailCut, Package
  <2>. QED BY <1>2, <2>1, <2>3, <2>4
<1>4. CASE ~ Outbids(t, Package(txs, w))
  <2>1. e.ok = FALSE /\ e.txs = txs  BY <1>1, <1>4
  <2>. QED BY <2>1, TailCutSelf
<1>. QED BY <1>3, <1>4

\* A part of a set of transfers is no larger, and smaller if something is gone.
LEMMA PartSmaller ==
  ASSUME NEW S \in SUBSET Tx, NEW R \in SUBSET S
  PROVE  /\ Cardinality(S) \in Nat /\ Cardinality(R) \in Nat
         /\ Cardinality(R) <= Cardinality(S)
         /\ \A w \in S : w \notin R => Cardinality(R) < Cardinality(S)
<1>1. IsFiniteSet(S) /\ IsFiniteSet(R)  BY FS_Subset
<1>2. Cardinality(S) \in Nat /\ Cardinality(R) \in Nat  BY <1>1, FS_CardinalityType
<1>3. Cardinality(R) <= Cardinality(S)  BY <1>1, FS_Subset
<1>4. ASSUME NEW w \in S, w \notin R  PROVE Cardinality(R) < Cardinality(S)
  <2>1. R # S  BY <1>4
  <2>. QED BY <1>1, <1>2, <1>3, <2>1, FS_Subset
<1>. QED BY <1>2, <1>3, <1>4

LEMMA BoundedPart ==
  ASSUME NEW S \in SUBSET Tx, NEW R \in SUBSET S, Bounded(S)
  PROVE  Bounded(R)
<1>1. Cardinality(R) <= MaxPoolTxs  BY PartSmaller DEF Bounded
<1>2. ASSUME NEW a \in Account PROVE Cardinality(OwnOf(R, a)) <= MaxPerSender
  <2>1. OwnOf(S, a) \in SUBSET Tx /\ OwnOf(R, a) \in SUBSET OwnOf(S, a)  BY DEF OwnOf
  <2>. QED BY <2>1, PartSmaller DEF Bounded
<1>. QED BY <1>1, <1>2 DEF Bounded

\* Room for t: one more, of its sender, is within the limits.
Room(txs, t) ==
  /\ Cardinality(txs) < MaxPoolTxs
  /\ Cardinality(OwnOf(txs, t.from)) < MaxPerSender

LEMMA BoundedWith ==
  ASSUME NEW S \in SUBSET Tx, NEW t \in Tx, t \notin S, Bounded(S), Room(S, t)
  PROVE  Bounded(S \cup {t})
<1>1. \A R \in SUBSET S : IsFiniteSet(R) /\ Cardinality(R) \in Nat
                          /\ Cardinality(R \cup {t}) = Cardinality(R) + 1
  BY FS_Subset, FS_CardinalityType, FS_AddElement
<1>2. Cardinality(S \cup {t}) <= MaxPoolTxs  BY <1>1 DEF Room
<1>3. ASSUME NEW a \in Account
      PROVE  Cardinality(OwnOf(S \cup {t}, a)) <= MaxPerSender
  <2>1. CASE t.from = a
    <3>1. OwnOf(S \cup {t}, a) = OwnOf(S, a) \cup {t}  BY <2>1 DEF OwnOf
    <3>2. OwnOf(S, a) \in SUBSET S  BY DEF OwnOf
    <3>. QED BY <1>1, <2>1, <3>1, <3>2 DEF Room
  <2>2. CASE t.from # a
    <3>1. OwnOf(S \cup {t}, a) = OwnOf(S, a)  BY <2>2 DEF OwnOf
    <3>. QED BY <3>1 DEF Bounded
  <2>. QED BY <2>1, <2>2
<1>. QED BY <1>2, <1>3 DEF Bounded

\* What admission leaves of the pool, and that it then has room.
LEMMA RoomMade ==
  ASSUME NEW txs \in SUBSET Tx, Bounded(txs), NEW t \in Tx,
         NEW e \in MaybeEvictForAdmission(txs, t)
  PROVE  /\ TailCut(txs, e.txs)
         /\ e.ok => Room(e.txs, t)
<1>. DEFINE own == OwnOf(txs, t.from)
<1>0. t.from \in Account  BY DEF TransferType
<1>1. PICK s \in EvictForSender(txs, t) : e \in IF s.ok THEN EvictForPool(s.txs, t) ELSE {s}
  BY DEF MaybeEvictForAdmission
<1>2. /\ TailCut(txs, s.txs)
      /\ s.ok => Cardinality(OwnOf(s.txs, t.from)) < MaxPerSender
  <2>1. own \in SUBSET txs /\ own \in SUBSET Tx  BY DEF OwnOf
  <2>2. CASE Cardinality(own) >= MaxPerSender
    <3>1. s \in EvictFrom(txs, t, own)  BY <2>2 DEF EvictForSender, OwnOf
    <3>2. TailCut(txs, s.txs) /\ (s.ok => \E w \in own : w \notin s.txs)
      BY <2>1, <3>1, EvictCuts
    <3>3. OwnOf(s.txs, t.from) \in SUBSET own  BY <3>2 DEF TailCut, OwnOf
    <3>4. s.ok => \E w \in own : w \notin OwnOf(s.txs, t.from)  BY <3>2 DEF OwnOf
    <3>5. Cardinality(own) <= MaxPerSender  BY <1>0 DEF Bounded
    <3>6. /\ Cardinality(own) \in Nat /\ Cardinality(OwnOf(s.txs, t.from)) \in Nat
          /\ s.ok => Cardinality(OwnOf(s.txs, t.from)) < Cardinality(own)
      <4>. HIDE DEF own
      <4>. QED BY <2>1, <3>3, <3>4, PartSmaller
    <3>. QED BY <3>2, <3>5, <3>6
  <2>3. CASE ~ (Cardinality(own) >= MaxPerSender)
    <3>1. s = [ok |-> TRUE, txs |-> txs]  BY <2>3 DEF EvictForSender, OwnOf
    <3>2. Cardinality(own) \in Nat
      <4>. HIDE DEF own
      <4>. QED BY <2>1, PartSmaller
    <3>. QED BY <2>3, <3>1, <3>2, TailCutSelf
  <2>. QED BY <2>2, <2>3
<1>3. s.txs \in SUBSET txs /\ s.txs \in SUBSET Tx  BY <1>2 DEF TailCut
<1>4. CASE ~ s.ok
  BY <1>1, <1>2, <1>4
<1>5. CASE s.ok
  <2>0. e \in EvictForPool(s.txs, t)  BY <1>1, <1>5
  <2>1. Cardinality(s.txs) <= MaxPoolTxs /\ Cardinality(s.txs) \in Nat
    BY <1>3, PartSmaller DEF Bounded
  <2>2. TailCut(s.txs, e.txs) /\ (e.ok => Cardinality(e.txs) < MaxPoolTxs)
    <3>1. CASE Cardinality(s.txs) >= MaxPoolTxs
      <4>1. e \in EvictFrom(s.txs, t, s.txs)  BY <2>0, <3>1 DEF EvictForPool
      <4>2. TailCut(s.txs, e.txs) /\ (e.ok => \E w \in s.txs : w \notin e.txs)
        BY <1>3, <4>1, EvictCuts
      <4>3. e.txs \in SUBSET s.txs  BY <4>2 DEF TailCut
      <4>4. e.ok => Cardinality(e.txs) < Cardinality(s.txs)
        BY <1>3, <4>2, <4>3, PartSmaller
      <4>5. Cardinality(e.txs) \in Nat  BY <1>3, <4>3, PartSmaller
      <4>. QED BY <2>1, <4>2, <4>4, <4>5
    <3>2. CASE ~ (Cardinality(s.txs) >= MaxPoolTxs)
      <4>1. e = [ok |-> TRUE, txs |-> s.txs]  BY <2>0, <3>2 DEF EvictForPool
      <4>. QED BY <2>1, <3>2, <4>1, TailCutSelf
    <3>. QED BY <3>1, <3>2
  <2>3. OwnOf(e.txs, t.from) \in SUBSET OwnOf(s.txs, t.from)
        /\ OwnOf(s.txs, t.from) \in SUBSET Tx
    BY <1>3, <2>2 DEF TailCut, OwnOf
  <2>4. Cardinality(OwnOf(e.txs, t.from)) < MaxPerSender
    BY <1>2, <1>5, <2>3, PartSmaller
  <2>5. TailCut(txs, e.txs)  BY <1>2, <2>2, TailCutTwice
  <2>. QED BY <2>2, <2>4, <2>5 DEF Room
<1>. QED BY <1>4, <1>5

-----------------------------------------------------------------------------
(* The invariant. *)

Inductive ==
  /\ TypeOK
  /\ IndexFresh
  /\ UniqueNonces(pool.txs) /\ UniqueNonces(saved.txs)
  /\ Bounded(pool.txs) /\ Bounded(saved.txs)
  /\ AcceptedIsSaved

LEMMA RebuiltTxs == ASSUME NEW txs, NEW st PROVE Rebuilt(txs, st).txs = txs
BY DEF Rebuilt

LEMMA NoTransfers ==
  /\ EmptyPool.txs = {} /\ UniqueNonces({}) /\ Bounded({})
  /\ \A st : EmptyPool = Rebuilt({}, st)
<1>1. Bounded({})
  <2>1. \A a : OwnOf({}, a) = {}  BY DEF OwnOf
  <2>. QED BY <2>1, FS_EmptySet DEF Bounded
<1>2. ASSUME NEW st PROVE EmptyPool = Rebuilt({}, st)
  <2>1. Senders({}) = {}  BY DEF Senders
  <2>2. {s \in Senders({}) : Usable({}, st, s) # {}} = {}  BY <2>1
  <2>3. [a \in Senders({}) |-> FirstGap({}, st, a)] = EmptyMap  BY <2>1 DEF EmptyMap
  <2>4. [a \in {s \in Senders({}) : Usable({}, st, s) # {}} |-> Total(Cost, Usable({}, st, a))]
          = EmptyMap
    BY <2>2 DEF EmptyMap
  <2>. QED BY <2>3, <2>4 DEF EmptyPool, Rebuilt
<1>. QED BY <1>1, <1>2 DEF EmptyPool, UniqueNonces

\* Transfers that are among others wait with no more nonces, in no greater number.
LEMMA PartGood ==
  ASSUME NEW S \in SUBSET Tx, NEW R \in SUBSET S, UniqueNonces(S), Bounded(S)
  PROVE  UniqueNonces(R) /\ Bounded(R)
BY BoundedPart DEF UniqueNonces

(***************************************************************************)
(* The outcome of offering t: part of the pool is left, after cutting      *)
(* tails; if t is added its nonce was free, it is not confirmed, and there *)
(* was room for it.                                                        *)
(***************************************************************************)
LEMMA Outcome ==
  ASSUME Inductive, NEW t \in Tx, NEW outcome \in AddToMempool(pool, Standing, t)
  PROVE  \E rest \in SUBSET pool.txs :
           /\ TailCut(pool.txs, rest)
           /\ \/ ~ outcome.added /\ outcome.pool = Rebuilt(rest, Standing)
              \/ /\ outcome.added
                 /\ outcome.pool = Rebuilt(rest \cup {t}, Standing)
                 /\ t \notin pool.txs
                 /\ t.nonce \notin NoncesOf(pool.txs, t.from)
                 /\ t.nonce > Num(Standing.nonce, t.from)
                 /\ Room(rest, t)
<1>0. pool.txs \in SUBSET Tx /\ pool = Rebuilt(pool.txs, Standing) /\ Bounded(pool.txs)
  BY DEF Inductive, TypeOK, IndexFresh
<1>1. CASE ~ Acceptable(pool, Standing, t)
  <2>1. ~ outcome.added /\ outcome.pool = pool  BY <1>1 DEF AddToMempool
  <2>. QED BY <1>0, <2>1, TailCutSelf
<1>2. CASE Acceptable(pool, Standing, t)
  <2>1. PICK e \in MaybeEvictForAdmission(pool.txs, t) :
          outcome = IF e.ok THEN Admit(e.txs, Standing, t)
                    ELSE [added |-> FALSE,
                          pool |-> IF e.txs = pool.txs THEN pool
                                   ELSE Rebuilt(e.txs, Standing)]
    BY <1>2 DEF AddToMempool
  <2>2. /\ TailCut(pool.txs, e.txs) /\ (e.ok => Room(e.txs, t))
        /\ e.txs \in SUBSET pool.txs
    BY <1>0, RoomMade DEF TailCut
  <2>3. CASE ~ e.ok
    <3>1. ~ outcome.added /\ outcome.pool = Rebuilt(e.txs, Standing)
      BY <1>0, <2>1, <2>3
    <3>. QED BY <2>2, <3>1
  <2>4. CASE e.ok
    <3>1. \/ ~ outcome.added /\ outcome.pool = Rebuilt(e.txs, Standing)
          \/ outcome.added /\ outcome.pool = Rebuilt(e.txs \cup {t}, Standing)
      BY <2>1, <2>4 DEF Admit
    <3>2. t \notin pool.txs /\ t.nonce = NextNonce(pool, Standing, t.from)
      BY <1>2 DEF Acceptable
    <3>3. /\ t.nonce \notin NoncesOf(pool.txs, t.from)
          /\ t.nonce > Num(Standing.nonce, t.from)
      <4>0. Num(Standing.nonce, t.from) \in Nat
        BY DEF Num, Standing, Inductive, TypeOK, Nonces
      <4>1. CASE t.from \in Senders(pool.txs)
        <5>1. pool.next = [a \in Senders(pool.txs) |-> FirstGap(pool.txs, Standing, a)]
          BY <1>0 DEF Rebuilt
        <5>2. t.nonce = FirstGap(pool.txs, Standing, t.from)
          BY <3>2, <4>1, <5>1 DEF NextNonce
        <5>. QED BY <1>0, <4>0, <5>2, GapFound
      <4>2. CASE t.from \notin Senders(pool.txs)
        <5>1. t.nonce = Num(Standing.nonce, t.from) + 1
          BY <3>2, <4>2 , <1>0 DEF NextNonce, Rebuilt
        <5>. QED BY <4>0, <4>2, <5>1 DEF Senders, NoncesOf
      <4>. QED BY <4>1, <4>2
    <3>. QED BY <2>2, <2>4, <3>1, <3>2, <3>3
  <2>. QED BY <2>3, <2>4
<1>. QED BY <1>1, <1>2

\* A pool that is rebuilt from good transfers and saved keeps the invariant.
LEMMA RebuiltKeeps ==
  ASSUME Inductive, NEW txs \in SUBSET Tx, UniqueNonces(txs), Bounded(txs),
         pool' = Rebuilt(txs, Standing'),
         confirmed' \in Nonces, spendable' \in Balances0, readmit' \in Seq(Tx),
         \/ Save
         \/ UNCHANGED saved /\ txs \subseteq saved.txs
  PROVE  Inductive'
<1>1. pool'.txs = txs /\ pool.txs \subseteq Tx
  BY RebuiltTxs DEF Inductive, TypeOK
<1>2. CASE Save
  <2>1. saved' = [txs |-> txs, confirmed |-> confirmed', spendable |-> spendable']
    BY <1>1, <1>2 DEF Save
  <2>2. saved' \in [txs : SUBSET Tx, confirmed : Nonces, spendable : Balances0]
    BY <2>1
  <2>. QED BY <1>1, <2>1, <2>2 DEF Inductive, TypeOK, IndexFresh, AcceptedIsSaved
<1>3. CASE UNCHANGED saved /\ txs \subseteq saved.txs
  BY <1>1, <1>3 DEF Inductive, TypeOK, IndexFresh, AcceptedIsSaved
<1>. QED BY <1>2, <1>3

\* Offering a transfer keeps it.
LEMMA OfferKeeps ==
  ASSUME Inductive, NEW t \in Tx, NEW anyway \in BOOLEAN,
         Offer(t, anyway), readmit' \in Seq(Tx)
  PROVE  Inductive'
<1>1. PICK outcome \in AddToMempool(pool, Standing, t) :
        /\ pool' = outcome.pool
        /\ UNCHANGED <<confirmed, spendable>>
        /\ IF outcome.added \/ anyway THEN Save ELSE UNCHANGED saved
  BY DEF Offer
<1>2. PICK rest \in SUBSET pool.txs :
        /\ TailCut(pool.txs, rest)
        /\ \/ ~ outcome.added /\ outcome.pool = Rebuilt(rest, Standing)
           \/ /\ outcome.added
              /\ outcome.pool = Rebuilt(rest \cup {t}, Standing)
              /\ t \notin pool.txs
              /\ t.nonce \notin NoncesOf(pool.txs, t.from)
              /\ Room(rest, t)
  BY Outcome
<1>3. /\ pool.txs \in SUBSET Tx /\ UniqueNonces(pool.txs) /\ Bounded(pool.txs)
      /\ pool.txs \subseteq saved.txs
      /\ confirmed \in Nonces /\ spendable \in Balances0
  BY DEF Inductive, TypeOK, AcceptedIsSaved
<1>4. UniqueNonces(rest) /\ Bounded(rest)  BY <1>3, PartGood
<1>5. Standing' = Standing /\ confirmed' \in Nonces /\ spendable' \in Balances0
  BY <1>1, <1>3 DEF Standing
<1>6. CASE ~ outcome.added /\ outcome.pool = Rebuilt(rest, Standing)
  <2>1. pool' = Rebuilt(rest, Standing')  BY <1>1, <1>5, <1>6
  <2>2. Save \/ (UNCHANGED saved /\ rest \subseteq saved.txs)  BY <1>1, <1>3
  <2>3. rest \in SUBSET Tx  BY <1>3
  <2>. QED BY <1>4, <1>5, <2>1, <2>2, <2>3, RebuiltKeeps
<1>7. CASE /\ outcome.added
           /\ outcome.pool = Rebuilt(rest \cup {t}, Standing)
           /\ t \notin pool.txs
           /\ t.nonce \notin NoncesOf(pool.txs, t.from)
           /\ Room(rest, t)
  <2>1. pool' = Rebuilt(rest \cup {t}, Standing') /\ Save  BY <1>1, <1>5, <1>7
  <2>2. \A u \in rest : u.from = t.from => u.nonce # t.nonce  BY <1>7 DEF NoncesOf
  <2>3. UniqueNonces(rest \cup {t})  BY <1>4, <2>2 DEF UniqueNonces
  <2>4. Bounded(rest \cup {t})  BY <1>3, <1>4, <1>7, BoundedWith
  <2>5. rest \cup {t} \in SUBSET Tx  BY <1>3
  <2>. QED BY <1>5, <2>1, <2>3, <2>4, <2>5, RebuiltKeeps
<1>. QED BY <1>2, <1>6, <1>7

LEMMA OrdersAreSeqs ==
  ASSUME NEW S \in SUBSET Tx, NEW s \in SetToSeqs(S)
  PROVE  s \in Seq(Tx)
<1>1. Cardinality(S) \in Nat  BY FS_Subset, FS_CardinalityType
<1>2. s \in [1..Cardinality(S) -> S]  BY DEF SetToSeqs
<1>. QED BY <1>1, <1>2

LEMMA NoncesAtStart == [a \in Account |-> 0] \in Nonces
BY DEF Nonces

LEMMA InductiveInit == Init => Inductive
<1>. SUFFICES ASSUME Init PROVE Inductive  OBVIOUS
<1>1. confirmed \in Nonces /\ spendable \in Balances0 /\ pool = EmptyPool /\ readmit = <<>>
      /\ saved = [txs |-> {}, confirmed |-> confirmed, spendable |-> spendable]
  BY NoncesAtStart DEF Init
<1>2. pool.txs = {} /\ saved.txs = {} /\ pool = Rebuilt({}, Standing)
  BY <1>1, NoTransfers
<1>3. TypeOK
  <2>1. saved \in [txs : SUBSET Tx, confirmed : Nonces, spendable : Balances0]  BY <1>1
  <2>. QED BY <1>1, <1>2, <2>1 DEF TypeOK
<1>. QED BY <1>2, <1>3, NoTransfers DEF Inductive, IndexFresh, AcceptedIsSaved

LEMMA InductiveStep == Inductive /\ [Next]_vars => Inductive'
<1>. SUFFICES ASSUME Inductive, [Next]_vars PROVE Inductive'  OBVIOUS
<1>. /\ pool.txs \in SUBSET Tx /\ UniqueNonces(pool.txs) /\ Bounded(pool.txs)
     /\ saved.txs \in SUBSET Tx /\ UniqueNonces(saved.txs) /\ Bounded(saved.txs)
     /\ pool.txs \subseteq saved.txs /\ pool = Rebuilt(pool.txs, Standing)
     /\ confirmed \in Nonces /\ spendable \in Balances0 /\ readmit \in Seq(Tx)
     /\ saved \in [txs : SUBSET Tx, confirmed : Nonces, spendable : Balances0]
  BY DEF Inductive, TypeOK, IndexFresh, AcceptedIsSaved
<1>1. ASSUME NEW t \in Tx, Submit(t) PROVE Inductive'
  BY <1>1, OfferKeeps DEF Submit
<1>2. ASSUME NEW body \in SUBSET Tx, Connect(body) PROVE Inductive'
  <2>1. pool.txs \ body \in SUBSET pool.txs /\ pool.txs \ body \in SUBSET Tx  OBVIOUS
  <2>2. UniqueNonces(pool.txs \ body) /\ Bounded(pool.txs \ body)  BY <2>1, PartGood
  <2>. QED BY <1>2, <2>1, <2>2, RebuiltKeeps DEF Connect
<1>3. ASSUME NEW undone \in SUBSET Tx, NEW fork \in Nonces, StartReorg(undone, fork)
      PROVE  Inductive'
  <2>1. PICK first \in ChainOrders(undone), rest \in SetToSeqs(pool.txs) :
          readmit' = first \o rest
    BY <1>3 DEF StartReorg
  <2>2. first \in Seq(Tx) /\ rest \in Seq(Tx)  BY OrdersAreSeqs DEF ChainOrders
  <2>3. readmit' \in Seq(Tx)  BY <2>1, <2>2
  <2>4. pool' = Rebuilt({}, Standing')  BY <1>3, NoTransfers DEF StartReorg
  <2>5. Save \/ (UNCHANGED saved /\ {} \subseteq saved.txs)  BY <1>3 DEF StartReorg
  <2>6. confirmed' \in Nonces /\ spendable' \in Balances0  BY <1>3 DEF StartReorg
  <2>. QED BY <2>3, <2>4, <2>5, <2>6, NoTransfers, RebuiltKeeps
<1>4. CASE Readmit
  <2>1. Head(readmit) \in Tx /\ readmit' \in Seq(Tx)  BY <1>4 DEF Readmit
  <2>. QED BY <1>4, <2>1, OfferKeeps DEF Readmit
<1>5. CASE ReorgRebuild
  BY <1>5, RebuiltKeeps DEF ReorgRebuild
<1>6. CASE ImportCheckpoint
  <2>1. pool' = Rebuilt({}, Standing')  BY <1>6, NoTransfers DEF ImportCheckpoint
  <2>. QED BY <1>6, <2>1, NoTransfers, RebuiltKeeps DEF ImportCheckpoint
<1>7. CASE SetPruneConfig
  <2>1. pool' = Rebuilt(pool.txs, Standing')  BY <1>7 DEF SetPruneConfig, Standing
  <2>. QED BY <1>7, <2>1, RebuiltKeeps DEF SetPruneConfig
<1>8. CASE Restart
  <2>. DEFINE back == {t \in saved.txs : PolicyOk(t)}
  <2>1. back \in SUBSET saved.txs /\ back \in SUBSET Tx  OBVIOUS
  <2>2. UniqueNonces(back) /\ Bounded(back)  BY <2>1, PartGood
  <2>3. /\ pool' = Rebuilt(back, Standing') /\ readmit' \in Seq(Tx) /\ UNCHANGED saved
        /\ confirmed' \in Nonces /\ spendable' \in Balances0
    BY <1>8 DEF Restart
  <2>. HIDE DEF back
  <2>. QED BY <2>1, <2>2, <2>3, RebuiltKeeps
<1>9. CASE UNCHANGED vars
  BY <1>9 DEF vars, Inductive, TypeOK, IndexFresh, AcceptedIsSaved, Standing
<1>. QED BY <1>1, <1>2, <1>3, <1>4, <1>5, <1>6, <1>7, <1>8, <1>9 DEF Next

-----------------------------------------------------------------------------
(* The theorems. *)

(* Every reachable state of the mempool satisfies the whole invariant:      *)
(* types, a fresh index, and a pool and a last save without two transfers   *)
(* of one nonce and within the limits.                                      *)
THEOREM InductiveHolds == Spec => []Inductive
BY InductiveInit, InductiveStep, PTL DEF Spec

(* The pool's, the ledger's and the save's parts always have their types.   *)
THEOREM TypeCorrect == Spec => []TypeOK
<1>1. Inductive => TypeOK  BY DEF Inductive
<1>. QED BY <1>1, InductiveHolds, PTL

(* The reservations and next nonces are those of the present pool and       *)
(* ledger, after every handler.                                             *)
THEOREM IndexAlwaysFresh == Spec => []IndexFresh
<1>1. Inductive => IndexFresh  BY DEF Inductive
<1>. QED BY <1>1, InductiveHolds, PTL

(* No two waiting transfers of one sender share a nonce.                    *)
THEOREM NoncesAlwaysUnique == Spec => []UniqueNonce
<1>1. Inductive => UniqueNonce  BY DEF Inductive, UniqueNonce
<1>. QED BY <1>1, InductiveHolds, PTL

(* The pool stays within its two limits, also after a restart from a save   *)
(* taken in the middle of a reorganisation.                                 *)
THEOREM PoolAlwaysBounded == Spec => []PoolBounded
<1>1. Inductive => PoolBounded  BY DEF Inductive, Bounded, OwnOf, PoolBounded
<1>. QED BY <1>1, InductiveHolds, PTL

(* Whatever is in the pool is in the last save.                             *)
THEOREM NothingAcceptedUnsaved == Spec => []AcceptedIsSaved
<1>1. Inductive => AcceptedIsSaved  BY DEF Inductive
<1>. QED BY <1>1, InductiveHolds, PTL

(* An admission evicts tails of senders' nonces, never a transfer that a    *)
(* waiting one depends on.                                                  *)
THEOREM EvictionAlwaysTail == Spec => EvictionTakesTail
<1>1. ASSUME Inductive, [Next]_vars
      PROVE  [\A t \in Tx : Submit(t) =>
                \A gone \in pool.txs \ pool'.txs, kept \in pool.txs \cap pool'.txs :
                  gone.from = kept.from => kept.nonce < gone.nonce]_vars
  <2>. SUFFICES ASSUME NEW t \in Tx, Submit(t),
                       NEW gone \in pool.txs \ pool'.txs,
                       NEW kept \in pool.txs \cap pool'.txs,
                       gone.from = kept.from
                PROVE  kept.nonce < gone.nonce
    OBVIOUS
  <2>1. PICK outcome \in AddToMempool(pool, Standing, t) : pool' = outcome.pool
    BY DEF Submit, Offer
  <2>2. PICK rest \in SUBSET pool.txs :
          /\ TailCut(pool.txs, rest)
          /\ \/ outcome.pool = Rebuilt(rest, Standing)
             \/ outcome.pool = Rebuilt(rest \cup {t}, Standing) /\ t \notin pool.txs
    BY <1>1, Outcome
  <2>3. gone \in pool.txs \ rest /\ kept \in rest
    BY <2>1, <2>2, RebuiltTxs
  <2>. QED BY <2>2, <2>3 DEF TailCut
<1>. QED BY <1>1, InductiveHolds, PTL DEF Spec, EvictionTakesTail
=============================================================================
