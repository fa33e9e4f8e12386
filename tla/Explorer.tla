------------------------------ MODULE Explorer ------------------------------
(***************************************************************************)
(* What the node tells about its chain over RPC (rpc.ts): the pages of an  *)
(* account and of a transfer, the history of the supply, replay checks and *)
(* the comparison with another chain.  All of it is read from the chain's  *)
(* state and changes nothing.                                              *)
(*                                                                         *)
(* The code calls a block's place among the local blocks its height, from  *)
(* 0 on.  At place 0 is genesis or an anchor, which has no transactions.   *)
(***************************************************************************)
EXTENDS Chain

\* The accounts that blocks and transfers ever name.
ASSUME AccountAssumption == IsFiniteSet(Account)

Place == 1..(Len(blocks) - 1)

At(place) == Header[blocks[place + 1]]

-----------------------------------------------------------------------------
(* getWalletActivity and renderWalletAddressPage. *)

Direction(t, account) ==
  IF t.from # account THEN "received" ELSE IF t.to = account THEN "self" ELSE "sent"

Concerns(t, account) == account \in {t.from, t.to}

Entry(direction, amount, fee, place, index) ==
  [direction |-> direction, amount |-> amount, fee |-> fee, place |-> place, index |-> index,
   confirmations |-> Max({1, Height(Node) - place + 1})]

\* The coinbase is a block's first transaction.
MinedBy(account) ==
  {Entry("mined", At(p).reward, 0, p, 0) : p \in {q \in Place : At(q).miner = account}}

EntryOf(t, account, place, index) ==
  Entry(Direction(t, account), t.amount, t.fee, place, index)

Moved(account) ==
  UNION {{EntryOf(At(p).txs[i], account, p, i) :
            i \in {k \in DOMAIN At(p).txs : Concerns(At(p).txs[k], account)}} : p \in Place}

ConfirmedActivity(account) == MinedBy(account) \cup Moved(account)

\* Transfers in the pool have no place.
PendingActivity(account) ==
  {[direction |-> Direction(t, account), amount |-> t.amount, fee |-> t.fee, of |-> t] :
     t \in {x \in pool.txs : Concerns(x, account)}}

AmountOf(e) == e.amount
FeeOf(e) == e.fee

\* A sum over an account's entries of these directions.
Summed(f(_), account, directions) ==
  Total(f, {e \in ConfirmedActivity(account) : e.direction \in directions})
    + Total(f, {e \in PendingActivity(account) : e.direction \in directions})

\* Mutant: what is mined is not received as well.
WalletPage_Unmined(account) ==
  [sent |-> Summed(AmountOf, account, {"sent"}),
   received |-> Summed(AmountOf, account, {"received"}),
   fees |-> Summed(FeeOf, account, {"sent", "self"}),
   mined |-> Summed(AmountOf, account, {"mined"}),
   pending |-> Cardinality(PendingActivity(account))]

WalletPage(account) ==
  [sent |-> Summed(AmountOf, account, {"sent"}),
   received |-> Summed(AmountOf, account, {"received", "mined"}),
   fees |-> Summed(FeeOf, account, {"sent", "self"}),
   mined |-> Summed(AmountOf, account, {"mined"}),
   pending |-> Cardinality(PendingActivity(account))]

\* getTotal: spendable and immature.
TotalOf(account) ==
  Num(cache.bal, account) + Total(LAMBDA p : p.amount, {p \in cache.pend : p.to = account})

\* resolveWalletInfo, which /balance answers as well.
WalletInfo(account) ==
  [spendable |-> Num(cache.bal, account),
   immature |-> TotalOf(account) - Num(cache.bal, account),
   total |-> TotalOf(account),
   confirmedNonce |-> Num(cache.nonce, account),
   nextNonce |-> NextNonce(pool, cache, account)]

-----------------------------------------------------------------------------
(* A block's page, the state's page and the snapshot offered. *)

BlockPage(place) ==
  [confirmations |-> Max({0, Height(Node) - place + 1}),
   fees |-> Fees(At(place)),
   subsidy |-> BlockReward(place),
   total |-> BlockReward(place) + Fees(At(place))]

StateReport ==
  [height |-> Height(Node),
   minted |-> cache.minted,
   remaining |-> Max({0, MaxSupply - cache.minted}),
   pendingRewards |-> Cardinality(cache.pend)]

\* GET /snapshot: what a new node may start from.
LiveSnapshot ==
  [height |-> Height(Node), tip |-> Last(blocks), root |-> Header[Last(blocks)].root,
   state |-> cache]

-----------------------------------------------------------------------------
(* The transfer's page, and the supply on the analytics page. *)

Places(t) == {p \in Place : t \in ToSet(At(p).txs)}

\* The pool is asked before the chain.
TxPage(t) ==
  IF t \in pool.txs THEN [status |-> "pending", place |-> 0]
  ELSE IF Places(t) # {} THEN [status |-> "confirmed", place |-> Max(Places(t))]
  ELSE [status |-> "unknown", place |-> 0]

\* What had been minted at a place, reckoned back from the tip.
MintedAt(place) ==
  cache.minted - Total(LAMBDA p : BlockReward(p), {p \in Place : p > place})

-----------------------------------------------------------------------------
(* The replay checks. *)

ValidateChain(path) == Head(path) = Genesis /\ Replay(path, 0, EmptyLedger).ok

\* replay-verify, and the prefix that block-validate and state-root-check try.
ReplayVerify == ValidateChain(blocks)
PrefixValid(place) == ValidateChain(SubSeq(blocks, 1, place + 1))

-----------------------------------------------------------------------------
(* fork-compare, of the local blocks and a posted chain. *)

PlaceIn(path, h) == CHOOSE i \in 0..(Len(path) - 1) : path[i + 1] = h

\* Mutant: the place of the first block that differs.
Compared_Next(best, b) ==
  LET mine == PlaceIn(blocks, b.hash)
  IN IF b.hash \notin ToSet(blocks) THEN best
     ELSE IF mine = b.place THEN b.place + 1
     ELSE Max({best, Min({mine, b.place})})

\* The best place after one more block of the posted chain.
Compared(best, b) ==
  LET mine == PlaceIn(blocks, b.hash)
  IN IF b.hash \notin ToSet(blocks) THEN best
     ELSE IF mine = b.place THEN b.place
     ELSE Max({best, Min({mine, b.place})})

CommonHeight(path) ==
  FoldLeft(Compared, -1, [i \in DOMAIN path |-> [place |-> i - 1, hash |-> path[i]]])

ForkCompare(path) ==
  [common |-> CommonHeight(path), adopt |-> Work(path) > Work(blocks)]

-----------------------------------------------------------------------------
(* Properties. *)

Whole == anchor.height = 0

(***************************************************************************)
(* The wallet's page, the history of the supply and the ledger are three   *)
(* ways to keep the books: over the chain's transactions, back from the    *)
(* tip, and by applying and undoing blocks.  Without pending transfers,    *)
(* what an account has received less what it has sent and paid in fees is  *)
(* its total, and the supply drawn for the past is the one each block      *)
(* left.  A block's page shows the reward its coinbase has, and what is    *)
(* reported as not minted yet and the accounts' totals are the whole       *)
(* supply.  But for the last, not on a pruned or imported node, whose      *)
(* pages begin at the anchor and take places for heights.                  *)
(***************************************************************************)
BooksBalance ==
  /\ StateReport.remaining + Total(LAMBDA a : WalletInfo(a).total, Account) = MaxSupply
  /\ Whole =>
       /\ \A a \in Account :
            \E page \in {WalletPage(a)} :
              page.pending = 0 =>
                page.received - page.sent - page.fees = WalletInfo(a).total
       /\ \A p \in Place : /\ MintedAt(p) = FullReplay(blocks[p + 1]).st.minted
                           /\ BlockPage(p).total = At(p).reward

(***************************************************************************)
(* The debugging requests tell what the node itself would do: every prefix *)
(* of its chain replays, and of a valid chain that fork-compare says would *)
(* be adopted, the range behind the common height it finds is adopted.     *)
(* On a whole node: the replay checks call the chain of a pruned or        *)
(* imported one invalid.  But any node's snapshot, at any moment, is the   *)
(* one of its tip's branch that an import takes.                           *)
(***************************************************************************)
DebugTells ==
  /\ StateRoot(LiveSnapshot.state) = LiveSnapshot.root
  /\ SnapshotOf(LiveSnapshot.tip) = [height |-> LiveSnapshot.height, state |-> LiveSnapshot.state]
  /\ IF ~ Whole THEN ~ ReplayVerify
     ELSE /\ \A p \in Place \cup {0} : PrefixValid(p)
          /\ \A h \in Genuine :
               \E told \in {ForkCompare(PathTo[h])} :
                 LET range == SubSeq(PathTo[h], told.common + 2, Depth(h) + 1)
                 IN told.adopt => /\ range # <<>>
                                  /\ Adoptable(Node, Incoming(Node, told.common + 1, range))

\* Neither what a page shows as pending nor what was saved as such is confirmed.
AllApart ==
  /\ \A t \in Tx : TxPage(t).status = "pending" => Places(t) = {}
  /\ ToSet(BodyOf(Tail(saved.blocks))) \cap saved.txs = {}

(***************************************************************************)
(* A transfer that a page shows as pending is not confirmed already, nor   *)
(* is it after a restart: every way to a new chain takes what it confirms  *)
(* out of the pool, but for one, the adoption by a full replay, which      *)
(* keeps the pool as it is.                                                *)
(***************************************************************************)
PendingUnconfirmed ==
  [][AllApart =>
       \/ AllApart'
       \/ \E from \in 0..(MaxHeight + 1), tail \in Tails : ReplayFork(from, tail)]_vars
=============================================================================
