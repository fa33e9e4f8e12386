------------------------------- MODULE Ledger -------------------------------
(***************************************************************************)
(* The account ledger of chain.ts (ReplayState) and the functions that     *)
(* move it: crediting matured rewards, applying a block body, undoing one. *)
(*                                                                         *)
(* A ledger is a record                                                    *)
(*    bal     account -> balance      (a Map: an absent key reads as 0)    *)
(*    nonce   account -> last confirmed nonce  (a Map, as above)           *)
(*    pend    set of [to, amount, unlock] coinbase rewards not yet mature  *)
(*    minted  total subsidy issued so far                                  *)
(* Keys that hold 0 are kept: they are leaves of the state root.           *)
(*                                                                         *)
(* A transfer is a record [from, to, amount, fee, nonce, bytes]; two       *)
(* transfers with equal fields are the same transaction (the id is the     *)
(* hash of the payload).  A block is a record [prev, difficulty, sound,    *)
(* miner, reward, txs, root]: miner and reward are the coinbase's, txs the *)
(* transfers after it, root the ledger its header commits to.              *)
(***************************************************************************)
EXTENDS Integers, Sequences, SequencesExt, FiniteSetsExt

CONSTANTS
  Account,          (* addresses                                           *)
  MaxSupply,        (* MAX_SUPPLY                                          *)
  InitialReward,    (* INITIAL_REWARD                                      *)
  HalvingInterval,  (* HALVING_INTERVAL                                    *)
  Maturity,         (* COINBASE_MATURITY                                   *)
  MinFee            (* MIN_FEE                                             *)

ASSUME LedgerAssumption ==
  /\ {MaxSupply, InitialReward, Maturity, MinFee} \subseteq Nat
  /\ HalvingInterval \in Nat \ {0}

EmptyMap == [a \in {} |-> 0]

Num(m, k) == IF k \in DOMAIN m THEN m[k] ELSE 0

Put(m, k, v) == [x \in DOMAIN m \cup {k} |-> IF x = k THEN v ELSE m[x]]

Cost(t) == t.amount + t.fee

Total(f(_), S) == SumFunction([x \in S |-> f(x)])

Amounts(rewards) == Total(LAMBDA p : p.amount, rewards)

EmptyLedger == [bal |-> EmptyMap, nonce |-> EmptyMap, pend |-> {}, minted |-> 0]

(***************************************************************************)
(* The state root is a Merkle root over the ledger's leaves; hashes do not *)
(* collide, so two ledgers have one root only if they have one set of      *)
(* leaves, and the root is modelled by the ledger itself.                  *)
(***************************************************************************)
StateRoot(st) == st

BlockReward(height) == InitialReward \div (2 ^ (height \div HalvingInterval))

AddFee(sum, t) == sum + t.fee

Fees(b) == FoldLeft(AddFee, 0, b.txs)

\* Rewards whose unlock height is reached move into their owner's balance.
UnlockMatured(st, height) ==
  LET ripe == {p \in st.pend : p.unlock <= height}
      RipeOf(a) == Amounts({p \in ripe : p.to = a})
  IN [st EXCEPT
        !.bal = [a \in DOMAIN @ \cup {p.to : p \in ripe} |-> Num(@, a) + RipeOf(a)],
        !.pend = @ \ ripe]

RewardOf(b, height) == [to |-> b.miner, amount |-> b.reward, unlock |-> height + Maturity]

PayCoinbase(st, b, height) ==
  [st EXCEPT !.pend = @ \cup {RewardOf(b, height)}, !.minted = @ + BlockReward(height)]

\* Mutant: the coinbase may pay more than subsidy and fees.
CoinbaseOk_AtLeast(st, b, height) ==
  /\ b.reward >= BlockReward(height) + Fees(b)
  /\ BlockReward(height) > 0 => st.minted + BlockReward(height) <= MaxSupply

CoinbaseOk(st, b, height) ==
  /\ b.reward = BlockReward(height) + Fees(b)
  /\ BlockReward(height) > 0 => st.minted + BlockReward(height) <= MaxSupply

TransferOk(st, t) ==
  /\ t.amount > 0
  /\ t.fee >= MinFee
  /\ t.nonce = Num(st.nonce, t.from) + 1
  /\ Num(st.bal, t.from) >= Cost(t)

Transfer(st, t) ==
  LET paid == Put(st.bal, t.from, Num(st.bal, t.from) - Cost(t))
  IN [st EXCEPT !.bal = Put(paid, t.to, Num(paid, t.to) + t.amount),
                !.nonce = Put(@, t.from, t.nonce)]

\* An attempt at a body: ok says whether every check so far has passed.
ApplyTransfer(body, t) ==
  IF body.ok /\ TransferOk(body.st, t)
  THEN [body EXCEPT !.st = Transfer(@, t)]
  ELSE [body EXCEPT !.ok = FALSE]

ApplyBody(st, b, height) ==
  LET Begin(unlocked) == [ok |-> CoinbaseOk(unlocked, b, height),
                          st |-> PayCoinbase(unlocked, b, height)]
  IN FoldLeft(ApplyTransfer, Begin(UnlockMatured(st, height)), b.txs)

(***************************************************************************)
(* computePostStateForBlock: the body, then matured rewards once more.     *)
(***************************************************************************)
PostState(st, b, height) ==
  LET Finish(body) == [ok |-> body.ok,
                       st |-> IF body.ok THEN UnlockMatured(body.st, height) ELSE st]
  IN Finish(ApplyBody(st, b, height))

(***************************************************************************)
(* undoBlockFromState.  It is not an inverse of PostState: keys it brings  *)
(* back to 0 stay, and rewards the block let mature stay in the balances.  *)
(***************************************************************************)
UndoTransfer(t, st) ==
  LET refunded == Put(st.bal, t.from, Num(st.bal, t.from) + Cost(t))
  IN [st EXCEPT !.bal = Put(refunded, t.to, Num(refunded, t.to) - t.amount),
                !.nonce = Put(@, t.from, Max({0, Num(@, t.from) - 1}))]

UndoBlock(st, b, height) ==
  LET undone == FoldRight(UndoTransfer, b.txs, st)
      subsidy == Max({0, b.reward - Fees(b)})
  IN [undone EXCEPT !.pend = @ \ {RewardOf(b, height)},
                    !.minted = Max({0, @ - subsidy})]

-----------------------------------------------------------------------------
(* What the ledger owes and holds, for the properties. *)

Balances(st) == SumFunction(st.bal)

Immature(st) == Amounts(st.pend)

IsLedger(st) ==
  /\ DOMAIN st = {"bal", "nonce", "pend", "minted"}
  /\ DOMAIN st.bal \subseteq Account /\ \A a \in DOMAIN st.bal : st.bal[a] \in Int
  /\ DOMAIN st.nonce \subseteq Account /\ \A a \in DOMAIN st.nonce : st.nonce[a] \in Nat
  /\ \A p \in st.pend : p.to \in Account /\ {p.amount, p.unlock} \subseteq Nat
  /\ st.minted \in Nat
=============================================================================
