-------------------------------- MODULE Service --------------------------------
(***************************************************************************)
(* One node's process as its user sees it (index.ts, rpc.ts, wallet.ts):   *)
(* the miner's loop, the controls and sends that come over RPC, and the    *)
(* transfers and blocks that come from the network meanwhile.              *)
(*                                                                         *)
(* Everything runs on one thread.  What comes between two steps of the     *)
(* loop or of a request are the points where it awaits: the search for a   *)
(* nonce yields, a send waits for the socket on which it hands its         *)
(* transfer to the node it runs in.                                        *)
(*                                                                         *)
(* The chain is the blocks since the node's start, on the ledger Funds it  *)
(* had at the height Base.  How it is left for another branch is the       *)
(* subject of Chain.                                                       *)
(***************************************************************************)
EXTENDS MempoolPolicy

CONSTANTS
  Funds, Base,  (* the ledger the node starts on, and its height           *)
  Miner,        (* the account of the node's wallet                        *)
  Request,      (* requests to send from the wallet                        *)
  Kind,         (* request -> "send" (/wallet/send) or "raw"               *)
                (* (/wallet/buildTx, then /submitTx)                       *)
  Payment,      (* request -> [to, amount, fee, bytes]                     *)
  Foreign,      (* transfers that come from peers, the wallet's own too    *)
  MineEmpty,    (* --mine-empty                                            *)
  Automine,     (* --automine: the values it may have                      *)
  HistoryMax,   (* SEND_HISTORY_MAX                                        *)
  MaxBlocks     (* bounds the chain                                        *)

ASSUME ServiceAssumption ==
  /\ IsLedger(Funds) /\ Miner \in Account
  /\ Payment \in [Request -> [to : Account, amount : Nat \ {0}, fee : Nat, bytes : Nat \ {0}]]
  /\ Kind \in [Request -> {"send", "raw"}]
  /\ Foreign \subseteq TransferType
  /\ MineEmpty \in BOOLEAN /\ Automine \subseteq BOOLEAN /\ Automine # {}
  /\ Base \in Nat /\ {HistoryMax, MaxBlocks} \subseteq Nat \ {0}

VARIABLES
  chain,    (* the blocks connected since the start                        *)
  ledger,   (* getState()                                                  *)
  pool,     (* mempool, mempoolNextNonce, mempoolReserved                  *)
  mining,   (* miningRuntime, what the loop does, and the block it mines   *)
  request,  (* request -> [phase, tx, answer]                              *)
  inbox,    (* the requests whose TX message is on its way to the node     *)
  history   (* explorerSendHistory and its file, newest first              *)

vars == <<chain, ledger, pool, mining, request, inbox, history>>

NoTx == [from |-> "nobody"]
NoBlock == [miner |-> "nobody"]

\* main() up to the loop: the controls are there, the loop is not.
Starting == [loop |-> "starting", enabled |-> FALSE, paused |-> FALSE, stopRequested |-> FALSE,
             controlState |-> "stopped", block |-> NoBlock]

Unsent == [phase |-> "new", tx |-> NoTx, answer |-> "none"]

Init ==
  /\ chain = <<>> /\ ledger = Funds
  /\ pool = EmptyPool
  /\ mining = Starting
  /\ request = [r \in Request |-> Unsent]
  /\ inbox = {} /\ history = <<>>

chainVars == <<chain, ledger>>
sendVars == <<request, inbox, history>>

-----------------------------------------------------------------------------
(* The chain and the pool. *)

Height == Base + Len(chain)

\* Mutant: what waits is dropped with every block.
Connect_Clearing(b) ==
  LET post == PostState(ledger, b, Height + 1)
  IN /\ post.ok /\ b.prev = Height
     /\ chain' = Append(chain, b) /\ ledger' = post.st
     /\ pool' = EmptyPool

\* tryAddBlock of a valid block on the tip.
Connect(b) ==
  LET post == PostState(ledger, b, Height + 1)
  IN /\ post.ok /\ b.prev = Height
     /\ chain' = Append(chain, b) /\ ledger' = post.st
     /\ pool' = Rebuilt(pool.txs \ ToSet(b.txs), post.st)

Block(miner, txs) ==
  [prev |-> Height, miner |-> miner, txs |-> txs,
   reward |-> BlockReward(Height + 1) + Fees([txs |-> txs])]

\* addToMempool, and whether it says yes.
Offer(t, added) ==
  \E outcome \in AddToMempool(pool, ledger, t) :
    outcome.added = added /\ pool' = outcome.pool

PeerTx ==
  /\ \E t \in Foreign, added \in BOOLEAN : Offer(t, added)
  /\ UNCHANGED <<chainVars, mining, sendVars>>

\* A peer's block, with or without a transfer the node may have or not have seen.
PeerBlock ==
  /\ Len(chain) < MaxBlocks
  /\ \E miner \in Account \ {Miner}, t \in pool.txs \cup Foreign :
       Connect(Block(miner, <<>>)) \/ Connect(Block(miner, <<t>>))
  /\ UNCHANGED <<mining, sendVars>>

-----------------------------------------------------------------------------
(* The miner. *)

Controls == {"start", "pause", "resume", "stop"}

\* controlMining: it always answers ok.
Control(action) ==
  /\ mining' =
       CASE action = "pause" ->
              [mining EXCEPT !.paused = TRUE, !.stopRequested = TRUE, !.controlState = "paused"]
         [] action = "stop" ->
              [mining EXCEPT !.enabled = FALSE, !.paused = FALSE, !.stopRequested = TRUE,
                             !.controlState = "stopped"]
         [] OTHER ->
              [mining EXCEPT !.enabled = TRUE, !.paused = FALSE, !.stopRequested = FALSE,
                             !.controlState = "running"]
  /\ UNCHANGED <<chainVars, pool, sendVars>>

\* The bootstrap wait is over.
EnterLoop ==
  /\ mining.loop = "starting"
  /\ \E automine \in Automine :
       mining' = [Starting EXCEPT !.loop = "idle", !.enabled = automine,
                                  !.controlState = IF automine THEN "running" ELSE "stopped"]
  /\ UNCHANGED <<chainVars, pool, sendVars>>

Turn ==
  /\ mining.loop = "idle" /\ mining.enabled /\ ~ mining.paused
  /\ MineEmpty \/ pool.txs # {}

Candidates == {Block(Miner, body) : body \in BlockBodies(pool.txs, ledger)}

BuildBlock ==
  /\ Turn /\ Len(chain) < MaxBlocks
  /\ \E b \in Candidates :
       /\ PostState(ledger, b, Height + 1).ok
       /\ mining' = [mining EXCEPT !.loop = "searching", !.stopRequested = FALSE, !.block = b]
  /\ UNCHANGED <<chainVars, pool, sendVars>>

\* buildBlock throws, main() ends, and the servers go on.
BuildFails ==
  /\ Turn
  /\ \E b \in Candidates : ~ PostState(ledger, b, Height + 1).ok
  /\ mining' = [mining EXCEPT !.loop = "dead"]
  /\ UNCHANGED <<chainVars, pool, sendVars>>

ShouldCancel == mining.stopRequested \/ ~ mining.enabled \/ mining.paused

Resting == [mining EXCEPT !.loop = "idle", !.block = NoBlock]

Cancel ==
  /\ mining.loop = "searching" /\ ShouldCancel
  /\ mining' = Resting
  /\ UNCHANGED <<chainVars, pool, sendVars>>

\* Mutant: the block goes on whatever is the tip.
Find_AnyTip ==
  /\ mining.loop = "searching" /\ ~ ShouldCancel
  /\ chain' = Append(chain, mining.block)
  /\ ledger' = PostState(ledger, mining.block, Height + 1).st
  /\ pool' = Rebuilt(pool.txs \ ToSet(mining.block.txs), ledger')
  /\ mining' = Resting
  /\ UNCHANGED sendVars

\* The search is not told of a new tip: its block may come too late.
Find ==
  /\ mining.loop = "searching" /\ ~ ShouldCancel
  /\ IF mining.block.prev = Height THEN Connect(mining.block) ELSE UNCHANGED <<chainVars, pool>>
  /\ mining' = Resting
  /\ UNCHANGED sendVars

-----------------------------------------------------------------------------
(* Sends. *)

\* pushSendHistory: /wallet/send keeps a record of its answers.
Pushed(r, ok) ==
  LET all == <<[request |-> r, ok |-> ok]>> \o history
  IN IF Kind[r] = "raw" THEN history
     ELSE SubSeq(all, 1, IF Len(all) > HistoryMax THEN HistoryMax ELSE Len(all))

Answered(r, answer) == [request EXCEPT ![r].phase = "answered", ![r].answer = answer]

\* The reservations of what waits in the pool are not looked at.
Affords(r) == Num(ledger.bal, Miner) >= Payment[r].amount + Payment[r].fee

TransferOf(r) ==
  [from |-> Miner, to |-> Payment[r].to, amount |-> Payment[r].amount, fee |-> Payment[r].fee,
   nonce |-> NextNonce(pool, ledger, Miner), bytes |-> Payment[r].bytes]

\* validateWalletSendInputs, and the transfer signed.
Sign(r) ==
  /\ request[r].phase = "new" /\ Affords(r)
  /\ request' = [request EXCEPT ![r].phase = "signed", ![r].tx = TransferOf(r)]
  /\ UNCHANGED <<chainVars, pool, mining, inbox, history>>

Invalid(r) ==
  /\ request[r].phase = "new" /\ ~ Affords(r)
  /\ request' = Answered(r, "invalid")
  /\ history' = Pushed(r, FALSE)
  /\ UNCHANGED <<chainVars, pool, mining, inbox>>

\* submitTxToLocalNode: the message is written to the socket, and that is success.
SendOverSocket(r) ==
  /\ request[r].phase = "signed" /\ Kind[r] = "send"
  /\ inbox' = inbox \cup {r}
  /\ request' = Answered(r, "websocket")
  /\ history' = Pushed(r, TRUE)
  /\ UNCHANGED <<chainVars, pool, mining>>

\* Mutant: the timeout strikes although the message has left.
SendDirectly_Late(r) ==
  /\ request[r].phase = "signed"
  /\ inbox' = inbox \cup {r}
  /\ \E added \in BOOLEAN :
       /\ Offer(request[r].tx, added)
       /\ request' = Answered(r, IF added THEN "accepted" ELSE "refused")
       /\ history' = Pushed(r, added)
  /\ UNCHANGED <<chainVars, mining>>

\* No socket within 1.5 s, or /submitTx: the transfer is offered to the pool.
SendDirectly(r) ==
  /\ request[r].phase = "signed"
  /\ \E added \in BOOLEAN :
       /\ Offer(request[r].tx, added)
       /\ request' = Answered(r, IF added THEN "accepted" ELSE "refused")
       /\ history' = Pushed(r, added)
  /\ UNCHANGED <<chainVars, mining, inbox>>

\* handleMessage: TX.
Receive(r) ==
  /\ r \in inbox /\ inbox' = inbox \ {r}
  /\ \E added \in BOOLEAN : Offer(request[r].tx, added)
  /\ UNCHANGED <<chainVars, mining, request, history>>

\* Too many connections or messages from the node's own address.
Lose(r) ==
  /\ r \in inbox /\ inbox' = inbox \ {r}
  /\ UNCHANGED <<chainVars, pool, mining, request, history>>

ClearHistory ==
  /\ history # <<>> /\ history' = <<>>
  /\ UNCHANGED <<chainVars, pool, mining, request, inbox>>

\* The process dies and is started again: the pool and the chain are as saved,
\* and nobody answers the requests under way.
Restart ==
  /\ mining' = Starting
  /\ request' = [r \in Request |-> IF request[r].phase = "signed"
                                   THEN [request[r] EXCEPT !.phase = "broken"] ELSE request[r]]
  /\ inbox' = {}
  /\ UNCHANGED <<chainVars, pool, history>>

-----------------------------------------------------------------------------
Next ==
  \/ PeerTx \/ PeerBlock
  \/ \E action \in Controls : Control(action)
  \/ EnterLoop \/ BuildBlock \/ BuildFails \/ Cancel \/ Find
  \/ \E r \in Request :
       \/ Sign(r) \/ Invalid(r) \/ SendOverSocket(r) \/ SendDirectly(r)
       \/ Receive(r) \/ Lose(r)
  \/ ClearHistory
  \/ Restart

Spec == Init /\ [][Next]_vars

-----------------------------------------------------------------------------
(***************************************************************************)
(* Whatever the network changed while the loop was searching, the node's   *)
(* ledger is what its chain leaves of Funds, every block of it is valid on *)
(* the block below it, and so no nonce is spent twice although candidates  *)
(* are built long before they are connected.                               *)
(***************************************************************************)
LedgerFollows ==
  LET Step(acc, b) ==
        [ok |-> acc.ok /\ b.prev = acc.height /\ PostState(acc.st, b, b.prev + 1).ok,
         st |-> PostState(acc.st, b, b.prev + 1).st, height |-> acc.height + 1]
      replayed == FoldLeft(Step, [ok |-> TRUE, st |-> Funds, height |-> Base], chain)
  IN replayed.ok /\ replayed.st = ledger

(***************************************************************************)
(* Who is told that a transfer is refused may send another one: the        *)
(* refused one is not in the pool or the chain, nor on its way, unless it  *)
(* came from somebody else too (a request answered ok, a peer).            *)
(***************************************************************************)
Settled == pool.txs \cup UNION {ToSet(chain[i].txs) : i \in DOMAIN chain}

RefusedNotSent ==
  \A r \in Request :
    request[r].answer = "refused" =>
      /\ r \notin inbox
      /\ request[r].tx \in Settled =>
           \/ request[r].tx \in Foreign
           \/ \E q \in Request \ {r} : /\ request[q].tx = request[r].tx
                                       /\ request[q].answer \in {"websocket", "accepted"}

(***************************************************************************)
(* A transfer the node answered for with "local-mempool" leaves the pool  *)
(* only into a block, or for a transfer that outbids it when its sender or *)
(* the pool is at the limit: no restart, no block that was mined meanwhile *)
(* and no conflicting transfer drops it.                                   *)
(***************************************************************************)
AcceptedLeaves ==
  [][\A r \in Request :
       LET t == request[r].tx
       IN request[r].answer = "accepted" /\ t \in pool.txs \ pool'.txs =>
            IF chain' = chain
            THEN \/ Cardinality(pool.txs) >= MaxPoolTxs
                 \/ Cardinality({u \in pool.txs : u.from = t.from}) >= MaxPerSender
            ELSE t \in ToSet(Last(chain').txs)]_vars
=============================================================================
