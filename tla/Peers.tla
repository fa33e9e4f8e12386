-------------------------------- MODULE Peers --------------------------------
(***************************************************************************)
(* The connections of one node (network.ts): dials and redials, calls it   *)
(* accepts, what it does to a peer that misbehaves or sends too much.      *)
(*                                                                         *)
(* A socket is <<label, copy>>: the label is the url the node dialled or   *)
(* the address it was called from (peerLabel, reputationPeerId).  Copies   *)
(* bounds how many sockets there are of one label at a time.  A tick is    *)
(* longer than a rate window, a bandwidth window, a dial and a redial      *)
(* delay, so these may end at any moment of one and have ended with it.    *)
(***************************************************************************)
EXTENDS Reputation, SequencesExt

CONSTANTS
  Peer,             (* urls                                                *)
  Addr,             (* addresses                                           *)
  AddrOf,           (* url -> the address it is found at                   *)
  Bootstrap,        (* the url given at start, or NoPeer                   *)
  NoPeer,
  Honest,           (* labels that send good messages within the limits    *)
  Copies,
  MaxInbound,       (* MAX_INBOUND_PER_IP                                  *)
  TableMax,         (* PEER_TABLE_MAX                                      *)
  RateLimit,        (* RATE_LIMIT_COUNT                                    *)
  ByteLimit,        (* inboundLimitBytes                                   *)
  Size,             (* sizes of messages                                   *)
  GoodEvent,        (* what a handler rewards a message with               *)
  BadEvent,         (* what a handler punishes it with                     *)
  MaxQuiet,         (* bound: how late a decay may come                    *)
  MaxBad,           (* bound: messages and errors that are punished        *)
  Together          (* bound: the sets of labels that occur together       *)

ASSUME PeersAssumption ==
  /\ Id = Peer \cup Addr /\ Peer \cap Addr = {} /\ NoPeer \notin Id
  /\ AddrOf \in [Peer -> Addr]
  /\ Bootstrap \in Peer \cup {NoPeer}
  /\ Honest \subseteq Id
  /\ \A p \in Peer : AddrOf[p] \in Honest => p \in Honest
  /\ {Copies, MaxInbound, TableMax, RateLimit, ByteLimit} \subseteq Nat \ {0}
  /\ Size \subseteq Nat
  /\ GoodEvent \cup BadEvent \subseteq Event
  /\ \A e \in GoodEvent \cup {"message-ok"} : EventScore[e] >= 0
  /\ MaxQuiet \in Nat /\ MaxBad \in Nat
  /\ Together \subseteq SUBSET Id

\* A connection that is opened and closed costs nothing, and the errors of
\* a behaviour are too few for a ban.
ASSUME HonestAssumption ==
  /\ EventScore["disconnect"] = -1
  /\ EventScore["connect"] >= 1 - EventScore["disconnect"]
  /\ EventScore["socket-error"] <= 0
  /\ BanScore < MaxBad * EventScore["socket-error"] - Copies

VARIABLES
  sock,      (* socket -> its readyState                                   *)
  outbound,  (* outboundUrls                                               *)
  timers,    (* reconnectTimers                                            *)
  table,     (* peerTable, in its order, and the file it is saved to       *)
  inbound,   (* inboundByIp                                                *)
  bans,      (* banUntil: what is left of it                               *)
  rep,       (* the book of peerReputation                                 *)
  quiet,     (* since lastGlobalDecayAt                                    *)
  rate,      (* rateBook: address -> messages in the window                *)
  used,      (* bandwidthThrottle: label -> inbound bytes in the window    *)
  bad,       (* how many messages and errors were punished                 *)
  around     (* the labels of this behaviour                               *)

vars ==
  <<sock, outbound, timers, table, inbound, bans, rep, quiet, rate, used, bad, around>>

Socket == Id \X (1 .. Copies)

Label(s) == s[1]

\* getRemoteIp
Ip(s) == IF Label(s) \in Peer THEN AddrOf[Label(s)] ELSE Label(s)

Connected(s) == sock[s] \in {"open", "closing"}

TypeOK ==
  /\ sock \in [Socket -> {"none", "dialing", "open", "closing"}]
  /\ \A s \in Socket : sock[s] = "dialing" => Label(s) \in Peer
  /\ outbound \subseteq Peer /\ timers \subseteq Peer
  /\ table \in Seq(Peer) /\ Len(table) <= TableMax
  /\ inbound \in [Addr -> Nat]
  /\ bans \in [Addr -> 0 .. MaxBan]
  /\ rep \in [Id -> Record]
  /\ quiet \in 0 .. MaxQuiet
  /\ rate \in [Addr -> 0 .. RateLimit + 1]
  /\ used \in [Id -> 0 .. ByteLimit]
  /\ bad \in 0 .. MaxBad
  /\ around \in Together

Init ==
  /\ sock = [s \in Socket |-> IF s = <<Bootstrap, 1>> THEN "dialing" ELSE "none"]
  /\ outbound = {} /\ timers = {}
  /\ table = IF Bootstrap = NoPeer THEN <<>> ELSE <<Bootstrap>>
  /\ inbound = [a \in Addr |-> 0] /\ bans = [a \in Addr |-> 0]
  /\ rep = [i \in Id |-> NewRecord] /\ quiet = 0
  /\ rate = [a \in Addr |-> 0] /\ used = [i \in Id |-> 0]
  /\ bad = 0 /\ around \in Together

-----------------------------------------------------------------------------
\* rememberPeer: a new peer goes last, and the first one makes room.
Remember(t, p) ==
  IF p \in ToSet(t) THEN t
  ELSE IF Len(t) < TableMax THEN Append(t, p)
  ELSE Append(Tail(t), p)

\* The book after record() and after punish(), with the decay they begin with.
Note(id, event) ==
  /\ rep' = Noted(rep, quiet, id, event)
  /\ quiet' = QuietAfter(quiet)

\* The socket a new connection of a label gets.
Free(s) == sock[s] = "none" /\ \A k \in 1 .. s[2] - 1 : sock[<<Label(s), k>>] # "none"

\* connectToPeer.  Only a connection that is open keeps it from dialling, so
\* two dials of one peer may be under way.
Connect(p) ==
  /\ table' = Remember(table, p)
  /\ \/ p \in outbound /\ UNCHANGED sock
     \/ /\ p \notin outbound
        /\ \E k \in 1 .. Copies : Free(<<p, k>>) /\ sock' = [sock EXCEPT ![<<p, k>>] = "dialing"]

\* maybeDiscoveryDial, while no sync is under way.
Discover ==
  /\ \E i \in DOMAIN table :
        /\ table[i] \notin outbound
        /\ \A j \in 1 .. i - 1 : table[j] \in outbound
        /\ Connect(table[i])
  /\ UNCHANGED <<outbound, timers, inbound, bans, rep, quiet, rate, used, bad, around>>

Reconnect(p) ==
  /\ p \in timers
  /\ timers' = timers \ {p}
  /\ Connect(p)
  /\ UNCHANGED <<outbound, inbound, bans, rep, quiet, rate, used, bad, around>>

\* What is punished: an error of a dial or a connection, which any peer may
\* meet, and what only a peer does that is not honest.
Errs == bad < MaxBad /\ bad' = bad + 1
Misbehaves(s) == Label(s) \notin Honest /\ Errs

\* onSocketOpen of a dial.
Open(s) ==
  /\ sock[s] = "dialing"
  /\ sock' = [sock EXCEPT ![s] = "open"]
  /\ outbound' = outbound \cup {Label(s)}
  /\ timers' = timers \ {Label(s)}
  /\ table' = Remember(table, Label(s))
  /\ Note(Label(s), "connect")
  /\ UNCHANGED <<inbound, bans, rate, used, bad, around>>

\* The error, then the close of a socket that never opened: peerBySocket does
\* not know it, so it is taken for one of an unknown caller and not redialled.
DialFails(s) ==
  /\ sock[s] = "dialing"
  /\ Errs
  /\ sock' = [sock EXCEPT ![s] = "none"]
  /\ rep' = Punished(rep, quiet, Label(s), "socket-error")
  /\ quiet' = QuietAfter(quiet)
  /\ UNCHANGED <<outbound, timers, table, inbound, bans, rate, used, around>>

\* wss.on("connection"); a caller that is refused leaves no trace.
Accept(a) ==
  /\ bans[a] = 0
  /\ inbound[a] < MaxInbound
  /\ \E k \in 1 .. Copies : Free(<<a, k>>) /\ sock' = [sock EXCEPT ![<<a, k>>] = "open"]
  /\ inbound' = [inbound EXCEPT ![a] = @ + 1]
  /\ Note(a, "connect")
  /\ UNCHANGED <<outbound, timers, table, bans, rate, used, bad, around>>

-----------------------------------------------------------------------------
(* A message.  What refuses it is tried in this order: its size, its form, *)
(* a ban, the rate, its handler.  A socket that closes still receives.     *)

InBudget(s, n) == used[Label(s)] + n <= ByteLimit

Counted(s) == Least(rate[Ip(s)] + 1, RateLimit + 1)

\* The book once a message has been parsed.
Welcomed(s) == Noted(rep, quiet, Label(s), "message-ok")

\* markBad, where the book is that before punishPeer and q tells whether a
\* decay is still due.
MarkBad(s, book, q, event) ==
  LET punished == Punished(book, q, Label(s), event)
  IN  /\ rep' = punished /\ quiet' = QuietAfter(quiet)
      /\ bans' = [bans EXCEPT ![Ip(s)] = Greatest(BaseBan, punished[Label(s)].ban)]
      /\ sock' = [sock EXCEPT ![s] = "closing"]

Spends(s, n) == used' = [used EXCEPT ![Label(s)] = @ + n]

Throttled(s, n) ==
  /\ Connected(s) /\ ~InBudget(s, n)
  /\ Misbehaves(s)
  /\ MarkBad(s, rep, quiet, "bad-message")
  /\ UNCHANGED <<outbound, timers, table, inbound, rate, used, around>>

Unparsable(s, n) ==
  /\ Connected(s) /\ InBudget(s, n)
  /\ Misbehaves(s)
  /\ Spends(s, n)
  /\ MarkBad(s, rep, quiet, "bad-message")
  /\ UNCHANGED <<outbound, timers, table, inbound, rate, around>>

\* allowByRate of a peer that is banned, which bans it again.
WhileBanned(s, n) ==
  /\ Connected(s) /\ InBudget(s, n)
  /\ rep[Label(s)].ban > 0
  /\ Spends(s, n)
  /\ MarkBad(s, Welcomed(s), QuietAfter(quiet), "manual-ban")
  /\ UNCHANGED <<outbound, timers, table, inbound, rate, bad, around>>

TooMany(s, n) ==
  /\ Connected(s) /\ InBudget(s, n)
  /\ rep[Label(s)].ban = 0 /\ rate[Ip(s)] >= RateLimit
  /\ Misbehaves(s)
  /\ Spends(s, n)
  /\ rate' = [rate EXCEPT ![Ip(s)] = Counted(s)]
  /\ MarkBad(s, Welcomed(s), QuietAfter(quiet), "rate-limit")
  /\ UNCHANGED <<outbound, timers, table, inbound, around>>

Allowed(s, n) ==
  /\ Connected(s) /\ InBudget(s, n)
  /\ rep[Label(s)].ban = 0 /\ rate[Ip(s)] < RateLimit
  /\ Spends(s, n)
  /\ rate' = [rate EXCEPT ![Ip(s)] = Counted(s)]

\* A handler that marks the message bad ...
Rejected(s, n, event) ==
  /\ Allowed(s, n)
  /\ Misbehaves(s)
  /\ MarkBad(s, Welcomed(s), QuietAfter(quiet), event)
  /\ UNCHANGED <<outbound, timers, table, inbound, around>>

\* ... one that is content with it, and may reward it once more ...
Handled(s, n) ==
  /\ Allowed(s, n)
  /\ \/ rep' = Welcomed(s)
     \/ \E event \in GoodEvent :
           rep' = [Welcomed(s) EXCEPT ![Label(s)] = Scored(@, event)]
  /\ quiet' = QuietAfter(quiet)
  /\ UNCHANGED <<sock, outbound, timers, table, inbound, bans, bad, around>>

\* ... and a PEERS_RESPONSE, with one url for each of its urls.
Learn(s, n, p) ==
  /\ Allowed(s, n)
  /\ rep' = Welcomed(s) /\ quiet' = QuietAfter(quiet)
  /\ table' = Remember(table, p)
  /\ UNCHANGED <<sock, outbound, timers, inbound, bans, bad, around>>

Message(s) == \E n \in Size :
  \/ Throttled(s, n) \/ Unparsable(s, n) \/ WhileBanned(s, n) \/ TooMany(s, n)
  \/ \E event \in BadEvent : Rejected(s, n, event)
  \/ Handled(s, n)
  \/ \E p \in Peer \cap around : Learn(s, n, p)

-----------------------------------------------------------------------------
\* The error of a connection that breaks; its close follows.
Break(s) ==
  /\ Connected(s)
  /\ Errs
  /\ sock' = [sock EXCEPT ![s] = "closing"]
  /\ rep' = Punished(rep, quiet, Label(s), "socket-error")
  /\ quiet' = QuietAfter(quiet)
  /\ UNCHANGED <<outbound, timers, table, inbound, bans, rate, used, around>>

\* The heartbeat closes what has been silent for long.
Stale(s) ==
  /\ sock[s] = "open"
  /\ sock' = [sock EXCEPT ![s] = "closing"]
  /\ UNCHANGED <<outbound, timers, table, inbound, bans, rep, quiet, rate, used, bad, around>>

\* Mutant: the count goes down only if more than one caller is there.
CountDown_KeepsOne(s, known) ==
  inbound' = IF known THEN [inbound EXCEPT ![Ip(s)] = Greatest(1, @ - 1)] ELSE inbound

\* The count of callers from an address goes down with any socket to it.  The
\* address of a closed dial is known if it was read while the socket was open.
CountDown(s, known) ==
  inbound' = IF known THEN [inbound EXCEPT ![Ip(s)] = Greatest(0, @ - 1)] ELSE inbound

\* Mutant: the url of the closed socket stays.
Close_Dialled(s) ==
  /\ Connected(s)
  /\ sock' = [sock EXCEPT ![s] = "none"]
  /\ Note(Label(s), "disconnect")
  /\ \E known \in IF Label(s) \in Peer THEN BOOLEAN ELSE {TRUE} : CountDown(s, known)
  /\ timers' = IF Label(s) \in Peer THEN timers \cup {Label(s)} ELSE timers
  /\ UNCHANGED <<outbound, table, bans, rate, used, bad, around>>

\* onSocketClose, of a socket that either side has closed.
Close(s) ==
  /\ Connected(s)
  /\ sock' = [sock EXCEPT ![s] = "none"]
  /\ Note(Label(s), "disconnect")
  /\ \E known \in IF Label(s) \in Peer THEN BOOLEAN ELSE {TRUE} : CountDown(s, known)
  /\ outbound' = outbound \ {Label(s)}
  /\ timers' = IF Label(s) \in Peer THEN timers \cup {Label(s)} ELSE timers
  /\ UNCHANGED <<table, bans, rate, used, bad, around>>

-----------------------------------------------------------------------------
\* A window of a label or an address ends.
NewWindow(i) ==
  /\ used' = [used EXCEPT ![i] = 0]
  /\ rate' = IF i \in Addr THEN [rate EXCEPT ![i] = 0] ELSE rate
  /\ UNCHANGED <<sock, outbound, timers, table, inbound, bans, rep, quiet, bad, around>>

Tick ==
  /\ rep' = Aged(rep)
  /\ bans' = [a \in Addr |-> Greatest(0, bans[a] - 1)]
  /\ quiet' = Least(MaxQuiet, quiet + 1)
  /\ rate' = [a \in Addr |-> 0] /\ used' = [i \in Id |-> 0]
  /\ UNCHANGED <<sock, outbound, timers, table, inbound, bad, around>>

\* getNetworkStats decays the scores too.
Poll ==
  /\ DecayDue(quiet)
  /\ rep' = Decayed(rep, quiet) /\ quiet' = QuietAfter(quiet)
  /\ UNCHANGED <<sock, outbound, timers, table, inbound, bans, rate, used, bad, around>>

\* Only the table is on disk.
Restart ==
  /\ table' = IF Bootstrap = NoPeer THEN table ELSE Remember(table, Bootstrap)
  /\ sock' = [s \in Socket |-> IF s = <<Bootstrap, 1>> THEN "dialing" ELSE "none"]
  /\ outbound' = {} /\ timers' = {}
  /\ inbound' = [a \in Addr |-> 0] /\ bans' = [a \in Addr |-> 0]
  /\ rep' = [i \in Id |-> NewRecord] /\ quiet' = 0
  /\ rate' = [a \in Addr |-> 0] /\ used' = [i \in Id |-> 0]
  /\ UNCHANGED <<bad, around>>

Next ==
  \/ Discover \/ \E p \in Peer : Reconnect(p)
  \/ \E s \in Socket : Open(s) \/ DialFails(s) \/ Message(s) \/ Break(s)
                       \/ Stale(s) \/ Close(s)
  \/ \E a \in Addr \cap around : Accept(a)
  \/ \E i \in Id : NewWindow(i)
  \/ Tick \/ Poll \/ Restart

Spec == Init /\ [][Next]_vars

-----------------------------------------------------------------------------
(* What should hold.                                                       *)

OpenTo(i) == {k \in 1 .. Copies : Connected(<<i, k>>)}

\* No address is counted for callers that are gone (network.ts:2648): a count
\* that stays would in the end refuse an address for ever.
NoGhostInbound == \A a \in Addr : inbound[a] <= Cardinality(OpenTo(a))

\* An address has at most MAX_INBOUND_PER_IP callers, if the node dials nobody
\* there (network.ts:3317); otherwise the closes of its dials lower the count.
InboundLimited ==
  \A a \in Addr :
     (\A p \in Peer : AddrOf[p] # a) => Cardinality(OpenTo(a)) <= MaxInbound

\* A url in outboundUrls, which is not dialled again, has a socket that will
\* take it out when it closes (network.ts:3013, :2652).
OutboundThere == \A p \in outbound : OpenTo(p) # {}

\* A peer that sends nothing wrong is not banned for a few errors, whatever the
\* order of its connections, closes, errors, decays and messages, and those of
\* others: MaxBad is 7 with the points of the code (peer-reputation.ts:130-158)
\* and up to 7 sockets.
HonestUnbanned ==
  /\ \A h \in Honest : rep[h].ban = 0
  /\ \A a \in Addr \cap Honest : bans[a] = 0

=============================================================================
