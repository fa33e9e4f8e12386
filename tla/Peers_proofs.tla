---------------------------- MODULE Peers_proofs ----------------------------
(***************************************************************************)
(* What holds of the connections of a node for all labels, limits, points  *)
(* and lengths of bans: the books keep their type, no address is counted   *)
(* for callers that are gone, and a few errors ban nobody.                 *)
(***************************************************************************)
EXTENDS Peers, FiniteSetTheorems, TLAPS

\* The assumptions, as the provers use them.
LEMMA Constants ==
  /\ \A e \in Event : EventScore[e] \in Int
  /\ "connect" \in Event /\ "disconnect" \in Event /\ "message-ok" \in Event
  /\ "socket-error" \in Event /\ "bad-message" \in Event
  /\ "rate-limit" \in Event /\ "manual-ban" \in Event
  /\ MinScore \in Int /\ MaxScore \in Int /\ BanScore \in Int
  /\ WorseScore \in Int /\ WorstScore \in Int
  /\ MinScore <= BanScore /\ BanScore < 0 /\ 0 <= MaxScore
  /\ BaseBan \in Nat \ {0} /\ MaxBan \in Nat \ {0} /\ BaseBan <= MaxBan
  /\ DecayInterval \in Nat \ {0}
  /\ PositiveStep \in Nat /\ NegativeStep \in Nat
  BY ReputationAssumption

-----------------------------------------------------------------------------
(* Scores.                                                                 *)

LEMMA Clamped ==
  ASSUME NEW n \in Int
  PROVE  /\ Clamp(n) \in MinScore .. MaxScore
         /\ \A b \in Int : b <= 0 /\ b <= n => b <= Clamp(n)
  BY Constants DEF Clamp, Least, Greatest

\* A decay moves a score towards 0 and no further.
LEMMA FadedKeeps ==
  ASSUME NEW rec \in Record, NEW steps \in Nat
  PROVE  /\ Faded(rec, steps) \in Record
         /\ Faded(rec, steps).ban = rec.ban
         /\ \A b \in Int : b <= 0 /\ b <= rec.score => b <= Faded(rec, steps).score
<1> DEFINE down == PositiveStep * steps
           up == NegativeStep * steps
<1>1. down \in Nat /\ up \in Nat
  BY Constants
<1> HIDE DEF down, up
<1> DEFINE new == IF rec.score > 0 THEN Greatest(0, rec.score - down)
                                   ELSE Least(0, rec.score + up)
<1>2. /\ rec.score \in Int /\ MinScore <= rec.score /\ rec.score <= MaxScore
      /\ rec.ban \in 0 .. MaxBan /\ rec.next \in BaseBan .. MaxBan
  BY Constants DEF Record
<1>3. /\ new \in MinScore .. MaxScore
      /\ \A b \in Int : b <= 0 /\ b <= rec.score => b <= new
  BY <1>1, <1>2, Constants DEF Greatest, Least
<1>4. Faded(rec, steps) = IF rec.ban > 0 THEN rec ELSE [rec EXCEPT !.score = new]
  BY DEF Faded, down, up
<1> HIDE DEF new
<1> QED
  BY <1>2, <1>3, <1>4 DEF Record

LEMMA DecayedKeeps ==
  ASSUME NEW book \in [Id -> Record], NEW q \in Nat
  PROVE  /\ Decayed(book, q) \in [Id -> Record]
         /\ \A i \in Id : Decayed(book, q)[i].ban = book[i].ban
         /\ \A i \in Id : \A b \in Int :
               b <= 0 /\ b <= book[i].score => b <= Decayed(book, q)[i].score
<1>1. q \div DecayInterval \in Nat
  BY Constants
<1> DEFINE steps == q \div DecayInterval
<1> HIDE DEF steps
<1>2. \A i \in Id : /\ Faded(book[i], steps) \in Record
                    /\ Faded(book[i], steps).ban = book[i].ban
                    /\ \A b \in Int : b <= 0 /\ b <= book[i].score
                                        => b <= Faded(book[i], steps).score
  BY <1>1, FadedKeeps DEF steps
<1>3. Decayed(book, q) = IF DecayDue(q) THEN [i \in Id |-> Faded(book[i], steps)]
                                        ELSE book
  BY DEF Decayed, steps
<1> QED
  BY <1>2, <1>3

LEMMA ScoredKeeps ==
  ASSUME NEW rec \in Record, NEW event \in Event
  PROVE  /\ Scored(rec, event) \in Record
         /\ Scored(rec, event).ban = rec.ban
         /\ \A b \in Int : b <= 0 /\ b <= rec.score + EventScore[event]
                             => b <= Scored(rec, event).score
<1>1. /\ rec.score \in Int /\ rec.ban \in 0 .. MaxBan
      /\ rec.next \in BaseBan .. MaxBan
  BY Constants DEF Record
<1>2. rec.score + EventScore[event] \in Int
  BY <1>1, Constants
<1> DEFINE new == Clamp(rec.score + EventScore[event])
<1>3. /\ new \in MinScore .. MaxScore
      /\ \A b \in Int : b <= 0 /\ b <= rec.score + EventScore[event] => b <= new
  BY <1>2, Clamped
<1>4. Scored(rec, event) = [rec EXCEPT !.score = new]
  BY DEF Scored
<1> HIDE DEF new
<1> QED
  BY <1>1, <1>3, <1>4 DEF Record

LEMMA BannedTyped ==
  ASSUME NEW rec \in Record, NEW manual \in BOOLEAN
  PROVE  Banned(rec, manual) \in Record
<1>1. /\ rec.score \in MinScore .. MaxScore /\ rec.ban \in 0 .. MaxBan
      /\ rec.next \in BaseBan .. MaxBan
  BY DEF Record
<1> DEFINE score == Least(rec.score, BanScore)
<1>2. score \in MinScore .. MaxScore
  BY <1>1, Constants DEF Least
<1> HIDE DEF score
<1>3. Penalty(score) \in {1, 2, 4}
  BY DEF Penalty
<1>4. rec.next * Penalty(score) \in Nat
  BY <1>1, <1>3, Constants
<1>5. BanLength(rec, score, manual) \in 0 .. MaxBan
  BY <1>4, Constants DEF BanLength, Least
<1>6. Least(MaxBan, 2 * rec.next) \in BaseBan .. MaxBan
  BY <1>1, Constants DEF Least
<1>7. Banned(rec, manual) = [score |-> score, ban |-> BanLength(rec, score, manual),
                             next |-> Least(MaxBan, 2 * rec.next)]
  BY DEF Banned, score
<1> QED
  BY <1>2, <1>5, <1>6, <1>7 DEF Record

\* Only a score that is low enough, or a ban that runs, becomes a ban.
LEMMA SentencedKeeps ==
  ASSUME NEW rec \in Record, NEW event \in Event
  PROVE  /\ Sentenced(rec, event) \in Record
         /\ event # "manual-ban" /\ rec.score > BanScore => Sentenced(rec, event) = rec
<1>1. Banned(rec, TRUE) \in Record /\ Banned(rec, FALSE) \in Record
  BY BannedTyped
<1>2. rec.score \in Int
  BY Constants DEF Record
<1>3. Sentenced(rec, event) \in Record
  <2> DEFINE b1 == Banned(rec, TRUE)
             b2 == Banned(rec, FALSE)
  <2>1. Sentenced(rec, event) = IF event = "manual-ban" THEN b1
                                ELSE IF rec.score <= BanScore THEN b2 ELSE rec
    BY DEF Sentenced
  <2> HIDE DEF b1, b2
  <2> QED
    BY <1>1, <2>1 DEF b1, b2
<1>4. event # "manual-ban" /\ rec.score > BanScore => Sentenced(rec, event) = rec
  <2>1. rec.score > BanScore => ~(rec.score <= BanScore)
    BY <1>2, Constants
  <2> QED
    BY <2>1 DEF Sentenced
<1> QED
  BY <1>3, <1>4

\* A score, after the decay and the points of the event, is what it was with
\* these points, or nearer to 0.
LEMMA NotedKeeps ==
  ASSUME NEW book \in [Id -> Record], NEW q \in Nat, NEW id \in Id, NEW event \in Event
  PROVE  /\ Noted(book, q, id, event) \in [Id -> Record]
         /\ \A i \in Id : Noted(book, q, id, event)[i].ban = book[i].ban
         /\ \A i \in Id \ {id} : \A b \in Int :
               b <= 0 /\ b <= book[i].score => b <= Noted(book, q, id, event)[i].score
         /\ \A b, c \in Int :
               b <= 0 /\ b <= book[id].score /\ c <= EventScore[event] /\ b + c <= 0
                 => b + c <= Noted(book, q, id, event)[id].score
<1> DEFINE d == Decayed(book, q)
<1>1. /\ d \in [Id -> Record]
      /\ \A i \in Id : d[i].ban = book[i].ban
      /\ \A i \in Id : \A b \in Int : b <= 0 /\ b <= book[i].score => b <= d[i].score
  BY DecayedKeeps
<1>2. Noted(book, q, id, event) = [d EXCEPT ![id] = Scored(d[id], event)]
  BY DEF Noted
<1> HIDE DEF d
<1>3. /\ Scored(d[id], event) \in Record
      /\ Scored(d[id], event).ban = d[id].ban
      /\ \A b \in Int : b <= 0 /\ b <= d[id].score + EventScore[event]
                          => b <= Scored(d[id], event).score
  BY <1>1, ScoredKeeps
<1>4. d[id].score \in Int /\ EventScore[event] \in Int
  BY <1>1, Constants DEF Record
<1>5. ASSUME NEW b \in Int, NEW c \in Int,
             b <= 0, b <= book[id].score, c <= EventScore[event], b + c <= 0
      PROVE  b + c <= Scored(d[id], event).score
  <2>1. b + c \in Int /\ b + c <= d[id].score + EventScore[event]
    BY <1>1, <1>4, <1>5
  <2> QED
    BY <2>1, <1>3, <1>5
<1> QED
  BY <1>1, <1>2, <1>3, <1>5

LEMMA PunishedKeeps ==
  ASSUME NEW book \in [Id -> Record], NEW q \in Nat, NEW id \in Id, NEW event \in Event
  PROVE  /\ Punished(book, q, id, event) \in [Id -> Record]
         /\ \A i \in Id \ {id} :
               /\ Punished(book, q, id, event)[i].ban = book[i].ban
               /\ \A b \in Int : b <= 0 /\ b <= book[i].score
                                   => b <= Punished(book, q, id, event)[i].score
         /\ \A b, c \in Int :
               /\ event # "manual-ban"
               /\ b <= 0 /\ b <= book[id].score /\ c <= EventScore[event]
               /\ b + c <= 0 /\ BanScore < b + c
               => /\ b + c <= Punished(book, q, id, event)[id].score
                  /\ Punished(book, q, id, event)[id].ban = book[id].ban
<1> DEFINE d == Decayed(book, q)
           scored == Scored(d[id], event)
<1>1. /\ d \in [Id -> Record]
      /\ \A i \in Id : d[i].ban = book[i].ban
      /\ \A i \in Id : \A b \in Int : b <= 0 /\ b <= book[i].score => b <= d[i].score
  BY DecayedKeeps
<1>2. Punished(book, q, id, event) = [d EXCEPT ![id] = Sentenced(scored, event)]
  BY DEF Punished
<1> HIDE DEF d
<1>3. /\ scored \in Record /\ scored.ban = d[id].ban
      /\ \A b \in Int : b <= 0 /\ b <= d[id].score + EventScore[event] => b <= scored.score
  BY <1>1, ScoredKeeps
<1>4. d[id].score \in Int /\ EventScore[event] \in Int /\ scored.score \in Int
  BY <1>1, <1>3, Constants DEF Record
<1> HIDE DEF scored
<1>5. /\ Sentenced(scored, event) \in Record
      /\ event # "manual-ban" /\ scored.score > BanScore => Sentenced(scored, event) = scored
  BY <1>3, SentencedKeeps
<1>6. ASSUME NEW b \in Int, NEW c \in Int, event # "manual-ban",
             b <= 0, b <= book[id].score, c <= EventScore[event],
             b + c <= 0, BanScore < b + c
      PROVE  /\ b + c <= Sentenced(scored, event).score
             /\ Sentenced(scored, event).ban = book[id].ban
  <2>1. b + c \in Int /\ b + c <= d[id].score + EventScore[event]
    BY <1>1, <1>4, <1>6
  <2>2. b + c <= scored.score
    BY <2>1, <1>3, <1>6
  <2>3. scored.score > BanScore
    BY <2>1, <2>2, <1>4, <1>6, Constants
  <2> QED
    BY <2>2, <2>3, <1>1, <1>3, <1>5, <1>6
<1> QED
  BY <1>1, <1>2, <1>5, <1>6

-----------------------------------------------------------------------------
(* Sockets.                                                                *)

State == {"none", "dialing", "open", "closing"}

OpenIn(f, i) == {k \in 1 .. Copies : f[<<i, k>>] \in {"open", "closing"}}

LEMMA CopiesPositive == Copies \in Nat \ {0}
  BY PeersAssumption

LEMMA OpenIsOpenIn == /\ \A i \in Id : OpenTo(i) = OpenIn(sock, i)
                      /\ \A i \in Id : OpenTo(i)' = OpenIn(sock', i)
  BY DEF OpenTo, OpenIn, Connected

LEMMA OpenFinite ==
  ASSUME NEW f, NEW i
  PROVE  /\ OpenIn(f, i) \subseteq 1 .. Copies
         /\ IsFiniteSet(OpenIn(f, i))
         /\ Cardinality(OpenIn(f, i)) \in Nat
         /\ Cardinality(OpenIn(f, i)) <= Copies
<1>1. OpenIn(f, i) \subseteq 1 .. Copies
  BY DEF OpenIn
<1>2. IsFiniteSet(1 .. Copies) /\ Cardinality(1 .. Copies) = Copies
  BY CopiesPositive, FS_Interval
<1> QED
  BY <1>1, <1>2, FS_Subset, FS_CardinalityType

\* What a change of one socket does to the sets of open ones.
LEMMA Changed ==
  ASSUME NEW f \in [Socket -> State], NEW s \in Socket, NEW v \in State,
         NEW i \in Id
  PROVE  LET g == [f EXCEPT ![s] = v]
             was == f[s] \in {"open", "closing"}
             is == v \in {"open", "closing"}
             old == Cardinality(OpenIn(f, i))
             new == Cardinality(OpenIn(g, i))
         IN  /\ i # Label(s) \/ (was <=> is) => OpenIn(g, i) = OpenIn(f, i)
             /\ i = Label(s) /\ ~was /\ is => new = old + 1 /\ OpenIn(g, i) # {}
             /\ i = Label(s) /\ was /\ ~is => new = old - 1
<1> DEFINE g == [f EXCEPT ![s] = v]
           was == f[s] \in {"open", "closing"}
           is == v \in {"open", "closing"}
<1>1. PICK j \in Id, c \in 1 .. Copies : s = <<j, c>>
  BY DEF Socket
<1>2. Label(s) = j
  BY <1>1 DEF Label
<1>3. \A k \in 1 .. Copies : <<i, k>> \in Socket
  BY DEF Socket
<1>4. \A k \in 1 .. Copies : g[<<i, k>>] = IF i = j /\ k = c THEN v ELSE f[<<i, k>>]
  BY <1>1, <1>3
<1>5. i # j \/ (was <=> is) => OpenIn(g, i) = OpenIn(f, i)
  BY <1>1, <1>4 DEF OpenIn
<1>6. i = j /\ ~was /\ is => /\ OpenIn(g, i) = OpenIn(f, i) \cup {c}
                              /\ c \notin OpenIn(f, i)
  BY <1>1, <1>4 DEF OpenIn
<1>7. i = j /\ was /\ ~is => /\ OpenIn(g, i) = OpenIn(f, i) \ {c}
                              /\ c \in OpenIn(f, i)
  BY <1>1, <1>4 DEF OpenIn
<1>8. IsFiniteSet(OpenIn(f, i))
  BY OpenFinite
<1> HIDE DEF g, was, is
<1>9. i = j /\ ~was /\ is => Cardinality(OpenIn(g, i)) = Cardinality(OpenIn(f, i)) + 1
  BY <1>6, <1>8, FS_AddElement
<1>10. i = j /\ was /\ ~is => Cardinality(OpenIn(g, i)) = Cardinality(OpenIn(f, i)) - 1
  BY <1>7, <1>8, FS_RemoveElement
<1> QED
  BY <1>2, <1>5, <1>6, <1>9, <1>10 DEF g, was, is

-----------------------------------------------------------------------------
(* What an honest peer's score cannot fall below: nothing while all its    *)
(* sockets are open, a point for each that is not, and the errors so far.  *)

Debt(n) == n * EventScore["socket-error"]

Floor(f, n, h) == Cardinality(OpenIn(f, h)) - Copies + Debt(n)

LEMMA Debts ==
  ASSUME NEW n \in 0 .. MaxBad
  PROVE  /\ Debt(n) \in Int /\ Debt(n) <= 0
         /\ Debt(n + 1) = Debt(n) + EventScore["socket-error"]
         /\ BanScore < Debt(n) - Copies
<1> DEFINE e == EventScore["socket-error"]
<1>1. e \in Int /\ e <= 0 /\ MaxBad \in Nat /\ BanScore < MaxBad * e - Copies
  BY HonestAssumption, PeersAssumption, Constants
<1> HIDE DEF e
<1>2. n \in Nat /\ n <= MaxBad
  BY <1>1
<1>3. n * e \in Int /\ n * e <= 0 /\ (n + 1) * e = n * e + e
  BY <1>1, <1>2
<1>4. MaxBad * e <= n * e
  <2>1. (MaxBad - n) \in Nat
    BY <1>1, <1>2
  <2>2. (MaxBad - n) * e <= 0 /\ (MaxBad - n) * e = MaxBad * e - n * e
    BY <2>1, <1>1, <1>2
  <2> QED
    BY <2>2, <1>1, <1>2, <1>3
<1>5. MaxBad * e \in Int
  BY <1>1
<1> QED
  BY <1>1, <1>3, <1>4, <1>5, Constants, CopiesPositive DEF Debt, e

LEMMA Floors ==
  ASSUME NEW f, NEW n \in 0 .. MaxBad, NEW h
  PROVE  Floor(f, n, h) \in Int /\ Floor(f, n, h) <= 0 /\ BanScore < Floor(f, n, h)
  BY Debts, OpenFinite, CopiesPositive, Constants DEF Floor

Standing == \A h \in Honest : Floor(sock, bad, h) <= rep[h].score

\* The count of an address the node does not dial is exact.
Exact ==
  \A a \in Addr :
     (\A p \in Peer : AddrOf[p] # a) =>
        inbound[a] = Cardinality(OpenTo(a)) /\ inbound[a] <= MaxInbound

Inductive ==
  /\ TypeOK
  /\ NoGhostInbound
  /\ Exact
  /\ OutboundThere
  /\ HonestUnbanned
  /\ Standing

LEMMA Limits ==
  /\ Peer \cap Addr = {} /\ Id = Peer \cup Addr /\ NoPeer \notin Id
  /\ AddrOf \in [Peer -> Addr] /\ Honest \subseteq Id
  /\ \A u \in Peer : AddrOf[u] \in Honest => u \in Honest
  /\ MaxInbound \in Nat \ {0} /\ TableMax \in Nat \ {0}
  /\ RateLimit \in Nat \ {0} /\ ByteLimit \in Nat \ {0}
  /\ MaxQuiet \in Nat /\ MaxBad \in Nat
  /\ Bootstrap \in Peer \cup {NoPeer} /\ Size \subseteq Nat
  /\ GoodEvent \subseteq Event /\ BadEvent \subseteq Event
  /\ \A e \in GoodEvent \cup {"message-ok"} : EventScore[e] >= 0
  BY PeersAssumption

LEMMA Quieted ==
  ASSUME NEW q \in 0 .. MaxQuiet
  PROVE  q \in Nat /\ QuietAfter(q) \in 0 .. MaxQuiet /\ QuietAfter(q) \in Nat
  BY Limits DEF QuietAfter

LEMMA Labels ==
  ASSUME NEW s \in Socket
  PROVE  Label(s) \in Id /\ Ip(s) \in Addr
         /\ (Label(s) \in Addr => Ip(s) = Label(s))
         /\ (Ip(s) \in Honest => Label(s) \in Honest)
<1>1. Label(s) \in Id
  BY DEF Socket, Label
<1> QED
  BY <1>1, Limits DEF Ip

LEMMA Remembered ==
  ASSUME NEW t \in Seq(Peer), Len(t) <= TableMax, NEW u \in Peer
  PROVE  Remember(t, u) \in Seq(Peer) /\ Len(Remember(t, u)) <= TableMax
<1>1. Append(t, u) \in Seq(Peer) /\ Len(Append(t, u)) = Len(t) + 1 /\ Len(t) \in Nat
  OBVIOUS
<1>2. CASE Len(t) < TableMax
  BY <1>1, <1>2, Limits DEF Remember
<1>3. CASE Len(t) >= TableMax
  <2>1. t # <<>>
    BY <1>3, <1>1, Limits
  <2>2. Tail(t) \in Seq(Peer) /\ Len(Tail(t)) = Len(t) - 1
    BY <2>1
  <2>3. Append(Tail(t), u) \in Seq(Peer) /\ Len(Append(Tail(t), u)) = Len(t)
    BY <2>2, <1>1
  <2> QED
    BY <2>3, <1>1, <1>3, Limits DEF Remember
<1> QED
  BY <1>1, <1>2, <1>3, Limits

-----------------------------------------------------------------------------
(* Steps that open and close nothing.                                      *)

LEMMA CountsKept ==
  ASSUME NoGhostInbound, Exact, OutboundThere,
         \A i \in Id : OpenIn(sock', i) = OpenIn(sock, i),
         inbound' = inbound, outbound' = outbound, outbound \subseteq Peer
  PROVE  NoGhostInbound' /\ Exact' /\ OutboundThere'
<1>1. \A i \in Id : OpenTo(i)' = OpenTo(i)
  BY OpenIsOpenIn
<1> QED
  BY <1>1, Limits DEF NoGhostInbound, Exact, OutboundThere

LEMMA StandingKept ==
  ASSUME Standing, bad \in 0 .. MaxBad, bad' \in {bad, bad + 1}, rep \in [Id -> Record],
         \A i \in Id : OpenIn(sock', i) = OpenIn(sock, i),
         \A h \in Honest : \A b \in Int :
            b <= 0 /\ b <= rep[h].score => b <= rep'[h].score,
         rep' \in [Id -> Record]
  PROVE  Standing'
<1> SUFFICES ASSUME NEW h \in Honest
             PROVE  Floor(sock', bad', h) <= rep'[h].score
  BY DEF Standing
<1>1. /\ Floor(sock, bad, h) \in Int /\ Floor(sock, bad, h) <= 0
      /\ Floor(sock, bad, h) <= rep[h].score
  BY Floors DEF Standing
<1>2. Floor(sock, bad, h) <= rep'[h].score
  BY <1>1
<1>3. rep'[h].score \in Int
  BY Constants, Limits DEF Record
<1>4. Debt(bad') \in Int /\ Debt(bad') <= Debt(bad) /\ Debt(bad) \in Int
  BY Debts, HonestAssumption, Constants
<1>5. OpenIn(sock', h) = OpenIn(sock, h)
  BY Limits
<1>6. Cardinality(OpenIn(sock, h)) \in Nat
  BY OpenFinite
<1> QED
  BY <1>2, <1>3, <1>4, <1>5, <1>6, CopiesPositive DEF Floor

\* What markBad does to the books, to anybody but an honest peer.
LEMMA MarkedBad ==
  ASSUME Inductive, NEW s \in Socket, Connected(s), Label(s) \notin Honest,
         NEW book \in [Id -> Record], NEW q \in Nat, NEW event \in Event,
         \A i \in Id : book[i].ban = rep[i].ban,
         \A i \in Id \ {Label(s)} : \A b \in Int :
            b <= 0 /\ b <= rep[i].score => b <= book[i].score,
         MarkBad(s, book, q, event),
         bad' \in {bad, bad + 1}, inbound' = inbound, outbound' = outbound
  PROVE  /\ sock' \in [Socket -> State]
         /\ \A r \in Socket : sock'[r] = "dialing" => Label(r) \in Peer
         /\ rep' \in [Id -> Record] /\ quiet' \in 0 .. MaxQuiet
         /\ bans' \in [Addr -> 0 .. MaxBan]
         /\ NoGhostInbound' /\ Exact' /\ OutboundThere' /\ HonestUnbanned' /\ Standing'
<1> DEFINE pun == Punished(book, q, Label(s), event)
<1>1. /\ sock \in [Socket -> State] /\ rep \in [Id -> Record] /\ quiet \in 0 .. MaxQuiet
      /\ bans \in [Addr -> 0 .. MaxBan] /\ bad \in 0 .. MaxBad
      /\ \A r \in Socket : sock[r] = "dialing" => Label(r) \in Peer
      /\ outbound \subseteq Peer
  BY DEF Inductive, TypeOK, State
<1>2. Label(s) \in Id /\ Ip(s) \in Addr /\ Ip(s) \notin Honest
  BY Labels
<1>3. /\ pun \in [Id -> Record]
      /\ \A i \in Id \ {Label(s)} :
            /\ pun[i].ban = book[i].ban
            /\ \A b \in Int : b <= 0 /\ b <= book[i].score => b <= pun[i].score
  BY <1>2, PunishedKeeps
<1>4. /\ rep' = pun /\ quiet' = QuietAfter(quiet)
      /\ bans' = [bans EXCEPT ![Ip(s)] = Greatest(BaseBan, pun[Label(s)].ban)]
      /\ sock' = [sock EXCEPT ![s] = "closing"]
  BY DEF MarkBad
<1> HIDE DEF pun
<1>5. sock' \in [Socket -> State] /\ \A r \in Socket : sock'[r] = "dialing" => Label(r) \in Peer
  BY <1>1, <1>4 DEF State
<1>6. \A i \in Id : OpenIn(sock', i) = OpenIn(sock, i)
  BY <1>1, <1>4, Changed DEF Connected, State
<1>7. pun[Label(s)].ban \in 0 .. MaxBan
  BY <1>2, <1>3 DEF Record
<1>8. bans' \in [Addr -> 0 .. MaxBan]
  BY <1>1, <1>2, <1>4, <1>7, Constants DEF Greatest
<1>9. quiet' \in 0 .. MaxQuiet
  BY <1>1, <1>4, Quieted
<1>10. NoGhostInbound' /\ Exact' /\ OutboundThere'
  BY <1>1, <1>6, CountsKept DEF Inductive
<1>11. HonestUnbanned'
  <2>1. \A h \in Honest : rep'[h].ban = 0
    BY <1>3, <1>4, Limits DEF Inductive, HonestUnbanned
  <2>2. \A a \in Addr \cap Honest : bans'[a] = 0
    BY <1>1, <1>2, <1>4 DEF Inductive, HonestUnbanned
  <2> QED
    BY <2>1, <2>2 DEF HonestUnbanned
<1>12. \A h \in Honest : \A b \in Int :
          b <= 0 /\ b <= rep[h].score => b <= rep'[h].score
  BY <1>3, <1>4, Limits
<1>13. Standing'
  BY <1>1, <1>3, <1>4, <1>6, <1>12, StandingKept DEF Inductive
<1> QED
  BY <1>3, <1>4, <1>5, <1>8, <1>9, <1>10, <1>11, <1>13

\* The book once a message has been parsed.
LEMMA Welcome ==
  ASSUME Inductive, NEW s \in Socket
  PROVE  /\ Welcomed(s) \in [Id -> Record]
         /\ \A i \in Id : Welcomed(s)[i].ban = rep[i].ban
         /\ \A i \in Id : \A b \in Int :
               b <= 0 /\ b <= rep[i].score => b <= Welcomed(s)[i].score
<1>1. rep \in [Id -> Record] /\ quiet \in Nat /\ Label(s) \in Id
  BY Labels, Quieted DEF Inductive, TypeOK
<1>2. /\ Welcomed(s) \in [Id -> Record]
      /\ \A i \in Id : Welcomed(s)[i].ban = rep[i].ban
      /\ \A i \in Id \ {Label(s)} : \A b \in Int :
            b <= 0 /\ b <= rep[i].score => b <= Welcomed(s)[i].score
      /\ \A b, c \in Int :
            b <= 0 /\ b <= rep[Label(s)].score /\ c <= EventScore["message-ok"] /\ b + c <= 0
              => b + c <= Welcomed(s)[Label(s)].score
  BY <1>1, NotedKeeps, Constants DEF Welcomed
<1>3. ASSUME NEW b \in Int, b <= 0, b <= rep[Label(s)].score
      PROVE  b <= Welcomed(s)[Label(s)].score
  <2>1. 0 <= EventScore["message-ok"] /\ b + 0 <= 0
    BY <1>3, Limits
  <2>2. b + 0 <= Welcomed(s)[Label(s)].score
    BY <2>1, <1>2, <1>3
  <2> QED
    BY <2>2
<1> QED
  BY <1>2, <1>3

LEMMA RateTyped ==
  ASSUME Inductive, NEW s \in Socket, NEW n \in Size, InBudget(s, n), Spends(s, n)
  PROVE  /\ used' \in [Id -> 0 .. ByteLimit]
         /\ [rate EXCEPT ![Ip(s)] = Counted(s)] \in [Addr -> 0 .. RateLimit + 1]
<1>1. used \in [Id -> 0 .. ByteLimit] /\ rate \in [Addr -> 0 .. RateLimit + 1]
  BY DEF Inductive, TypeOK
<1>2. Label(s) \in Id /\ Ip(s) \in Addr /\ n \in Nat
  BY Labels, Limits
<1>3. used[Label(s)] + n \in 0 .. ByteLimit
  BY <1>1, <1>2, Limits DEF InBudget
<1>4. Counted(s) \in 0 .. RateLimit + 1
  BY <1>1, <1>2, Limits DEF Counted, Least
<1> QED
  BY <1>1, <1>3, <1>4 DEF Spends

\* The five ways a message can be refused.
LEMMA Refusal ==
  ASSUME Inductive, NEW s \in Socket, NEW n \in Size,
         \/ Throttled(s, n) \/ Unparsable(s, n) \/ WhileBanned(s, n) \/ TooMany(s, n)
         \/ \E event \in BadEvent : Rejected(s, n, event)
  PROVE  Inductive'
<1>1. /\ Connected(s) /\ Label(s) \notin Honest /\ Label(s) \in Id
      /\ inbound' = inbound /\ outbound' = outbound /\ timers' = timers /\ table' = table
      /\ around' = around /\ bad' \in {bad, bad + 1}
  BY Labels DEF Throttled, Unparsable, WhileBanned, TooMany, Rejected, Allowed,
     Misbehaves, Errs, Inductive, HonestUnbanned
<1>2. bad' \in 0 .. MaxBad
  <2>1. bad \in 0 .. MaxBad
    BY DEF Inductive, TypeOK
  <2> QED
    BY <2>1, Limits DEF Throttled, Unparsable, WhileBanned, TooMany, Rejected, Allowed,
       Misbehaves, Errs
<1>3. /\ used' \in [Id -> 0 .. ByteLimit]
      /\ rate' \in [Addr -> 0 .. RateLimit + 1]
  <2>1. rate \in [Addr -> 0 .. RateLimit + 1] /\ used \in [Id -> 0 .. ByteLimit]
    BY DEF Inductive, TypeOK
  <2> QED
    BY <2>1, RateTyped DEF Throttled, Unparsable, WhileBanned, TooMany, Rejected, Allowed
<1>4. rep \in [Id -> Record] /\ quiet \in Nat /\ QuietAfter(quiet) \in Nat
  BY Quieted DEF Inductive, TypeOK
<1> DEFINE Marked == \E book \in [Id -> Record], q \in Nat, event \in Event :
             /\ \A i \in Id : book[i].ban = rep[i].ban
             /\ \A i \in Id \ {Label(s)} : \A b \in Int :
                   b <= 0 /\ b <= rep[i].score => b <= book[i].score
             /\ MarkBad(s, book, q, event)
<1>5. Marked
  <2>1. CASE MarkBad(s, rep, quiet, "bad-message")
    BY <2>1, <1>4, Constants
  <2>2. CASE \E event \in Event : MarkBad(s, Welcomed(s), QuietAfter(quiet), event)
    BY <2>2, <1>4, Welcome
  <2> QED
    BY <2>1, <2>2, Constants, Limits
       DEF Throttled, Unparsable, WhileBanned, TooMany, Rejected
<1>6. /\ sock' \in [Socket -> State]
      /\ \A r \in Socket : sock'[r] = "dialing" => Label(r) \in Peer
      /\ rep' \in [Id -> Record] /\ quiet' \in 0 .. MaxQuiet
      /\ bans' \in [Addr -> 0 .. MaxBan]
      /\ NoGhostInbound' /\ Exact' /\ OutboundThere' /\ HonestUnbanned' /\ Standing'
  <2>1. PICK book \in [Id -> Record], q \in Nat, event \in Event :
             /\ \A i \in Id : book[i].ban = rep[i].ban
             /\ \A i \in Id \ {Label(s)} : \A b \in Int :
                   b <= 0 /\ b <= rep[i].score => b <= book[i].score
             /\ MarkBad(s, book, q, event)
    BY <1>5
  <2> QED
    BY <2>1, <1>1, MarkedBad
<1>7. TypeOK'
  BY <1>1, <1>2, <1>3, <1>6 DEF Inductive, TypeOK, State
<1> QED
  BY <1>6, <1>7 DEF Inductive

\* A message that is taken.
LEMMA Acceptance ==
  ASSUME Inductive, NEW s \in Socket, NEW n \in Size,
         Handled(s, n) \/ \E u \in Peer : Learn(s, n, u)
  PROVE  Inductive'
<1>1. /\ sock' = sock /\ outbound' = outbound /\ timers' = timers /\ inbound' = inbound
      /\ bans' = bans /\ bad' = bad /\ around' = around /\ quiet' = QuietAfter(quiet)
      /\ Label(s) \in Id
  BY Labels DEF Handled, Learn
<1>2. /\ rep \in [Id -> Record] /\ quiet \in 0 .. MaxQuiet /\ bad \in 0 .. MaxBad
      /\ table \in Seq(Peer) /\ Len(table) <= TableMax /\ outbound \subseteq Peer
  BY DEF Inductive, TypeOK
<1>3. /\ used' \in [Id -> 0 .. ByteLimit]
      /\ rate' \in [Addr -> 0 .. RateLimit + 1]
  BY RateTyped DEF Handled, Learn, Allowed
<1>4. table' \in Seq(Peer) /\ Len(table') <= TableMax
  BY <1>2, Remembered DEF Handled, Learn
<1>5. /\ rep' \in [Id -> Record]
      /\ \A i \in Id : rep'[i].ban = rep[i].ban
      /\ \A i \in Id : \A b \in Int : b <= 0 /\ b <= rep[i].score => b <= rep'[i].score
  <2> DEFINE w == Welcomed(s)
  <2>1. /\ w \in [Id -> Record]
        /\ \A i \in Id : w[i].ban = rep[i].ban
        /\ \A i \in Id : \A b \in Int : b <= 0 /\ b <= rep[i].score => b <= w[i].score
    BY Welcome
  <2>2. \/ rep' = w
        \/ \E event \in GoodEvent : rep' = [w EXCEPT ![Label(s)] = Scored(w[Label(s)], event)]
    BY DEF Handled, Learn
  <2> HIDE DEF w
  <2>3. CASE rep' = w
    BY <2>1, <2>3
  <2>4. ASSUME NEW event \in GoodEvent, rep' = [w EXCEPT ![Label(s)] = Scored(w[Label(s)], event)]
        PROVE  /\ rep' \in [Id -> Record]
               /\ \A i \in Id : rep'[i].ban = rep[i].ban
               /\ \A i \in Id : \A b \in Int : b <= 0 /\ b <= rep[i].score => b <= rep'[i].score
    <3>1. /\ Scored(w[Label(s)], event) \in Record
          /\ Scored(w[Label(s)], event).ban = w[Label(s)].ban
          /\ \A b \in Int : b <= 0 /\ b <= w[Label(s)].score + EventScore[event]
                             => b <= Scored(w[Label(s)], event).score
      BY <2>1, <1>1, ScoredKeeps, Limits
    <3>2. /\ EventScore[event] \in Int /\ EventScore[event] >= 0
          /\ w[Label(s)].score \in Int
      BY <2>1, <1>1, Limits, Constants DEF Record
    <3>3. \A b \in Int : b <= 0 /\ b <= w[Label(s)].score => b <= Scored(w[Label(s)], event).score
      BY <3>1, <3>2
    <3> QED
      BY <3>1, <3>3, <2>1, <2>4, <1>1
  <2> QED
    BY <2>2, <2>3, <2>4
<1>6. NoGhostInbound' /\ Exact' /\ OutboundThere'
  BY <1>1, <1>2, CountsKept DEF Inductive
<1>7. HonestUnbanned'
  BY <1>1, <1>5, Limits DEF Inductive, HonestUnbanned
<1>8. Standing'
  BY <1>1, <1>2, <1>5, Limits, StandingKept DEF Inductive
<1>9. TypeOK'
  BY <1>1, <1>2, <1>3, <1>4, <1>5, Quieted DEF Inductive, TypeOK
<1> QED
  BY <1>6, <1>7, <1>8, <1>9 DEF Inductive

-----------------------------------------------------------------------------
(* Steps that open or close a socket, or lose one to an error.             *)

\* An event that gives as many points as sockets are opened by the step.
LEMMA StandingNoted ==
  ASSUME TypeOK, Standing, HonestUnbanned, bad' = bad, bans' = bans,
         NEW id \in Id, NEW event \in Event,
         Note(id, event),
         \A i \in Id \ {id} : OpenIn(sock', i) = OpenIn(sock, i),
         Cardinality(OpenIn(sock', id)) - Cardinality(OpenIn(sock, id)) <= EventScore[event]
  PROVE  /\ rep' \in [Id -> Record] /\ quiet' \in 0 .. MaxQuiet
         /\ HonestUnbanned' /\ Standing'
<1>1. rep \in [Id -> Record] /\ quiet \in 0 .. MaxQuiet /\ quiet \in Nat /\ bad \in 0 .. MaxBad
  BY Quieted DEF TypeOK
<1>2. /\ rep' \in [Id -> Record]
      /\ \A i \in Id : rep'[i].ban = rep[i].ban
      /\ \A i \in Id \ {id} : \A b \in Int :
            b <= 0 /\ b <= rep[i].score => b <= rep'[i].score
      /\ \A b, c \in Int :
            b <= 0 /\ b <= rep[id].score /\ c <= EventScore[event] /\ b + c <= 0
              => b + c <= rep'[id].score
  BY <1>1, NotedKeeps DEF Note
<1>3. ASSUME NEW h \in Honest PROVE Floor(sock', bad', h) <= rep'[h].score
  <2>1. /\ Floor(sock, bad, h) \in Int /\ Floor(sock, bad, h) <= 0
        /\ Floor(sock, bad, h) <= rep[h].score
        /\ Floor(sock', bad, h) \in Int /\ Floor(sock', bad, h) <= 0
    BY <1>1, Floors DEF Standing
  <2>2. CASE h # id
    <3>1. Floor(sock', bad', h) = Floor(sock, bad, h)
      BY <2>2, Limits DEF Floor
    <3> QED
      BY <3>1, <2>1, <2>2, <1>2, Limits
  <2>3. CASE h = id
    <3> DEFINE c == Cardinality(OpenIn(sock', id)) - Cardinality(OpenIn(sock, id))
    <3>1. /\ Cardinality(OpenIn(sock', id)) \in Nat
          /\ Cardinality(OpenIn(sock, id)) \in Nat
      BY OpenFinite
    <3>2. c \in Int /\ Floor(sock', bad', h) = Floor(sock, bad, h) + c
      BY <1>1, <2>3, <3>1, Debts, CopiesPositive DEF Floor
    <3>3. c <= EventScore[event]
      OBVIOUS
    <3> HIDE DEF c
    <3>4. Floor(sock, bad, h) + c <= 0
      BY <3>2, <2>1
    <3> QED
      BY <3>2, <3>3, <3>4, <2>1, <2>3, <1>2
  <2> QED
    BY <2>2, <2>3
<1>4. HonestUnbanned'
  BY <1>2, Limits DEF HonestUnbanned
<1> QED
  BY <1>1, <1>2, <1>3, <1>4, Quieted DEF Note, Standing

\* An error: one more of them, and its points at the most.
LEMMA StandingErred ==
  ASSUME TypeOK, Standing, HonestUnbanned, Errs, bans' = bans,
         NEW id \in Id,
         rep' = Punished(rep, quiet, id, "socket-error"), quiet' = QuietAfter(quiet),
         \A i \in Id : OpenIn(sock', i) = OpenIn(sock, i)
  PROVE  /\ rep' \in [Id -> Record] /\ quiet' \in 0 .. MaxQuiet /\ bad' \in 0 .. MaxBad
         /\ HonestUnbanned' /\ Standing'
<1>1. rep \in [Id -> Record] /\ quiet \in 0 .. MaxQuiet /\ quiet \in Nat /\ bad \in 0 .. MaxBad
  BY Quieted DEF TypeOK
<1>2. bad' = bad + 1 /\ bad' \in 0 .. MaxBad
  BY <1>1, Limits DEF Errs
<1>3. /\ rep' \in [Id -> Record]
      /\ \A i \in Id \ {id} :
            /\ rep'[i].ban = rep[i].ban
            /\ \A b \in Int : b <= 0 /\ b <= rep[i].score => b <= rep'[i].score
      /\ \A b, c \in Int :
            /\ b <= 0 /\ b <= rep[id].score /\ c <= EventScore["socket-error"]
            /\ b + c <= 0 /\ BanScore < b + c
            => b + c <= rep'[id].score /\ rep'[id].ban = rep[id].ban
  <2> DEFINE event == "socket-error"
             pun == Punished(rep, quiet, id, event)
  <2>1. event \in Event /\ event # "manual-ban"
    BY Constants
  <2>2. rep' = pun
    OBVIOUS
  <2> HIDE DEF event
  <2>3. /\ pun \in [Id -> Record]
        /\ \A i \in Id \ {id} :
              /\ pun[i].ban = rep[i].ban
              /\ \A b \in Int : b <= 0 /\ b <= rep[i].score => b <= pun[i].score
        /\ \A b, c \in Int :
              /\ event # "manual-ban"
              /\ b <= 0 /\ b <= rep[id].score /\ c <= EventScore[event]
              /\ b + c <= 0 /\ BanScore < b + c
              => b + c <= pun[id].score /\ pun[id].ban = rep[id].ban
    BY <1>1, <2>1, PunishedKeeps
  <2> HIDE DEF pun
  <2> QED
    BY <2>1, <2>2, <2>3 DEF event
<1>4. ASSUME NEW h \in Honest
      PROVE  Floor(sock', bad', h) <= rep'[h].score /\ rep'[h].ban = rep[h].ban
  <2> DEFINE e == EventScore["socket-error"]
  <2>1. /\ Floor(sock, bad, h) \in Int /\ Floor(sock, bad, h) <= 0
        /\ Floor(sock, bad, h) <= rep[h].score
        /\ Floor(sock', bad', h) \in Int /\ Floor(sock', bad', h) <= 0
        /\ BanScore < Floor(sock', bad', h)
    BY <1>1, <1>2, Floors DEF Standing
  <2>2. e \in Int /\ e <= 0 /\ e <= EventScore["socket-error"]
    BY HonestAssumption, Constants
  <2>3. /\ OpenIn(sock', h) = OpenIn(sock, h)
        /\ Cardinality(OpenIn(sock, h)) \in Nat
        /\ Debt(bad) \in Int /\ Debt(bad') = Debt(bad) + e
    BY <1>1, <1>2, OpenFinite, Debts, Limits
  <2> HIDE DEF e
  <2>4. Floor(sock', bad', h) = Floor(sock, bad, h) + e
    BY <2>2, <2>3, CopiesPositive DEF Floor
  <2>5. CASE h = id
    BY <2>1, <2>2, <2>4, <2>5, <1>3
  <2>6. CASE h # id
    <3>1. Floor(sock, bad, h) <= rep'[h].score /\ rep'[h].ban = rep[h].ban
      BY <2>1, <2>6, <1>3, Limits
    <3>2. rep'[h].score \in Int
      BY <1>3, Constants, Limits DEF Record
    <3> QED
      BY <3>1, <3>2, <2>1, <2>2, <2>4
  <2> QED
    BY <2>5, <2>6
<1>5. HonestUnbanned'
  BY <1>4, Limits DEF HonestUnbanned
<1> QED
  BY <1>1, <1>2, <1>3, <1>4, <1>5, Quieted DEF Standing

-----------------------------------------------------------------------------
(* The other steps.                                                        *)

\* The part of the invariant that is about types, as the provers use it.
LEMMA Types ==
  ASSUME Inductive
  PROVE  /\ sock \in [Socket -> State]
         /\ \A s \in Socket : sock[s] = "dialing" => Label(s) \in Peer
         /\ outbound \subseteq Peer /\ timers \subseteq Peer
         /\ table \in Seq(Peer) /\ Len(table) <= TableMax
         /\ inbound \in [Addr -> Nat] /\ bans \in [Addr -> 0 .. MaxBan]
         /\ rep \in [Id -> Record] /\ quiet \in 0 .. MaxQuiet /\ quiet \in Nat
         /\ bad \in 0 .. MaxBad
  BY Quieted DEF Inductive, TypeOK, State

\* The dial of a peer opens nothing yet.
LEMMA Dialled ==
  ASSUME Inductive, NEW u \in Peer, Connect(u),
         outbound' = outbound, timers' \subseteq timers, inbound' = inbound, bans' = bans,
         rep' = rep, quiet' = quiet, rate' = rate, used' = used, bad' = bad, around' = around
  PROVE  Inductive'
<1>1. table' \in Seq(Peer) /\ Len(table') <= TableMax
  BY Types, Remembered DEF Connect
<1>2. /\ sock' \in [Socket -> State]
      /\ \A s \in Socket : sock'[s] = "dialing" => Label(s) \in Peer
      /\ \A i \in Id : OpenIn(sock', i) = OpenIn(sock, i)
  <2>1. CASE sock' = sock
    BY <2>1, Types
  <2>2. ASSUME NEW k \in 1 .. Copies, Free(<<u, k>>), sock' = [sock EXCEPT ![<<u, k>>] = "dialing"]
        PROVE  /\ sock' \in [Socket -> State]
               /\ \A s \in Socket : sock'[s] = "dialing" => Label(s) \in Peer
               /\ \A i \in Id : OpenIn(sock', i) = OpenIn(sock, i)
    <3> DEFINE s == <<u, k>>
    <3>1. s \in Socket /\ Label(s) = u /\ sock[s] = "none"
      BY <2>2, Limits DEF Socket, Label, Free
    <3>2. sock' = [sock EXCEPT ![s] = "dialing"]
      BY <2>2
    <3> HIDE DEF s
    <3>3. sock' \in [Socket -> State] /\ \A r \in Socket : sock'[r] = "dialing" => Label(r) \in Peer
      BY <3>1, <3>2, Types DEF State
    <3>4. \A i \in Id : OpenIn(sock', i) = OpenIn(sock, i)
      BY <3>1, <3>2, Types, Changed DEF State
    <3> QED
      BY <3>3, <3>4
  <2> QED
    BY <2>1, <2>2 DEF Connect
<1>3. NoGhostInbound' /\ Exact' /\ OutboundThere'
  BY <1>2, Types, CountsKept DEF Inductive
<1>4. Standing' /\ HonestUnbanned'
  <2>1. Standing'
    BY <1>2, Types, StandingKept DEF Inductive
  <2> QED
    BY <2>1 DEF Inductive, HonestUnbanned
<1>5. TypeOK'
  BY <1>1, <1>2, Types DEF Inductive, TypeOK, State
<1> QED
  BY <1>3, <1>4, <1>5 DEF Inductive

LEMMA Opened ==
  ASSUME Inductive, NEW s \in Socket, Open(s)
  PROVE  Inductive'
<1> DEFINE l == Label(s)
<1>1. /\ sock[s] = "dialing" /\ sock' = [sock EXCEPT ![s] = "open"]
      /\ outbound' = outbound \cup {l} /\ timers' = timers \ {l}
      /\ table' = Remember(table, l) /\ Note(l, "connect")
      /\ inbound' = inbound /\ bans' = bans /\ rate' = rate /\ used' = used
      /\ bad' = bad /\ around' = around
  BY DEF Open
<1>2. l \in Peer /\ l \in Id
  BY <1>1, Types, Labels
<1>3. sock' \in [Socket -> State] /\ \A r \in Socket : sock'[r] = "dialing" => Label(r) \in Peer
  BY <1>1, Types DEF State
<1>4. /\ \A i \in Id \ {l} : OpenIn(sock', i) = OpenIn(sock, i)
      /\ Cardinality(OpenIn(sock', l)) = Cardinality(OpenIn(sock, l)) + 1
      /\ OpenIn(sock', l) # {}
  BY <1>1, <1>2, Types, Changed DEF State
<1> HIDE DEF l
<1>5. table' \in Seq(Peer) /\ Len(table') <= TableMax
  BY <1>1, <1>2, Types, Remembered
<1>6. Cardinality(OpenIn(sock', l)) - Cardinality(OpenIn(sock, l)) <= EventScore["connect"]
  <2>1. Cardinality(OpenIn(sock, l)) \in Nat /\ EventScore["connect"] >= 2
    BY OpenFinite, HonestAssumption, Constants
  <2> QED
    BY <2>1, <1>4, Constants
<1>7. /\ rep' \in [Id -> Record] /\ quiet' \in 0 .. MaxQuiet
      /\ HonestUnbanned' /\ Standing'
  BY <1>1, <1>2, <1>4, <1>6, StandingNoted, Constants DEF Inductive
<1>8. NoGhostInbound' /\ Exact'
  <2>1. \A a \in Addr : a \in Id \ {l}
    BY <1>2, Limits
  <2>2. \A a \in Addr : OpenTo(a)' = OpenTo(a)
    BY <2>1, <1>4, OpenIsOpenIn
  <2> QED
    BY <2>2, <1>1 DEF Inductive, NoGhostInbound, Exact
<1>9. OutboundThere'
  BY <1>1, <1>2, <1>4, OpenIsOpenIn, Types, Limits DEF Inductive, OutboundThere
<1>10. TypeOK'
  BY <1>1, <1>2, <1>3, <1>5, <1>7, Types DEF Inductive, TypeOK, State
<1> QED
  BY <1>7, <1>8, <1>9, <1>10 DEF Inductive

LEMMA Accepted ==
  ASSUME Inductive, NEW a \in Addr, Accept(a)
  PROVE  Inductive'
<1>1. PICK k \in 1 .. Copies : Free(<<a, k>>) /\ sock' = [sock EXCEPT ![<<a, k>>] = "open"]
  BY DEF Accept
<1>2. /\ inbound[a] < MaxInbound /\ inbound' = [inbound EXCEPT ![a] = inbound[a] + 1]
      /\ Note(a, "connect")
      /\ outbound' = outbound /\ timers' = timers /\ table' = table /\ bans' = bans
      /\ rate' = rate /\ used' = used /\ bad' = bad /\ around' = around
  BY DEF Accept
<1> DEFINE s == <<a, k>>
<1>3. s \in Socket /\ Label(s) = a /\ sock[s] = "none" /\ a \in Id
  BY <1>1, Limits DEF Socket, Label, Free
<1>4. sock' = [sock EXCEPT ![s] = "open"]
  BY <1>1
<1> HIDE DEF s
<1>5. sock' \in [Socket -> State] /\ \A r \in Socket : sock'[r] = "dialing" => Label(r) \in Peer
  BY <1>3, <1>4, Types DEF State
<1>6. /\ \A i \in Id \ {a} : OpenIn(sock', i) = OpenIn(sock, i)
      /\ Cardinality(OpenIn(sock', a)) = Cardinality(OpenIn(sock, a)) + 1
  BY <1>3, <1>4, Types, Changed DEF State
<1>7. Cardinality(OpenIn(sock', a)) - Cardinality(OpenIn(sock, a)) <= EventScore["connect"]
  <2>1. Cardinality(OpenIn(sock, a)) \in Nat /\ EventScore["connect"] >= 2
    BY OpenFinite, HonestAssumption, Constants
  <2> QED
    BY <2>1, <1>6, Constants
<1>8. /\ rep' \in [Id -> Record] /\ quiet' \in 0 .. MaxQuiet
      /\ HonestUnbanned' /\ Standing'
  BY <1>2, <1>3, <1>6, <1>7, StandingNoted, Constants DEF Inductive
<1>9. /\ inbound' \in [Addr -> Nat]
      /\ inbound'[a] = inbound[a] + 1 /\ \A b \in Addr \ {a} : inbound'[b] = inbound[b]
  BY <1>2, Types
<1>10. /\ \A b \in Addr \ {a} : OpenTo(b)' = OpenTo(b)
       /\ Cardinality(OpenTo(a)') = Cardinality(OpenTo(a)) + 1
       /\ Cardinality(OpenTo(a)) \in Nat
  BY <1>3, <1>6, OpenIsOpenIn, OpenFinite, Limits
<1>11. NoGhostInbound'
  <2>1. inbound[a] <= Cardinality(OpenTo(a)) /\ inbound[a] \in Nat
    BY Types DEF Inductive, NoGhostInbound
  <2> QED
    BY <2>1, <1>9, <1>10 DEF Inductive, NoGhostInbound
<1>12. Exact'
  BY <1>2, <1>9, <1>10, Types, Limits DEF Inductive, Exact
<1>13. OutboundThere'
  <2>1. \A u \in outbound : OpenTo(u)' = OpenTo(u)
    BY <1>6, OpenIsOpenIn, Types, Limits
  <2> QED
    BY <2>1, <1>2 DEF Inductive, OutboundThere
<1>14. TypeOK'
  BY <1>2, <1>5, <1>8, <1>9, Types DEF Inductive, TypeOK, State
<1> QED
  BY <1>8, <1>11, <1>12, <1>13, <1>14 DEF Inductive

\* A dial that fails, or a connection that does: none is opened or closed yet.
LEMMA Erred ==
  ASSUME Inductive, NEW s \in Socket, DialFails(s) \/ Break(s)
  PROVE  Inductive'
<1>1. /\ Errs /\ rep' = Punished(rep, quiet, Label(s), "socket-error")
      /\ quiet' = QuietAfter(quiet)
      /\ outbound' = outbound /\ timers' = timers /\ table' = table /\ inbound' = inbound
      /\ bans' = bans /\ rate' = rate /\ used' = used /\ around' = around
      /\ Label(s) \in Id
  BY Labels DEF DialFails, Break
<1>2. PICK v \in {"none", "closing"} :
         /\ sock' = [sock EXCEPT ![s] = v]
         /\ (sock[s] \in {"open", "closing"}) <=> (v \in {"open", "closing"})
  BY DEF DialFails, Break, Connected
<1>3. sock' \in [Socket -> State] /\ \A r \in Socket : sock'[r] = "dialing" => Label(r) \in Peer
  BY <1>2, Types DEF State
<1>4. \A i \in Id : OpenIn(sock', i) = OpenIn(sock, i)
  <2>1. v \in State /\ sock \in [Socket -> State]
    BY Types DEF State
  <2>2. \A i \in Id : OpenIn([sock EXCEPT ![s] = v], i) = OpenIn(sock, i)
    BY <1>2, <2>1, Changed
  <2> QED
    BY <1>2, <2>2
<1>5. /\ rep' \in [Id -> Record] /\ quiet' \in 0 .. MaxQuiet /\ bad' \in 0 .. MaxBad
      /\ HonestUnbanned' /\ Standing'
  BY <1>1, <1>4, StandingErred DEF Inductive
<1>6. NoGhostInbound' /\ Exact' /\ OutboundThere'
  BY <1>1, <1>4, Types, CountsKept DEF Inductive
<1>7. TypeOK'
  BY <1>1, <1>3, <1>5, Types DEF Inductive, TypeOK, State
<1> QED
  BY <1>5, <1>6, <1>7 DEF Inductive

LEMMA Staled ==
  ASSUME Inductive, NEW s \in Socket, Stale(s)
  PROVE  Inductive'
<1>1. /\ sock[s] = "open" /\ sock' = [sock EXCEPT ![s] = "closing"]
      /\ rep' = rep /\ quiet' = quiet /\ bad' = bad
      /\ outbound' = outbound /\ timers' = timers /\ table' = table /\ inbound' = inbound
      /\ bans' = bans /\ rate' = rate /\ used' = used /\ around' = around
  BY DEF Stale
<1>2. sock' \in [Socket -> State] /\ \A r \in Socket : sock'[r] = "dialing" => Label(r) \in Peer
  BY <1>1, Types DEF State
<1>3. \A i \in Id : OpenIn(sock', i) = OpenIn(sock, i)
  BY <1>1, Types, Changed DEF State
<1>4. NoGhostInbound' /\ Exact' /\ OutboundThere'
  BY <1>1, <1>3, Types, CountsKept DEF Inductive
<1>5. Standing'
  BY <1>1, <1>3, Types, StandingKept DEF Inductive
<1>6. TypeOK'
  BY <1>1, <1>2, Types DEF Inductive, TypeOK, State
<1> QED
  BY <1>1, <1>4, <1>5, <1>6 DEF Inductive, HonestUnbanned

\* A close lowers the count of its own address at the most, and of an address
\* that the node does not dial only with a caller.
LEMMA Closed ==
  ASSUME Inductive, NEW s \in Socket, Close(s)
  PROVE  Inductive'
<1> DEFINE l == Label(s)
<1>1. /\ sock[s] \in {"open", "closing"} /\ sock' = [sock EXCEPT ![s] = "none"]
      /\ Note(l, "disconnect") /\ outbound' = outbound \ {l}
      /\ timers' = IF l \in Peer THEN timers \cup {l} ELSE timers
      /\ table' = table /\ bans' = bans /\ rate' = rate /\ used' = used
      /\ bad' = bad /\ around' = around
  BY DEF Close, Connected
<1>2. PICK known \in BOOLEAN : CountDown(s, known) /\ (l \notin Peer => known)
  BY DEF Close
<1>3. /\ l \in Id /\ Ip(s) \in Addr
      /\ l \in Addr => Ip(s) = l
      /\ l \in Peer => Ip(s) = AddrOf[l]
  BY Labels DEF Ip
<1>4. /\ \A i \in Id \ {l} : OpenIn(sock', i) = OpenIn(sock, i)
      /\ Cardinality(OpenIn(sock', l)) = Cardinality(OpenIn(sock, l)) - 1
  BY <1>1, <1>3, Types, Changed DEF State
<1>5. sock' \in [Socket -> State] /\ \A r \in Socket : sock'[r] = "dialing" => Label(r) \in Peer
  BY <1>1, Types DEF State
<1> HIDE DEF l
<1>6. Cardinality(OpenIn(sock', l)) - Cardinality(OpenIn(sock, l)) <= EventScore["disconnect"]
  <2>1. Cardinality(OpenIn(sock, l)) \in Nat
    BY OpenFinite
  <2> QED
    BY <2>1, <1>4, HonestAssumption
<1>7. /\ rep' \in [Id -> Record] /\ quiet' \in 0 .. MaxQuiet
      /\ HonestUnbanned' /\ Standing'
  BY <1>1, <1>3, <1>4, <1>6, StandingNoted, Constants DEF Inductive
<1>8. /\ inbound' \in [Addr -> Nat]
      /\ inbound'[Ip(s)] = IF known THEN Greatest(0, inbound[Ip(s)] - 1) ELSE inbound[Ip(s)]
      /\ \A a \in Addr \ {Ip(s)} : inbound'[a] = inbound[a]
      /\ inbound'[Ip(s)] <= inbound[Ip(s)]
  <2> DEFINE less == Greatest(0, inbound[Ip(s)] - 1)
  <2>1. less \in Nat /\ less <= inbound[Ip(s)]
    BY <1>3, Types DEF Greatest
  <2>2. inbound' = IF known THEN [inbound EXCEPT ![Ip(s)] = less] ELSE inbound
    BY <1>2 DEF CountDown
  <2> HIDE DEF less
  <2>3. inbound[Ip(s)] \in Nat
    BY <1>3, Types
  <2>4. /\ inbound' \in [Addr -> Nat]
        /\ inbound'[Ip(s)] = IF known THEN less ELSE inbound[Ip(s)]
        /\ \A a \in Addr \ {Ip(s)} : inbound'[a] = inbound[a]
    BY <2>1, <2>2, <1>3, Types
  <2> QED
    BY <2>1, <2>3, <2>4 DEF less
<1>9. /\ \A i \in Id \ {l} : OpenTo(i)' = OpenTo(i)
      /\ Cardinality(OpenTo(l)') = Cardinality(OpenTo(l)) - 1
      /\ Cardinality(OpenTo(l)') \in Nat
  BY <1>3, <1>4, OpenIsOpenIn, OpenFinite
<1>10. ASSUME NEW a \in Addr PROVE inbound'[a] <= Cardinality(OpenTo(a)')
  <2>1. /\ inbound[a] \in Nat /\ inbound'[a] \in Nat /\ inbound[a] <= Cardinality(OpenTo(a))
        /\ Cardinality(OpenTo(a)) \in Nat /\ inbound'[a] <= inbound[a]
    <3>1. inbound[a] \in Nat /\ inbound'[a] \in Nat /\ inbound'[a] <= inbound[a]
      <4>1. inbound[a] \in Nat /\ inbound'[a] \in Nat
        BY <1>8, Types
      <4>2. a = Ip(s) \/ inbound'[a] = inbound[a]
        BY <1>8
      <4> QED
        BY <4>1, <4>2, <1>8
    <3>2. Cardinality(OpenTo(a)) \in Nat
      BY OpenIsOpenIn, OpenFinite, Limits
    <3> QED
      BY <3>1, <3>2 DEF Inductive, NoGhostInbound
  <2>2. CASE a # l
    BY <2>1, <2>2, <1>9, Limits
  <2>3. CASE a = l
    <3>1. known /\ Ip(s) = a
      BY <2>3, <1>2, <1>3, Limits
    <3> QED
      BY <3>1, <2>1, <2>3, <1>8, <1>9 DEF Greatest
  <2> QED
    BY <2>2, <2>3
<1>11. ASSUME NEW a \in Addr, \A u \in Peer : AddrOf[u] # a
       PROVE  inbound'[a] = Cardinality(OpenTo(a)') /\ inbound'[a] <= MaxInbound
  <2>1. inbound[a] = Cardinality(OpenTo(a)) /\ inbound[a] <= MaxInbound /\ inbound[a] \in Nat
    BY <1>11, Types DEF Inductive, Exact
  <2>2. CASE a # l
    <3>1. a # Ip(s)
      BY <2>2, <1>3, <1>11, Limits
    <3> QED
      BY <3>1, <2>1, <2>2, <1>8, <1>9, Limits
  <2>3. CASE a = l
    <3>1. known /\ Ip(s) = a
      BY <2>3, <1>2, <1>3, Limits
    <3> QED
      BY <3>1, <2>1, <2>3, <1>8, <1>9, Limits DEF Greatest
  <2> QED
    BY <2>2, <2>3
<1>12. NoGhostInbound' /\ Exact'
  BY <1>10, <1>11 DEF NoGhostInbound, Exact
<1>13. OutboundThere'
  <2>1. \A u \in outbound' : u \in outbound /\ u \in Id \ {l}
    BY <1>1, Types, Limits
  <2> QED
    BY <2>1, <1>9 DEF Inductive, OutboundThere
<1>14. TypeOK'
  BY <1>1, <1>5, <1>7, <1>8, Types DEF Inductive, TypeOK, State
<1> QED
  BY <1>7, <1>12, <1>13, <1>14 DEF Inductive

\* The ends of windows, and time.
LEMMA Windows ==
  ASSUME Inductive, NEW i \in Id, NewWindow(i)
  PROVE  Inductive'
<1>1. /\ sock' = sock /\ outbound' = outbound /\ timers' = timers /\ table' = table
      /\ inbound' = inbound /\ bans' = bans /\ rep' = rep /\ quiet' = quiet /\ bad' = bad
      /\ around' = around
  BY DEF NewWindow
<1>2. used' \in [Id -> 0 .. ByteLimit] /\ rate' \in [Addr -> 0 .. RateLimit + 1]
  <2>1. used \in [Id -> 0 .. ByteLimit] /\ rate \in [Addr -> 0 .. RateLimit + 1]
    BY DEF Inductive, TypeOK
  <2> QED
    BY <2>1, Limits DEF NewWindow
<1>3. NoGhostInbound' /\ Exact' /\ OutboundThere'
  BY <1>1, Types, CountsKept DEF Inductive
<1>4. Standing'
  BY <1>1, Types, StandingKept DEF Inductive
<1>5. TypeOK'
  BY <1>1, <1>2, Types DEF Inductive, TypeOK, State
<1> QED
  BY <1>1, <1>3, <1>4, <1>5 DEF Inductive, HonestUnbanned

LEMMA AgedKeeps ==
  ASSUME NEW book \in [Id -> Record]
  PROVE  /\ Aged(book) \in [Id -> Record]
         /\ \A i \in Id : /\ Aged(book)[i].score = book[i].score
                          /\ book[i].ban = 0 => Aged(book)[i].ban = 0
<1>1. ASSUME NEW i \in Id
      PROVE  /\ Aged(book)[i] = [book[i] EXCEPT !.ban = Greatest(0, book[i].ban - 1)]
             /\ Aged(book)[i] \in Record
             /\ Aged(book)[i].score = book[i].score
             /\ book[i].ban = 0 => Aged(book)[i].ban = 0
  <2> DEFINE less == Greatest(0, book[i].ban - 1)
  <2>1. book[i] \in Record /\ book[i].ban \in 0 .. MaxBan
    BY DEF Record
  <2>2. less \in 0 .. MaxBan /\ (book[i].ban = 0 => less = 0)
    BY <2>1, Constants DEF Greatest
  <2>3. Aged(book)[i] = [book[i] EXCEPT !.ban = less]
    BY DEF Aged
  <2> HIDE DEF less
  <2>4. Aged(book)[i] \in Record /\ Aged(book)[i].score = book[i].score
        /\ Aged(book)[i].ban = less
    BY <2>1, <2>2, <2>3 DEF Record
  <2> QED
    BY <2>2, <2>3, <2>4 DEF less
<1>2. Aged(book) = [i \in Id |-> Aged(book)[i]]
  BY DEF Aged
<1> QED
  BY <1>1, <1>2

LEMMA Ticked ==
  ASSUME Inductive, Tick
  PROVE  Inductive'
<1>1. /\ sock' = sock /\ outbound' = outbound /\ timers' = timers /\ table' = table
      /\ inbound' = inbound /\ bad' = bad /\ around' = around
      /\ rep' = Aged(rep) /\ bans' = [a \in Addr |-> Greatest(0, bans[a] - 1)]
      /\ quiet' = Least(MaxQuiet, quiet + 1)
      /\ rate' = [a \in Addr |-> 0] /\ used' = [i \in Id |-> 0]
  BY DEF Tick
<1>2. used' \in [Id -> 0 .. ByteLimit] /\ rate' \in [Addr -> 0 .. RateLimit + 1]
  BY <1>1, Limits
<1>3. quiet' \in 0 .. MaxQuiet
  BY <1>1, Types, Limits DEF Least
<1>4. /\ rep' \in [Id -> Record]
      /\ \A i \in Id : rep'[i].score = rep[i].score /\ (rep[i].ban = 0 => rep'[i].ban = 0)
  BY <1>1, Types, AgedKeeps
<1>5. /\ bans' \in [Addr -> 0 .. MaxBan]
      /\ \A a \in Addr : bans[a] = 0 => bans'[a] = 0
  <2>1. \A a \in Addr : /\ Greatest(0, bans[a] - 1) \in 0 .. MaxBan
                        /\ bans[a] = 0 => Greatest(0, bans[a] - 1) = 0
    BY Types, Constants DEF Greatest
  <2> QED
    BY <2>1, <1>1
<1>6. NoGhostInbound' /\ Exact' /\ OutboundThere'
  BY <1>1, Types, CountsKept DEF Inductive
<1>7. Standing'
  BY <1>1, <1>4, Types, Limits, StandingKept DEF Inductive
<1>8. HonestUnbanned'
  BY <1>4, <1>5, Limits DEF Inductive, HonestUnbanned
<1>9. TypeOK'
  BY <1>1, <1>2, <1>3, <1>4, <1>5, Types DEF Inductive, TypeOK, State
<1> QED
  BY <1>6, <1>7, <1>8, <1>9 DEF Inductive

LEMMA Polled ==
  ASSUME Inductive, Poll
  PROVE  Inductive'
<1>1. /\ sock' = sock /\ outbound' = outbound /\ timers' = timers /\ table' = table
      /\ inbound' = inbound /\ bans' = bans /\ rate' = rate /\ used' = used
      /\ bad' = bad /\ around' = around
      /\ rep' = Decayed(rep, quiet) /\ quiet' = QuietAfter(quiet)
  BY DEF Poll
<1>2. /\ rep' \in [Id -> Record]
      /\ \A i \in Id : rep'[i].ban = rep[i].ban
      /\ \A i \in Id : \A b \in Int : b <= 0 /\ b <= rep[i].score => b <= rep'[i].score
  BY <1>1, Types, DecayedKeeps
<1>3. NoGhostInbound' /\ Exact' /\ OutboundThere'
  BY <1>1, Types, CountsKept DEF Inductive
<1>4. Standing'
  BY <1>1, <1>2, Types, Limits, StandingKept DEF Inductive
<1>5. HonestUnbanned'
  BY <1>1, <1>2, Limits DEF Inductive, HonestUnbanned
<1>6. TypeOK'
  BY <1>1, <1>2, Types, Quieted DEF Inductive, TypeOK, State
<1> QED
  BY <1>3, <1>4, <1>5, <1>6 DEF Inductive

\* A node that has just started.
Fresh ==
  /\ sock = [s \in Socket |-> IF s = <<Bootstrap, 1>> THEN "dialing" ELSE "none"]
  /\ outbound = {} /\ timers = {}
  /\ inbound = [a \in Addr |-> 0] /\ bans = [a \in Addr |-> 0]
  /\ rep = [i \in Id |-> NewRecord] /\ quiet = 0
  /\ rate = [a \in Addr |-> 0] /\ used = [i \in Id |-> 0]
  /\ table \in Seq(Peer) /\ Len(table) <= TableMax
  /\ bad \in 0 .. MaxBad /\ around \in Together

LEMMA Started == Fresh => Inductive
<1> SUFFICES ASSUME Fresh PROVE Inductive
  OBVIOUS
<1>1. NewRecord \in Record /\ NewRecord.score = 0 /\ NewRecord.ban = 0
  BY Constants DEF NewRecord, Record
<1>2. \A i \in Id : OpenTo(i) = {}
  BY DEF Fresh, OpenTo, Connected, Socket
<1>3. Cardinality({}) = 0
  BY FS_EmptySet
<1>4. \A a \in Addr : inbound[a] = 0 /\ Cardinality(OpenTo(a)) = 0
  BY <1>2, <1>3, Limits DEF Fresh
<1>5. NoGhostInbound /\ Exact /\ OutboundThere
  BY <1>4, Limits DEF Fresh, NoGhostInbound, Exact, OutboundThere
<1>6. \A r \in Socket : sock[r] = "dialing" => Label(r) \in Peer
  <2>1. \A r \in Socket : sock[r] = "dialing" => r = <<Bootstrap, 1>>
    BY DEF Fresh
  <2> QED
    BY <2>1, Labels, Limits DEF Label
<1>7. HonestUnbanned
  BY <1>1, Limits DEF Fresh, HonestUnbanned
<1>8. Standing
  <2> SUFFICES ASSUME NEW h \in Honest PROVE Floor(sock, bad, h) <= rep[h].score
    BY DEF Standing
  <2>1. Floor(sock, bad, h) <= 0
    BY Floors DEF Fresh
  <2> QED
    BY <2>1, <1>1, Limits DEF Fresh
<1>9. TypeOK
  BY <1>1, <1>6, Limits, Constants DEF Fresh, TypeOK
<1> QED
  BY <1>5, <1>7, <1>8, <1>9 DEF Inductive

LEMMA StartedAfterwards == Fresh' => Inductive'
BY Started, PTL

LEMMA InitInductive == Init => Inductive
<1> SUFFICES ASSUME Init PROVE Fresh
  BY Started
<1>1. table \in Seq(Peer) /\ Len(table) <= TableMax
  BY Limits DEF Init
<1> QED
  BY <1>1, Limits DEF Init, Fresh

LEMMA Restarted ==
  ASSUME Inductive, Restart
  PROVE  Inductive'
<1>1. table' \in Seq(Peer) /\ Len(table') <= TableMax
  BY Types, Remembered, Limits DEF Restart
<1>2. bad' \in 0 .. MaxBad /\ around' \in Together
  BY Types DEF Restart, Inductive, TypeOK
<1>3. Fresh'
  BY <1>1, <1>2 DEF Restart, Fresh
<1> QED
  BY <1>3, StartedAfterwards

LEMMA StepInductive == Inductive /\ [Next]_vars => Inductive'
<1> SUFFICES ASSUME Inductive, [Next]_vars PROVE Inductive'
  OBVIOUS
<1>1. CASE Discover
  <2>1. PICK i \in DOMAIN table : Connect(table[i])
    BY <1>1 DEF Discover
  <2>2. table[i] \in Peer
    BY <2>1, Types
  <2> QED
    BY <1>1, <2>1, <2>2, Dialled DEF Discover
<1>2. ASSUME NEW u \in Peer, Reconnect(u) PROVE Inductive'
  BY <1>2, Dialled DEF Reconnect
<1>3. ASSUME NEW s \in Socket, Open(s) PROVE Inductive'
  BY <1>3, Opened
<1>4. ASSUME NEW s \in Socket, DialFails(s) \/ Break(s) PROVE Inductive'
  BY <1>4, Erred
<1>5. ASSUME NEW s \in Socket, Message(s) PROVE Inductive'
  BY <1>5, Refusal, Acceptance DEF Message
<1>6. ASSUME NEW s \in Socket, Stale(s) PROVE Inductive'
  BY <1>6, Staled
<1>7. ASSUME NEW s \in Socket, Close(s) PROVE Inductive'
  BY <1>7, Closed
<1>8. ASSUME NEW a \in Addr, Accept(a) PROVE Inductive'
  BY <1>8, Accepted
<1>9. ASSUME NEW i \in Id, NewWindow(i) PROVE Inductive'
  BY <1>9, Windows
<1>10. CASE Tick
  BY <1>10, Ticked
<1>11. CASE Poll
  BY <1>11, Polled
<1>12. CASE Restart
  BY <1>12, Restarted
<1>13. CASE UNCHANGED vars
  BY <1>13 DEF vars, Inductive, TypeOK, NoGhostInbound, Exact, OutboundThere, HonestUnbanned,
     Standing, Floor, OpenIn, OpenTo, Connected
<1> QED
  BY <1>1, <1>2, <1>3, <1>4, <1>5, <1>6, <1>7, <1>8, <1>9, <1>10, <1>11, <1>12, <1>13
     DEF Next

-----------------------------------------------------------------------------
(* What holds of every behaviour.                                          *)

\* The invariant is kept by every step of network.ts, and of time.
THEOREM PeersInductive == Spec => []Inductive
BY InitInductive, StepInductive, PTL DEF Spec

\* The books keep their types: a score its range, a ban its length, the table
\* its size, the counts of a window their limits.
THEOREM PeersTyped == Spec => []TypeOK
<1>1. Inductive => TypeOK
  BY DEF Inductive
<1> QED
  BY <1>1, PeersInductive, PTL

\* onSocketClose and the connection handler never leave an address counted for
\* a caller that is gone.
THEOREM PeersNoGhost == Spec => []NoGhostInbound
<1>1. Inductive => NoGhostInbound
  BY DEF Inductive
<1> QED
  BY <1>1, PeersInductive, PTL

\* MAX_INBOUND_PER_IP holds for every address that the node does not dial.
THEOREM PeersInboundLimited == Spec => []InboundLimited
<1>1. Inductive => InboundLimited
  BY DEF Inductive, Exact, InboundLimited
<1> QED
  BY <1>1, PeersInductive, PTL

\* A url that is not dialled because it is in outboundUrls has a socket.
THEOREM PeersOutboundThere == Spec => []OutboundThere
<1>1. Inductive => OutboundThere
  BY DEF Inductive
<1> QED
  BY <1>1, PeersInductive, PTL

\* With any points and limits that satisfy HonestAssumption, no order of steps
\* gets an honest peer banned.
THEOREM PeersHonestUnbanned == Spec => []HonestUnbanned
<1>1. Inductive => HonestUnbanned
  BY DEF Inductive
<1> QED
  BY <1>1, PeersInductive, PTL

=============================================================================
