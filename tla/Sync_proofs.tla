----------------------------- MODULE Sync_proofs -----------------------------
(***************************************************************************)
(* What the nodes of Sync keep to, for any network, any chains, and any    *)
(* order of messages, breaks and losses: their variables keep their types, *)
(* their blocks stay a run of one chain, tips change only as Replication   *)
(* says, a dialled owner of the sync is connected and no snapshot is ever  *)
(* asked for.  Where blocks are equally difficult, no node is thought      *)
(* higher than it is; and where no message is dropped either, the turn of  *)
(* a node's only peer ends or is renewed by what is under way.             *)
(*                                                                         *)
(* The types and the run of a chain are one invariant: a range on its way  *)
(* is a run of the chain it was taken from, so it stays one where it is    *)
(* put, whatever the two nodes have done in between.                       *)
(***************************************************************************)
EXTENDS Sync, SequenceTheorems, FiniteSetTheorems, WellFoundedInduction, TLAPS

\* What the proofs use of the constants.
LEMMA Constants ==
  /\ Genesis \in Blk /\ Prev \in [Blk \ {Genesis} -> Blk] /\ Work \in [Blk -> Nat]
  /\ \A b \in Blk \ {Genesis} : Work[Prev[b]] < Work[b]
  /\ Retention \in Nat /\ Retention > 0
  /\ Chunk \subseteq Nat /\ Fragile \subseteq Link /\ NoLink \notin End
BY SyncAssumption

LEMMA Starts ==
  ASSUME NEW n \in Node
  PROVE  /\ Start[n] \in Seq(Blk) /\ Start[n] # <<>> /\ Start[n][1] = Genesis
         /\ \A i \in 2..Len(Start[n]) : Follows(Start[n][i], Start[n][i - 1])
BY SyncAssumption DEF Follows

\* An end is a socket of its node; only a dialled one has a url for its label.
LEMMA Ends ==
  ASSUME NEW e \in End
  PROVE  /\ At(e) \in Node /\ e \in EndsOf(At(e)) /\ Far(e) \in End
         /\ e[2] \in {"outbound", "inbound"} /\ Label(e) # NoPeer
         /\ e[2] = "outbound" => \A x \in End : Label(x) = Label(e) => x[2] = "outbound"
BY NetworkAssumption DEF End, At, EndsOf, Far, Out, In, Label

-----------------------------------------------------------------------------
(* Runs of a chain. *)

Linked(s) == \A i \in 2..Len(s) : Follows(s[i], s[i - 1])

\* The blocks of a node or of a range.
Run(S) == {s \in Seq(S) \ {<<>>} : Linked(s)}

\* The first block is genesis if nothing below it is missing, and only then.
Based(s, base) == (base = 0) = (s[1] = Genesis)

LEMMA RunFacts ==
  ASSUME NEW S, NEW s \in Run(S)
  PROVE  /\ s \in Seq(S) /\ s # <<>> /\ Len(s) \in Nat /\ Len(s) >= 1 /\ Linked(s)
         /\ Last(s) \in S /\ Last(s) = s[Len(s)] /\ Head(s) = s[1] /\ s[1] \in S
<1>1. s \in Seq(S) /\ s # <<>> /\ Linked(s)  BY DEF Run
<1>2. Len(s) \in Nat /\ Len(s) >= 1  BY <1>1, EmptySeq
<1>3. 1 \in 1..Len(s) /\ Len(s) \in 1..Len(s)  BY <1>2
<1>4. s[1] \in S /\ s[Len(s)] \in S  BY <1>1, <1>3, ElementOfSeq
<1>5. Head(s) = s[1]  BY <1>1
<1> QED  BY <1>1, <1>2, <1>4, <1>5 DEF Last

LEMMA RunGrows ==
  ASSUME NEW S, NEW T, S \subseteq T
  PROVE  Seq(S) \subseteq Seq(T) /\ Run(S) \subseteq Run(T)
BY SeqMonotonic DEF Run

\* A part of a run is one, or it is empty.
LEMMA Part ==
  ASSUME NEW S, NEW s \in Run(S), NEW k \in Nat, NEW n \in Nat, n <= Len(s)
  PROVE  /\ SubSeq(s, k + 1, n) \in Seq(S) /\ Linked(SubSeq(s, k + 1, n))
         /\ k < n => /\ SubSeq(s, k + 1, n) \in Run(S) /\ SubSeq(s, k + 1, n)[1] = s[k + 1]
                     /\ Last(SubSeq(s, k + 1, n)) = s[n]
<1> DEFINE c == SubSeq(s, k + 1, n)
<1>1. s \in Seq(S) /\ Len(s) \in Nat /\ Linked(s)  BY RunFacts
<1>2. \A i \in (k + 1)..n : s[i] \in S  BY <1>1, ElementOfSeq
<1>3. /\ c \in Seq(S) /\ Len(c) = IF k + 1 <= n THEN n - k ELSE 0
      /\ \A i \in 1..(n - k) : c[i] = s[k + i]
  <2>1. k + 1 \in Int /\ n \in Int /\ n - (k + 1) + 1 = n - k  OBVIOUS
  <2>2. \A i \in 1..(n - k) : k + 1 + i - 1 = k + i  OBVIOUS
  <2> QED  BY <1>2, <2>1, <2>2, SubSeqProperties
<1> HIDE DEF c
<1>4. Linked(c)
  <2> SUFFICES ASSUME NEW i \in 2..Len(c) PROVE Follows(c[i], c[i - 1])  BY DEF Linked
  <2>1. k + 1 <= n /\ i \in 1..(n - k) /\ i - 1 \in 1..(n - k) /\ k + i \in 2..Len(s)  BY <1>1, <1>3
  <2>2. c[i] = s[k + i] /\ c[i - 1] = s[(k + i) - 1]  BY <2>1, <1>3
  <2> QED  BY <2>1, <2>2, <1>1 DEF Linked
<1>5. ASSUME k < n PROVE c \in Run(S) /\ c[1] = s[k + 1] /\ Last(c) = s[n]
  <2>1. Len(c) = n - k /\ 1 \in 1..(n - k) /\ n - k \in 1..(n - k) /\ k + (n - k) = n  BY <1>3, <1>5
  <2>2. c[1] = s[k + 1] /\ c[n - k] = s[n]  BY <2>1, <1>3
  <2>3. c # <<>>  BY <2>1, EmptySeq
  <2> QED  BY <2>1, <2>2, <2>3, <1>3, <1>4 DEF Run, Last
<1> QED  BY <1>3, <1>4, <1>5 DEF c

\* A run continued by one that follows it is one.
LEMMA Joined ==
  ASSUME NEW S, NEW s \in Run(S), NEW t \in Run(S), Follows(t[1], Last(s))
  PROVE  s \o t \in Run(S) /\ Last(s \o t) = Last(t) /\ (s \o t)[1] = s[1]
<1> DEFINE u == s \o t
<1>1. /\ s \in Seq(S) /\ Len(s) \in Nat /\ Len(s) >= 1 /\ Linked(s) /\ Last(s) = s[Len(s)]
      /\ t \in Seq(S) /\ Len(t) \in Nat /\ Len(t) >= 1 /\ Linked(t) /\ Last(t) = t[Len(t)]
  BY RunFacts
<1>2. /\ u \in Seq(S) /\ Len(u) = Len(s) + Len(t)
      /\ \A i \in 1..(Len(s) + Len(t)) : u[i] = IF i <= Len(s) THEN s[i] ELSE t[i - Len(s)]
  BY <1>1, ConcatProperties
<1> HIDE DEF u
<1>3. Linked(u)
  <2> SUFFICES ASSUME NEW i \in 2..Len(u) PROVE Follows(u[i], u[i - 1])  BY DEF Linked
  <2>1. i \in 1..Len(u) /\ i - 1 \in 1..Len(u)  BY <1>1, <1>2
  <2>2. CASE i <= Len(s)
    <3>1. u[i] = s[i] /\ u[i - 1] = s[i - 1] /\ i \in 2..Len(s)  BY <2>1, <2>2, <1>1, <1>2
    <3> QED  BY <3>1, <1>1 DEF Linked
  <2>3. CASE i = Len(s) + 1
    <3>1. u[i] = t[1] /\ u[i - 1] = s[Len(s)]  BY <2>1, <2>3, <1>1, <1>2
    <3> QED  BY <3>1, <1>1
  <2>4. CASE i > Len(s) + 1
    <3> DEFINE j == i - Len(s)
    <3>1. u[i] = t[j] /\ u[i - 1] = t[j - 1] /\ j \in 2..Len(t)
      <4>1. ~ (i <= Len(s)) /\ ~ (i - 1 <= Len(s)) /\ (i - 1) - Len(s) = j - 1  BY <2>4, <1>1
      <4> QED  BY <4>1, <2>1, <2>4, <1>1, <1>2
    <3> QED  BY <3>1, <1>1 DEF Linked
  <2> QED  BY <2>2, <2>3, <2>4, <1>1
<1>4. Len(u) \in 1..(Len(s) + Len(t)) /\ 1 \in 1..(Len(s) + Len(t))  BY <1>1, <1>2
<1>5. u[Len(u)] = t[Len(t)] /\ u[1] = s[1]
  <2>1. ~ (Len(u) <= Len(s)) /\ Len(u) - Len(s) = Len(t) /\ 1 <= Len(s)  BY <1>1, <1>2
  <2> QED  BY <2>1, <1>2, <1>4
<1>6. u # <<>>  BY <1>1, <1>2, EmptySeq
<1> QED  BY <1>1, <1>2, <1>3, <1>5, <1>6 DEF Run, Last, u

LEMMA Appended ==
  ASSUME NEW S, NEW s \in Run(S), NEW b \in S, Follows(b, Last(s))
  PROVE  Append(s, b) \in Run(S) /\ Last(Append(s, b)) = b /\ Append(s, b)[1] = s[1]
<1>1. <<b>> \in Seq(S) /\ Len(<<b>>) = 1 /\ <<b>>[1] = b /\ <<b>> # <<>>  OBVIOUS
<1>2. <<b>> \in Run(S) /\ Last(<<b>>) = b  BY <1>1 DEF Run, Linked, Last
<1>3. Append(s, b) = s \o <<b>>  BY RunFacts, AppendIsConcat
<1> QED  BY <1>1, <1>2, <1>3, Joined

-----------------------------------------------------------------------------
(* The inductive invariant. *)

SockRec == [state : {"none", "dialing", "open", "closing", "closed"},
            height : Nat \cup {NoHeight}, knows : SUBSET mined]

\* A range is a run of a chain, or it is empty.
Sound == {m \in Message : m.type = "range" => Linked(m.blocks)}

\* A bootstrap that is idle has no metadata, and none waits for a snapshot.
BootGood(n, boot) ==
  /\ boot \in Bootstrapping /\ boot.asked \in EndsOf(n) \cup {NoLink}
  /\ boot.status # "waiting-snapshot"
  /\ boot.status = "idle" => ~ boot.meta

NodeGood(n, nd) ==
  /\ nd = [blocks |-> nd.blocks, base |-> nd.base, owner |-> nd.owner,
           boot |-> nd.boot, recent |-> nd.recent]
  /\ nd.blocks \in Run(mined) /\ nd.base \in Nat /\ Based(nd.blocks, nd.base)
  /\ nd.owner \in {NoPeer} \cup {Label(e) : e \in EndsOf(n)}
  /\ BootGood(n, nd.boot)
  /\ nd.recent \subseteq mined

NodesGood == node = [n \in Node |-> node[n]] /\ \A n \in Node : NodeGood(n, node[n])

Inductive ==
  /\ mined \subseteq Blk /\ Genesis \in mined
  /\ sock \in [End -> SockRec]
  /\ wire \in [End -> Seq(Sound)]
  /\ NodesGood
  /\ OwnerConnected

-----------------------------------------------------------------------------
(* What Chain does with blocks. *)

\* The blocks and the base may change, the rest of the node does not.
SameButChain(nd, old) == nd.owner = old.owner /\ nd.boot = old.boot /\ nd.recent = old.recent

LEMMA PrunedGood ==
  ASSUME NEW n \in Node, NEW nd, NodeGood(n, nd)
  PROVE  /\ NodeGood(n, Pruned(n, nd)) /\ Tip(Pruned(n, nd)) = Tip(nd)
         /\ SameButChain(Pruned(n, nd), nd) /\ Height(Pruned(n, nd)) \in Nat
<1> DEFINE height == Height(nd) - Retention
           k == height - nd.base
           pr == Pruned(n, nd)
<1>1. /\ nd.blocks \in Run(mined) /\ Len(nd.blocks) \in Nat /\ Len(nd.blocks) >= 1
      /\ nd.base \in Nat /\ Linked(nd.blocks)
  BY RunFacts DEF NodeGood
<1>2. CASE n \in Pruning /\ height > nd.base
  <2>1. k \in Nat /\ k > 0 /\ k < Len(nd.blocks) /\ height \in Nat /\ height > 0
    BY <1>1, <1>2, Constants DEF Height
  <2> DEFINE cut == SubSeq(nd.blocks, k + 1, Len(nd.blocks))
  <2>2. pr = [nd EXCEPT !.blocks = cut, !.base = height]
    BY <1>2 DEF Pruned
  <2>3. cut \in Run(mined) /\ cut[1] = nd.blocks[k + 1] /\ Last(cut) = Last(nd.blocks)
    <3>1. Len(nd.blocks) <= Len(nd.blocks)  BY <1>1
    <3>2. Last(nd.blocks) = nd.blocks[Len(nd.blocks)]  BY DEF Last
    <3> QED  BY <2>1, <1>1, <3>1, <3>2, Part
  <2> HIDE DEF cut
  <2>4. Follows(nd.blocks[k + 1], nd.blocks[(k + 1) - 1])
    <3>1. k + 1 \in 2..Len(nd.blocks)  BY <2>1, <1>1
    <3> QED  BY <3>1, <1>1 DEF Linked
  <2>5. Based(cut, height)  BY <2>1, <2>3, <2>4 DEF Based, Follows
  <2> HIDE DEF height, k, pr
  <2>6. /\ pr = [blocks |-> cut, base |-> height, owner |-> nd.owner, boot |-> nd.boot, recent |-> nd.recent]
    BY <2>2 DEF NodeGood
  <2>7. pr.blocks = cut /\ pr.base = height /\ SameButChain(pr, nd)  BY <2>6 DEF SameButChain
  <2>8. NodeGood(n, pr)  BY <2>1, <2>3, <2>5, <2>6, <2>7 DEF NodeGood
  <2>9. Len(cut) \in Nat /\ Len(cut) >= 1  BY <2>3, RunFacts
  <2>10. Height(pr) \in Nat  BY <2>1, <2>7, <2>9 DEF Height
  <2> QED  BY <2>3, <2>7, <2>8, <2>10 DEF Tip, pr
<1>3. CASE ~ (n \in Pruning /\ height > nd.base)
  <2>1. pr = nd  BY <1>3 DEF Pruned
  <2>2. Height(nd) \in Nat  BY <1>1 DEF Height
  <2> QED  BY <2>1, <2>2 DEF SameButChain
<1> QED  BY <1>2, <1>3

\* With other blocks from the same base on.
Reblock(nd, s) == [nd EXCEPT !.blocks = s]

LEMMA Reblocked ==
  ASSUME NEW n \in Node, NEW nd, NodeGood(n, nd), NEW s \in Run(mined), s[1] = nd.blocks[1]
  PROVE  /\ NodeGood(n, Reblock(nd, s)) /\ Tip(Reblock(nd, s)) = Last(s)
         /\ SameButChain(Reblock(nd, s), nd)
<1> DEFINE m == Reblock(nd, s)
<1>1. m = [blocks |-> s, base |-> nd.base, owner |-> nd.owner, boot |-> nd.boot, recent |-> nd.recent]
  BY DEF NodeGood, Reblock
<1>2. m.blocks = s /\ m.base = nd.base /\ SameButChain(m, nd)  BY <1>1 DEF SameButChain
<1> HIDE DEF m
<1>3. Based(s, nd.base)  BY DEF NodeGood, Based
<1>4. NodeGood(n, m)  BY <1>1, <1>2, <1>3 DEF NodeGood, SameButChain
<1> QED  BY <1>2, <1>4 DEF Tip, m

LEMMA ExtendedGood ==
  ASSUME NEW n \in Node, NEW nd, NodeGood(n, nd), NEW b \in mined, Follows(b, Tip(nd))
  PROVE  /\ NodeGood(n, Extended(n, nd, b)) /\ Tip(Extended(n, nd, b)) = b
         /\ SameButChain(Extended(n, nd, b), nd) /\ Height(Extended(n, nd, b)) \in Nat
<1> DEFINE s == Append(nd.blocks, b)
           m == Reblock(nd, s)
<1>1. s \in Run(mined) /\ Last(s) = b /\ s[1] = nd.blocks[1]
  BY Appended DEF NodeGood, Tip
<1> HIDE DEF s
<1>2. NodeGood(n, m) /\ Tip(m) = b /\ SameButChain(m, nd)
  BY <1>1, Reblocked
<1>3. Extended(n, nd, b) = Pruned(n, m)  BY DEF Extended, Reblock, s
<1> HIDE DEF m
<1> QED  BY <1>2, <1>3, PrunedGood DEF SameButChain

LEMMA KeptGood ==
  ASSUME NEW n \in Node, NEW nd, NodeGood(n, nd), NEW from \in Nat
  PROVE  Kept(nd, from) \in Run(mined) /\ Kept(nd, from)[1] = nd.blocks[1]
<1> DEFINE common == IF from - 1 < nd.base THEN nd.base
                     ELSE IF from - 1 > Height(nd) THEN Height(nd) ELSE from - 1
           k == common - nd.base + 1
<1>1. nd.blocks \in Run(mined) /\ Len(nd.blocks) \in Nat /\ Len(nd.blocks) >= 1 /\ nd.base \in Nat
  BY RunFacts DEF NodeGood
<1>2. k \in Nat /\ k >= 1 /\ k <= Len(nd.blocks)
  BY <1>1 DEF Height
<1>3. Kept(nd, from) = SubSeq(nd.blocks, 1, k)  BY DEF Kept
<1> HIDE DEF common, k
<1>4. SubSeq(nd.blocks, 1, k) \in Run(mined) /\ SubSeq(nd.blocks, 1, k)[1] = nd.blocks[1]
  <2>1. 0 \in Nat /\ 0 < k /\ 0 + 1 = 1  BY <1>2
  <2>2. SubSeq(nd.blocks, 0 + 1, k) \in Run(mined) /\ SubSeq(nd.blocks, 0 + 1, k)[1] = nd.blocks[0 + 1]
    BY <1>1, <1>2, <2>1, Part
  <2> QED  BY <2>1, <2>2
<1> QED  BY <1>3, <1>4

LEMMA AdoptedGood ==
  ASSUME NEW n \in Node, NEW nd, NodeGood(n, nd),
         NEW range, range.blocks \in Run(mined), range.from \in Nat, Adoptable(nd, range)
  PROVE  /\ NodeGood(n, Adopted(n, nd, range)) /\ Tip(Adopted(n, nd, range)) = Last(range.blocks)
         /\ SameButChain(Adopted(n, nd, range), nd) /\ Height(Adopted(n, nd, range)) \in Nat
<1> DEFINE kept == Kept(nd, range.from)
           r == range.blocks
           s == kept \o r
           m == Reblock(nd, s)
<1>1. kept \in Run(mined) /\ kept[1] = nd.blocks[1]
  BY KeptGood
<1>2. r \in Run(mined) /\ Follows(r[1], Last(kept))  BY RunFacts DEF Adoptable
<1> HIDE DEF kept, r
<1>3. s \in Run(mined) /\ Last(s) = Last(r) /\ s[1] = kept[1]
  BY <1>1, <1>2, Joined
<1> HIDE DEF s
<1>4. NodeGood(n, m) /\ Tip(m) = Last(r) /\ SameButChain(m, nd)
  BY <1>1, <1>3, Reblocked
<1>5. Adopted(n, nd, range) = Pruned(n, m)  BY DEF Adopted, Reblock, s, kept, r
<1> HIDE DEF m
<1> QED  BY <1>4, <1>5, PrunedGood DEF SameButChain, r

LEMMA RangeGood ==
  ASSUME NEW n \in Node, NEW nd, NodeGood(n, nd), NEW from \in Nat, NEW count \in Nat
  PROVE  RangeOf(nd, from, count) \in Sound
<1> DEFINE first == IF from > nd.base THEN from - nd.base ELSE 0
           last == AtMost(Len(nd.blocks), first + count)
           blocks == SubSeq(nd.blocks, first + 1, last)
<1>1. nd.blocks \in Run(mined) /\ Len(nd.blocks) \in Nat /\ nd.base \in Nat
  BY RunFacts DEF NodeGood
<1>2. first \in Nat /\ last \in Nat /\ last <= Len(nd.blocks)
  BY <1>1 DEF AtMost
<1>3. RangeOf(nd, from, count) =
        [type |-> "range", from |-> from, anchored |-> nd.base > 0 /\ first = 0, blocks |-> blocks]
  BY DEF RangeOf
<1>4. (nd.base > 0 /\ first = 0) \in BOOLEAN  OBVIOUS
<1> HIDE DEF first, last
<1>5. blocks \in Seq(mined) /\ Linked(blocks)  BY <1>1, <1>2, Part
<1> HIDE DEF blocks
<1> QED  BY <1>3, <1>4, <1>5 DEF Sound, Message

-----------------------------------------------------------------------------
(* Messages. *)

\* What the handlers read of a message.
LEMMA Contents ==
  ASSUME NEW m \in Sound
  PROVE  /\ m.type = "headers" => m.hashes \in Seq(mined) /\ m.hashes # <<>>
         /\ m.type = "range-request" => m.from \in Nat /\ m.count \in Nat
         /\ m.type = "range" => m.from \in Nat /\ m.blocks \in Seq(mined) /\ Linked(m.blocks)
         /\ m.type = "inv" => m.hash \in mined /\ m.height \in Nat
         /\ m.type = "get" => m.hash \in mined
         /\ m.type = "compact" => m.hash \in mined /\ m.height \in Nat
         /\ m.type = "meta" => m.height \in Nat
BY DEF Sound, Message

LEMMA ArrivedGood ==
  ASSUME wire \in [End -> Seq(Sound)], NEW e \in End, NEW type, NEW m \in Arrived(e, type)
  PROVE  m \in Sound /\ m.type = type /\ wire[e] # <<>> /\ Connected(e)
<1>1. wire[e] \in Seq(Sound) /\ m \in ToSet(wire[e]) /\ m.type = type /\ Connected(e)
  BY DEF Arrived
<1>2. PICK i \in DOMAIN wire[e] : m = wire[e][i]  BY <1>1 DEF ToSet
<1>3. i \in 1..Len(wire[e])  BY <1>1, <1>2
<1>4. m \in Sound  BY <1>1, <1>2, <1>3, ElementOfSeq
<1>5. wire[e] # <<>>
  <2>1. Len(wire[e]) # 0  BY <1>1, <1>3
  <2> QED  BY <2>1, EmptySeq
<1> QED  BY <1>1, <1>4, <1>5

\* Nothing that is sent is unsound.
Sendable(out) == out \in [End -> Seq(Sound)]

LEMMA SilenceSendable == Sendable(Silence)
BY EmptySeq DEF Sendable, Silence

LEMMA OnlySendable ==
  ASSUME NEW e \in End, NEW msgs \in Seq(Sound)
  PROVE  Sendable(Only(e, msgs))
BY SilenceSendable DEF Sendable, Only

LEMMA OneMessage ==
  ASSUME NEW m \in Sound
  PROVE  <<m>> \in Seq(Sound)
OBVIOUS

LEMMA SentGood ==
  ASSUME NEW w \in [End -> Seq(Sound)], NEW out, Sendable(out)
  PROVE  Sent(w, out) \in [End -> Seq(Sound)]
<1> SUFFICES ASSUME NEW e \in End
             PROVE  (IF sock[Far(e)].state = "open" /\ sock[e].state # "closed"
                     THEN w[e] \o out[Far(e)] ELSE w[e]) \in Seq(Sound)
  BY DEF Sent
<1>1. w[e] \in Seq(Sound) /\ out[Far(e)] \in Seq(Sound)  BY Ends DEF Sendable
<1>2. w[e] \o out[Far(e)] \in Seq(Sound)  BY <1>1, ConcatProperties
<1> QED  BY <1>1, <1>2

LEMMA HandledGood ==
  ASSUME wire \in [End -> Seq(Sound)], NEW e \in End, wire[e] # <<>>,
         NEW out, Sendable(out), Handled(e, out)
  PROVE  wire' \in [End -> Seq(Sound)]
<1> DEFINE w == [wire EXCEPT ![e] = Tail(@)]
<1>1. Tail(wire[e]) \in Seq(Sound)  BY HeadTailProperties
<1>2. w \in [End -> Seq(Sound)]  BY <1>1
<1>3. wire' = Sent(w, out)  BY DEF Handled
<1> HIDE DEF w
<1> QED  BY <1>2, <1>3, SentGood

-----------------------------------------------------------------------------
(* The parts of the invariant, over a step that mines nothing. *)

LEMMA SameMined ==
  ASSUME mined' = mined
  PROVE  /\ SockRec' = SockRec /\ Sound' = Sound
         /\ \A n, nd : NodeGood(n, nd)' <=> NodeGood(n, nd)
<1>1. Message' = Message  BY DEF Message
<1> QED  BY <1>1 DEF SockRec, Sound, NodeGood

\* The owner stays, leaves, or is a peer the node is connected to.
OwnerFrom(n, nd) ==
  \/ nd.owner \in {node[n].owner, NoPeer}
  \/ \E e \in EndsOf(n) : Connected(e) /\ nd.owner = Label(e)

\* No connection of the node's own making is gone.
SocketsKept == \A e \in End : e[2] = "outbound" /\ Connected(e) => Connected(e)'

LEMMA NodeSet ==
  ASSUME NodesGood, NEW n \in Node, NEW nd, node' = [node EXCEPT ![n] = nd]
  PROVE  node' = [i \in Node |-> node'[i]] /\ node'[n] = nd /\ \A i \in Node : i # n => node'[i] = node[i]
BY DEF NodesGood

LEMMA OwnerStep ==
  ASSUME OwnerConnected, SocketsKept, \A n \in Node : OwnerFrom(n, node'[n])
  PROVE  OwnerConnected'
<1> SUFFICES ASSUME NEW e \in End, e[2] = "outbound", IsOwner(e)'
             PROVE  Dialled(At(e), Label(e))'
  BY DEF OwnerConnected
<1>1. At(e) \in Node /\ node'[At(e)].owner = Label(e) /\ Label(e) # NoPeer
  BY Ends DEF IsOwner
<1>2. ASSUME NEW x \in EndsOf(At(e)), Connected(x), Label(x) = Label(e)
      PROVE  Dialled(At(e), Label(e))'
  <2>1. x \in End /\ x[2] = "outbound"  BY <1>2, Ends DEF EndsOf
  <2>2. Connected(x)'  BY <2>1, <1>2 DEF SocketsKept
  <2> QED  BY <1>2, <2>1, <2>2 DEF Dialled
<1>3. CASE node'[At(e)].owner = node[At(e)].owner
  <2>1. Dialled(At(e), Label(e))  BY <1>1, <1>3 DEF OwnerConnected, IsOwner
  <2> QED  BY <1>2, <2>1 DEF Dialled
<1>4. CASE \E x \in EndsOf(At(e)) : Connected(x) /\ node'[At(e)].owner = Label(x)
  BY <1>1, <1>2, <1>4
<1> QED  BY <1>1, <1>3, <1>4 DEF OwnerFrom

\* One node's handler has run.
LEMMA Stepped ==
  ASSUME Inductive, mined' = mined,
         NEW n \in Node, NEW nd, NodeGood(n, nd), OwnerFrom(n, nd),
         node' = [node EXCEPT ![n] = nd],
         sock' \in [End -> SockRec], SocketsKept,
         wire' \in [End -> Seq(Sound)]
  PROVE  Inductive'
<1>1. node' = [i \in Node |-> node'[i]] /\ node'[n] = nd /\ \A i \in Node : i # n => node'[i] = node[i]
  BY NodeSet DEF Inductive
<1>2. \A i \in Node : NodeGood(i, node'[i])
  BY <1>1 DEF Inductive, NodesGood
<1>3. NodesGood'
  BY <1>1, <1>2, SameMined DEF NodesGood
<1>4. \A i \in Node : OwnerFrom(i, node'[i])
  <2>1. \A i \in Node : OwnerFrom(i, node[i])  BY DEF OwnerFrom
  <2> QED  BY <1>1, <2>1
<1>5. OwnerConnected'  BY <1>4, OwnerStep DEF Inductive
<1>6. sock' \in [End -> SockRec'] /\ wire' \in [End -> Seq(Sound')]
  BY SameMined
<1> QED  BY <1>3, <1>5, <1>6 DEF Inductive

\* No node's record has changed.
LEMMA SteppedStill ==
  ASSUME Inductive, mined' = mined, node' = node,
         sock' \in [End -> SockRec], SocketsKept,
         wire' \in [End -> Seq(Sound)]
  PROVE  Inductive'
<1>1. NodesGood'  BY SameMined DEF Inductive, NodesGood
<1>2. \A i \in Node : OwnerFrom(i, node'[i])  BY DEF OwnerFrom
<1>3. OwnerConnected'  BY <1>2, OwnerStep DEF Inductive
<1>4. sock' \in [End -> SockRec'] /\ wire' \in [End -> Seq(Sound')]
  BY SameMined
<1> QED  BY <1>1, <1>3, <1>4 DEF Inductive

-----------------------------------------------------------------------------
(* Sockets. *)

\* The sockets are as open as they were.
Quiet(sk) == sk \in [End -> SockRec] /\ \A e \in End : sk[e].state = sock[e].state

LEMMA QuietKept == ASSUME Quiet(sock') PROVE sock' \in [End -> SockRec] /\ SocketsKept
BY DEF Quiet, SocketsKept, Connected

LEMMA HeardQuiet ==
  ASSUME sock \in [End -> SockRec], NEW e \in End, NEW height \in Nat
  PROVE  Quiet(Heard(e, height)) /\ Quiet(sock)
BY DEF Quiet, Heard, SockRec

LEMMA LearntQuiet ==
  ASSUME NEW sk, Quiet(sk), NEW e \in End, NEW b \in mined
  PROVE  Quiet([sk EXCEPT ![e].knows = @ \cup {b}])
BY DEF Quiet, SockRec

LEMMA NotedQuiet ==
  ASSUME sock \in [End -> SockRec], NEW e \in End, NEW b \in mined, NEW height \in Nat
  PROVE  Quiet([sock EXCEPT ![e].height = height, ![e].knows = @ \cup {b}])
BY DEF Quiet, SockRec

LEMMA AnnouncedQuiet ==
  ASSUME NEW sk, Quiet(sk), NEW b \in mined, NEW ends
  PROVE  Quiet(Announced(sk, b, ends))
BY DEF Quiet, SockRec, Announced

LEMMA AnnouncementSendable ==
  ASSUME NEW b \in mined, NEW height \in Nat, NEW ends
  PROVE  Sendable(Announcement(b, height, ends))
<1>1. [type |-> "inv", hash |-> b, height |-> height] \in Sound  BY DEF Sound, Message
<1> QED  BY <1>1, EmptySeq DEF Sendable, Announcement

-----------------------------------------------------------------------------
(* Connections. *)

LEMMA IdleGood ==
  ASSUME NEW n
  PROVE  BootGood(n, Idle)
BY DEF BootGood, Idle, Bootstrapping

\* A node with another bootstrap, or another owner.
LEMMA Rebooted ==
  ASSUME NEW n \in Node, NEW nd, NodeGood(n, nd), NEW boot, BootGood(n, boot)
  PROVE  /\ NodeGood(n, [nd EXCEPT !.boot = boot])
         /\ [nd EXCEPT !.boot = boot].owner = nd.owner
BY DEF NodeGood

LEMMA Reowned ==
  ASSUME NEW n \in Node, NEW nd, NodeGood(n, nd),
         NEW owner \in {NoPeer} \cup {Label(e) : e \in EndsOf(n)}
  PROVE  /\ NodeGood(n, [nd EXCEPT !.owner = owner])
         /\ [nd EXCEPT !.owner = owner].owner = owner
BY DEF NodeGood

LEMMA Informed ==
  ASSUME NEW n \in Node, NEW nd, NodeGood(n, nd), NEW bs \in SUBSET mined
  PROVE  /\ NodeGood(n, [nd EXCEPT !.recent = @ \cup bs])
         /\ [nd EXCEPT !.recent = @ \cup bs].owner = nd.owner
BY DEF NodeGood

LEMMA AskMetaGood ==
  ASSUME NEW n \in Node, NEW nd, NodeGood(n, nd), NEW e \in EndsOf(n)
  PROVE  /\ NodeGood(n, AskMeta(nd, e).node) /\ AskMeta(nd, e).node.owner = nd.owner
         /\ AskMeta(nd, e).sends \in Seq(Sound)
<1> DEFINE boot == [status |-> "waiting-meta", asked |-> e, meta |-> FALSE]
<1>1. BootGood(n, boot)  BY DEF BootGood, Bootstrapping, EndsOf
<1>2. [type |-> "meta-request"] \in Sound  BY DEF Sound, Message
<1> HIDE DEF boot
<1>3. CASE Eligible(nd)
  <2>1. AskMeta(nd, e).node = [nd EXCEPT !.boot = boot] /\ AskMeta(nd, e).sends = <<[type |-> "meta-request"]>>
    BY <1>3 DEF AskMeta, boot
  <2> QED  BY <1>1, <1>2, <2>1, Rebooted, OneMessage
<1>4. CASE ~ Eligible(nd)
  <2>1. AskMeta(nd, e).node = nd /\ AskMeta(nd, e).sends = <<>>  BY <1>4 DEF AskMeta
  <2> QED  BY <2>1, EmptySeq
<1> QED  BY <1>3, <1>4

LEMMA GreetStep ==
  ASSUME Inductive, NEW e \in End, ~ Connected(e), Greet(e)
  PROVE  Inductive'
<1> DEFINE n == At(e)
           nd == AskMeta(node[n], e).node
           sends == AskMeta(node[n], e).sends
           first == <<[type |-> "headers-request"]>>
<1>1. n \in Node /\ e \in EndsOf(n) /\ Far(e) \in End  BY Ends
<1>2. NodeGood(n, node[n])  BY <1>1 DEF Inductive, NodesGood
<1>3. NodeGood(n, nd) /\ nd.owner = node[n].owner /\ sends \in Seq(Sound)
  BY <1>1, <1>2, AskMetaGood
<1>4. /\ node' = [node EXCEPT ![n] = nd] /\ mined' = mined
      /\ sock' = [sock EXCEPT ![e] = Socket("open")]
      /\ wire' = [wire EXCEPT ![Far(e)] = @ \o first \o sends]
  BY DEF Greet
<1> HIDE DEF nd, sends
<1>5. sock' \in [End -> SockRec] /\ SocketsKept
  <2>1. sock \in [End -> SockRec]  BY DEF Inductive
  <2>2. Socket("open") \in SockRec  BY DEF Socket, SockRec
  <2>3. sock' \in [End -> SockRec]  BY <1>4, <2>1, <2>2
  <2>4. SocketsKept  BY <1>4, <2>1 DEF SocketsKept, Connected
  <2> QED  BY <2>3, <2>4
<1>6. wire' \in [End -> Seq(Sound)]
  <2>1. wire \in [End -> Seq(Sound)]  BY DEF Inductive
  <2>2. first \in Seq(Sound)
    <3>1. [type |-> "headers-request"] \in Sound  BY DEF Sound, Message
    <3> QED  BY <3>1, OneMessage
  <2> HIDE DEF first
  <2>3. wire[Far(e)] \in Seq(Sound)  BY <2>1, <1>1
  <2>4. wire[Far(e)] \o first \in Seq(Sound)  BY <2>2, <2>3, ConcatProperties
  <2>5. (wire[Far(e)] \o first) \o sends \in Seq(Sound)  BY <1>3, <2>4, ConcatProperties
  <2> QED  BY <1>4, <2>1, <2>5
<1>7. OwnerFrom(n, nd)  BY <1>3 DEF OwnerFrom
<1> HIDE DEF n
<1> QED  BY <1>1, <1>3, <1>4, <1>5, <1>6, <1>7, Stepped

LEMMA LifecycleStep ==
  ASSUME Inductive, NEW l \in Link, Lifecycle(l)
  PROVE  Inductive'
<1>1. Out(l) \in End /\ In(l) \in End  BY DEF Out, In, End
<1>2. CASE Dial(l) /\ UNCHANGED <<node, mined>>
  <2>1. sock \in [End -> SockRec]  BY DEF Inductive
  <2>2. Socket("dialing") \in SockRec  BY DEF Socket, SockRec
  <2>3. sock' = [sock EXCEPT ![Out(l)] = Socket("dialing")] /\ sock[Out(l)].state = "none" /\ wire' = wire
    BY <1>2 DEF Dial
  <2>4. sock' \in [End -> SockRec]  BY <1>1, <2>1, <2>2, <2>3
  <2>5. SocketsKept  BY <2>1, <2>3 DEF SocketsKept, Connected
  <2>6. wire' \in [End -> Seq(Sound)]  BY <2>3 DEF Inductive
  <2> QED  BY <1>2, <2>4, <2>5, <2>6, SteppedStill
<1>3. CASE Accept(l)  BY <1>1, <1>3, GreetStep DEF Accept, Connected
<1>4. CASE Open(l)  BY <1>1, <1>4, GreetStep DEF Open, Connected
<1> QED  BY <1>2, <1>3, <1>4 DEF Lifecycle

LEMMA BreakStep ==
  ASSUME Inductive, NEW l \in Link, Break(l), UNCHANGED <<node, mined>>
  PROVE  Inductive'
<1>1. Out(l) \in End /\ In(l) \in End /\ Out(l) # In(l)  BY DEF Out, In, End
<1>2. sock \in [End -> SockRec] /\ wire \in [End -> Seq(Sound)]  BY DEF Inductive
<1> DEFINE out == IF sock[Out(l)].state = "dialing" THEN "closed"
                  ELSE IF sock[Out(l)].state = "open" THEN "closing" ELSE sock[Out(l)].state
           in == IF sock[In(l)].state = "none" THEN "closed"
                 ELSE IF sock[In(l)].state = "open" THEN "closing" ELSE sock[In(l)].state
<1>3. sock' = [sock EXCEPT ![Out(l)].state = out, ![In(l)].state = in]
  BY <1>1 DEF Break
<1>4. out \in {"none", "dialing", "open", "closing", "closed"}
      /\ in \in {"none", "dialing", "open", "closing", "closed"}
  BY <1>1, <1>2 DEF SockRec
<1>5. sock[Out(l)].state \in {"open", "closing"} => out \in {"open", "closing"}  OBVIOUS
<1> HIDE DEF out, in
<1>6. sock' \in [End -> SockRec]
  <2>1. [sock[Out(l)] EXCEPT !.state = out] \in SockRec  BY <1>1, <1>2, <1>4 DEF SockRec
  <2>2. [sock[In(l)] EXCEPT !.state = in] \in SockRec  BY <1>1, <1>2, <1>4 DEF SockRec
  <2>3. sock' = [sock EXCEPT ![Out(l)] = [sock[Out(l)] EXCEPT !.state = out],
                             ![In(l)] = [sock[In(l)] EXCEPT !.state = in]]
    BY <1>1, <1>2, <1>3
  <2> QED  BY <1>1, <1>2, <2>1, <2>2, <2>3
<1>7. SocketsKept
  <2> SUFFICES ASSUME NEW e \in End, e[2] = "outbound", Connected(e) PROVE Connected(e)'
    BY DEF SocketsKept
  <2>1. e # In(l)  BY DEF In
  <2>2. CASE e = Out(l)
    <3>1. sock'[e].state = out  BY <1>1, <1>2, <1>3, <2>2 DEF SockRec
    <3> QED  BY <3>1, <2>2, <1>5 DEF Connected
  <2>3. CASE e # Out(l)
    <3>1. sock'[e] = sock[e]  BY <1>2, <1>3, <2>1, <2>3
    <3> QED  BY <3>1 DEF Connected
  <2> QED  BY <2>2, <2>3
<1>8. wire' \in [End -> Seq(Sound)]
  BY <1>2, EmptySeq DEF Break
<1> QED  BY <1>6, <1>7, <1>8, SteppedStill

LEMMA ReleasedGood ==
  ASSUME NEW n \in Node, NEW nd, NodeGood(n, nd), NEW e \in EndsOf(n)
  PROVE  /\ NodeGood(n, Released(nd, e))
         /\ Released(nd, e).owner = IF nd.owner = Label(e) THEN NoPeer ELSE nd.owner
<1> DEFINE owner == IF nd.owner = Label(e) THEN NoPeer ELSE nd.owner
           boot == IF nd.boot.asked # NoLink /\ Label(nd.boot.asked) = Label(e) THEN Idle ELSE nd.boot
<1>1. owner \in {NoPeer} \cup {Label(x) : x \in EndsOf(n)}  BY DEF NodeGood
<1>2. BootGood(n, boot)  BY IdleGood DEF NodeGood
<1>0. Released(nd, e) = [nd EXCEPT !.owner = owner, !.boot = boot]  BY DEF Released
<1> HIDE DEF boot, owner
<1>3. Released(nd, e) = [blocks |-> nd.blocks, base |-> nd.base, owner |-> owner,
                         boot |-> boot, recent |-> nd.recent]
  BY <1>0 DEF NodeGood
<1>4. Released(nd, e).owner = owner  BY <1>3
<1>5. NodeGood(n, Released(nd, e))  BY <1>1, <1>2, <1>3 DEF NodeGood
<1> QED  BY <1>4, <1>5 DEF owner

\* The one step that takes a connection away takes the sync from its peer.
LEMMA CloseStep ==
  ASSUME Inductive, NEW e \in End, Close(e)
  PROVE  Inductive'
<1> DEFINE n == At(e)
<1>1. n \in Node /\ e \in EndsOf(n)  BY Ends
<1>2. sock \in [End -> SockRec] /\ wire \in [End -> Seq(Sound)]  BY DEF Inductive
<1>3. /\ sock' = [sock EXCEPT ![e] = Socket("closed")] /\ wire' = [wire EXCEPT ![e] = <<>>]
      /\ mined' = mined
      /\ node' = IF e[2] = "outbound" THEN [node EXCEPT ![n] = Released(node[n], e)] ELSE node
  BY DEF Close
<1>4. sock' \in [End -> SockRec']
  <2>1. Socket("closed") \in SockRec  BY DEF Socket, SockRec
  <2>2. sock' \in [End -> SockRec]  BY <1>2, <1>3, <2>1
  <2> QED  BY <1>3, <2>2, SameMined
<1>5. wire' \in [End -> Seq(Sound')]
  <2>1. wire' \in [End -> Seq(Sound)]  BY <1>2, <1>3, EmptySeq
  <2> QED  BY <1>3, <2>1, SameMined
<1>6. NodeGood(n, node[n])  BY <1>1 DEF Inductive, NodesGood
<1>7. NodeGood(n, Released(node[n], e))  BY <1>1, <1>6, ReleasedGood
<1>8. NodesGood /\ NodesGood'
  <2>1. NodesGood  BY DEF Inductive
  <2>2. CASE e[2] = "outbound"
    <3>1. node' = [i \in Node |-> node'[i]] /\ node'[n] = Released(node[n], e)
          /\ \A i \in Node : i # n => node'[i] = node[i]
      BY <1>1, <1>3, <2>1, <2>2, NodeSet
    <3>2. \A i \in Node : NodeGood(i, node'[i])  BY <1>7, <2>1, <3>1 DEF NodesGood
    <3> QED  BY <1>3, <2>1, <3>1, <3>2, SameMined DEF NodesGood
  <2>3. CASE e[2] # "outbound"  BY <1>3, <2>1, <2>3, SameMined DEF NodesGood
  <2> QED  BY <2>1, <2>2, <2>3
<1>9. OwnerConnected'
  <2> SUFFICES ASSUME NEW x \in End, x[2] = "outbound", IsOwner(x)'
               PROVE  Dialled(At(x), Label(x))'
    BY DEF OwnerConnected
  <2>1. At(x) \in Node /\ node'[At(x)].owner = Label(x) /\ Label(x) # NoPeer
    BY Ends DEF IsOwner
  <2>2. IsOwner(x) /\ (e[2] = "outbound" /\ At(x) = n => Label(x) # Label(e))
    <3>1. CASE e[2] = "outbound" /\ At(x) = n
      <4>1. node'[n] = Released(node[n], e)  BY <1>1, <1>3, <1>8, <3>1 DEF NodesGood
      <4>2. node'[n].owner = IF node[n].owner = Label(e) THEN NoPeer ELSE node[n].owner
        BY <1>1, <1>6, <4>1, ReleasedGood
      <4> QED  BY <2>1, <3>1, <4>2 DEF IsOwner
    <3>2. CASE ~ (e[2] = "outbound" /\ At(x) = n)
      <4>1. node'[At(x)] = node[At(x)]
        BY <1>1, <1>3, <1>8, <2>1, <3>2 DEF NodesGood
      <4> QED  BY <2>1, <3>2, <4>1 DEF IsOwner
    <3> QED  BY <3>1, <3>2
  <2>3. PICK y \in EndsOf(At(x)) : y[2] = "outbound" /\ Connected(y) /\ Label(y) = Label(x)
    BY <2>2 DEF Inductive, OwnerConnected, Dialled
  <2>4. y \in End /\ At(y) = At(x)  BY DEF EndsOf
  <2>5. y # e  BY <2>2, <2>3, <2>4
  <2>6. sock'[y] = sock[y]  BY <1>2, <1>3, <2>4, <2>5
  <2>7. Connected(y)'  BY <2>3, <2>6 DEF Connected
  <2> QED  BY <2>3, <2>7 DEF Dialled
<1> QED  BY <1>3, <1>4, <1>5, <1>8, <1>9 DEF Inductive

LEMMA ClosingStep ==
  ASSUME Inductive, NEW e \in End, Closing(e)
  PROVE  Inductive'
<1>1. sock \in [End -> SockRec] /\ wire \in [End -> Seq(Sound)]  BY DEF Inductive
<1>2. PICK m \in Arrived(e, "close") : TRUE  BY DEF Closing
<1>3. wire[e] # <<>>  BY <1>1, <1>2, ArrivedGood
<1>4. wire' \in [End -> Seq(Sound)]
  BY <1>1, <1>3, SilenceSendable, HandledGood DEF Closing
<1>5. sock' = [sock EXCEPT ![e].state = "closing"]  BY DEF Closing
<1>6. sock' \in [End -> SockRec]  BY <1>1, <1>5 DEF SockRec
<1>7. SocketsKept  BY <1>1, <1>5 DEF SocketsKept, Connected, SockRec
<1> QED  BY <1>4, <1>6, <1>7, SteppedStill DEF Closing

LEMMA Removed ==
  ASSUME NEW S, NEW s \in Seq(S), NEW i \in DOMAIN s
  PROVE  RemoveAt(s, i) \in Seq(S)
<1>1. Len(s) \in Nat /\ i \in 1..Len(s)  OBVIOUS
<1>2. (\A j \in 1..(i - 1) : s[j] \in S) /\ (\A j \in (i + 1)..Len(s) : s[j] \in S)
  BY <1>1, ElementOfSeq
<1>3. SubSeq(s, 1, i - 1) \in Seq(S)
  <2>1. 1 \in Int /\ i - 1 \in Int  BY <1>1
  <2> QED  BY <1>2, <2>1, SubSeqProperties
<1>4. SubSeq(s, i + 1, Len(s)) \in Seq(S)
  <2>1. i + 1 \in Int /\ Len(s) \in Int  BY <1>1
  <2> QED  BY <1>2, <2>1, SubSeqProperties
<1> QED  BY <1>3, <1>4, ConcatProperties DEF RemoveAt

LEMMA DropStep ==
  ASSUME Inductive, NEW e \in End, Drop(e)
  PROVE  Inductive'
<1>1. sock \in [End -> SockRec] /\ wire \in [End -> Seq(Sound)]  BY DEF Inductive
<1>2. PICK i \in DOMAIN wire[e] : wire' = [wire EXCEPT ![e] = RemoveAt(@, i)]  BY DEF Drop
<1>3. wire[e] \in Seq(Sound)  BY <1>1
<1>4. RemoveAt(wire[e], i) \in Seq(Sound)  BY <1>3, Removed
<1>5. wire' \in [End -> Seq(Sound)]  BY <1>1, <1>2, <1>4
<1>6. sock' = sock /\ node' = node /\ mined' = mined  BY DEF Drop
<1>7. SocketsKept  BY <1>6 DEF SocketsKept, Connected
<1> QED  BY <1>1, <1>5, <1>6, <1>7, SteppedStill

-----------------------------------------------------------------------------
(* Headers. *)

LEMMA Received ==
  ASSUME Inductive, NEW e \in End, NEW type, Arrived(e, type) # {},
         NEW out, Sendable(out), Handled(e, out)
  PROVE  wire' \in [End -> Seq(Sound)] /\ Connected(e)
<1>1. wire \in [End -> Seq(Sound)]  BY DEF Inductive
<1>2. PICK m \in Arrived(e, type) : TRUE  OBVIOUS
<1>3. wire[e] # <<>> /\ Connected(e)  BY <1>1, <1>2, ArrivedGood
<1> QED  BY <1>1, <1>3, HandledGood

\* The node of an end, and the end's owner.
LEMMA NodeOf ==
  ASSUME Inductive, NEW e \in End
  PROVE  /\ At(e) \in Node /\ e \in EndsOf(At(e)) /\ NodeGood(At(e), node[At(e)])
         /\ Label(e) \in {NoPeer} \cup {Label(x) : x \in EndsOf(At(e))}
         /\ sock \in [End -> SockRec] /\ wire \in [End -> Seq(Sound)]
BY Ends DEF Inductive, NodesGood

\* The node keeps its record: one message less on the wire, one more at most.
LEMMA Quietly ==
  ASSUME Inductive, NEW e \in End, NEW type, Arrived(e, type) # {},
         NEW out, Sendable(out), Handled(e, out),
         Quiet(sock'), node' = node, mined' = mined
  PROVE  Inductive'
BY Received, QuietKept, SteppedStill

\* The node gets another record.
LEMMA Replaced ==
  ASSUME Inductive, NEW e \in End, NEW type, Arrived(e, type) # {},
         NEW out, Sendable(out), Handled(e, out),
         Quiet(sock'), mined' = mined,
         NEW nd, NodeGood(At(e), nd), node' = [node EXCEPT ![At(e)] = nd],
         nd.owner \in {node[At(e)].owner, NoPeer, Label(e)}
  PROVE  Inductive'
<1>1. At(e) \in Node /\ e \in EndsOf(At(e))  BY Ends
<1>2. wire' \in [End -> Seq(Sound)] /\ Connected(e)  BY Received
<1>3. OwnerFrom(At(e), nd)  BY <1>1, <1>2 DEF OwnerFrom
<1>4. sock' \in [End -> SockRec] /\ SocketsKept  BY QuietKept
<1> QED  BY <1>1, <1>2, <1>3, <1>4, Stepped

LEMMA SockStill == ASSUME Inductive, sock' = sock PROVE Quiet(sock')
BY DEF Inductive, Quiet

LEMMA ServeHeadersStep ==
  ASSUME Inductive, NEW e \in End, ServeHeaders(e)
  PROVE  Inductive'
<1> DEFINE msg == HeadersOf(node[At(e)])
<1>1. NodeGood(At(e), node[At(e)])  BY NodeOf
<1>2. msg \in Sound
  <2>1. node[At(e)].blocks \in Seq(mined) /\ node[At(e)].blocks # <<>>  BY <1>1, RunFacts DEF NodeGood
  <2>2. (node[At(e)].base > 0) \in BOOLEAN  OBVIOUS
  <2> QED  BY <2>1, <2>2 DEF HeadersOf, Sound, Message
<1>3. Arrived(e, "headers-request") # {} /\ Handled(e, Only(e, <<msg>>))
      /\ sock' = sock /\ node' = node /\ mined' = mined
  BY DEF ServeHeaders
<1> HIDE DEF msg
<1>4. Sendable(Only(e, <<msg>>))  BY <1>2, OneMessage, OnlySendable
<1> QED  BY <1>3, <1>4, SockStill, Quietly

LEMMA RefuseHeadersStep ==
  ASSUME Inductive, NEW e \in End, RefuseHeaders(e)
  PROVE  Inductive'
<1>1. Arrived(e, "headers") # {} /\ sock' = [sock EXCEPT ![e].state = "closing"]
      /\ Handled(e, Only(e, <<[type |-> "close"]>>)) /\ node' = node /\ mined' = mined
  BY DEF RefuseHeaders
<1>2. [type |-> "close"] \in Sound  BY DEF Sound, Message
<1>3. Sendable(Only(e, <<[type |-> "close"]>>))  BY <1>2, OneMessage, OnlySendable
<1>4. wire' \in [End -> Seq(Sound)]  BY <1>1, <1>3, Received
<1>5. sock \in [End -> SockRec]  BY DEF Inductive
<1>6. sock' \in [End -> SockRec]  BY <1>1, <1>5 DEF SockRec
<1>7. SocketsKept  BY <1>1, <1>5 DEF SocketsKept, Connected, SockRec
<1> QED  BY <1>1, <1>4, <1>6, <1>7, SteppedStill

LEMMA GoodHeadersType ==
  ASSUME Inductive, NEW e \in End, NEW hashes \in GoodHeaders(e)
  PROVE  /\ hashes \in Seq(mined) /\ Len(hashes) \in Nat /\ Len(hashes) - 1 \in Nat
         /\ Arrived(e, "headers") # {} /\ Quiet(Heard(e, Len(hashes) - 1))
<1>1. PICK m \in Arrived(e, "headers") : hashes = m.hashes  BY DEF GoodHeaders
<1>2. m \in Sound /\ m.type = "headers"
  <2>1. wire \in [End -> Seq(Sound)]  BY DEF Inductive
  <2> QED  BY <1>1, <2>1, ArrivedGood
<1>3. hashes \in Seq(mined) /\ hashes # <<>>  BY <1>1, <1>2, Contents
<1>4. Len(hashes) \in Nat \ {0}  BY <1>3, EmptySeq
<1>5. Len(hashes) - 1 \in Nat  BY <1>4
<1>6. sock \in [End -> SockRec]  BY DEF Inductive
<1>7. Quiet(Heard(e, Len(hashes) - 1))  BY <1>5, <1>6, HeardQuiet
<1> QED  BY <1>1, <1>3, <1>4, <1>5, <1>7

\* The node with another owner of the sync.
SetOwner(e, owner) == [node[At(e)] EXCEPT !.owner = owner]

LEMMA SetOwnerGood ==
  ASSUME Inductive, NEW e \in End, NEW owner \in {NoPeer, Label(e)}
  PROVE  /\ NodeGood(At(e), SetOwner(e, owner)) /\ SetOwner(e, owner).owner = owner
         /\ [node EXCEPT ![At(e)].owner = owner] = [node EXCEPT ![At(e)] = SetOwner(e, owner)]
<1>1. At(e) \in Node /\ NodeGood(At(e), node[At(e)])
      /\ owner \in {NoPeer} \cup {Label(x) : x \in EndsOf(At(e))}
  BY NodeOf
<1>2. NodeGood(At(e), SetOwner(e, owner)) /\ SetOwner(e, owner).owner = owner
  BY <1>1, Reowned DEF SetOwner
<1>3. [node EXCEPT ![At(e)].owner = owner] = [node EXCEPT ![At(e)] = SetOwner(e, owner)]
  BY DEF SetOwner
<1> QED  BY <1>2, <1>3

LEMMA HeadersNotAheadStep ==
  ASSUME Inductive, NEW e \in End, HeadersNotAhead(e)
  PROVE  Inductive'
<1>1. PICK hashes \in GoodHeaders(e) : sock' = Heard(e, Len(hashes) - 1)  BY DEF HeadersNotAhead
<1>2. Quiet(sock') /\ Arrived(e, "headers") # {}  BY <1>1, GoodHeadersType
<1>3. Sendable(Silence) /\ Handled(e, Silence) /\ mined' = mined  BY SilenceSendable DEF HeadersNotAhead
<1>4. CASE node' = node  BY <1>2, <1>3, <1>4, Quietly
<1>5. CASE node' = [node EXCEPT ![At(e)].owner = NoPeer]
  <2>1. NodeGood(At(e), SetOwner(e, NoPeer)) /\ SetOwner(e, NoPeer).owner = NoPeer
        /\ node' = [node EXCEPT ![At(e)] = SetOwner(e, NoPeer)]
    BY <1>5, SetOwnerGood
  <2> QED  BY <1>2, <1>3, <2>1, Replaced
<1> QED  BY <1>4, <1>5 DEF HeadersNotAhead

LEMMA HeadersWhileBusyStep ==
  ASSUME Inductive, NEW e \in End, HeadersWhileBusy(e)
  PROVE  Inductive'
<1>1. PICK hashes \in GoodHeaders(e) : sock' = Heard(e, Len(hashes) - 1)  BY DEF HeadersWhileBusy, Ahead
<1>2. Quiet(sock') /\ Arrived(e, "headers") # {}  BY <1>1, GoodHeadersType
<1> QED  BY <1>2, SilenceSendable, Quietly DEF HeadersWhileBusy

LEMMA OwnedGood ==
  ASSUME Inductive, NEW e \in End
  PROVE  NodeGood(At(e), Owned(e)) /\ Owned(e).owner = Label(e)
<1>1. Owned(e) = SetOwner(e, Label(e))  BY DEF Owned, SetOwner
<1> QED  BY <1>1, SetOwnerGood

(* An idle bootstrap has no metadata, so trying the snapshot comes to       *)
(* nothing; while one is under way none is tried.                           *)
LEMMA BootstrapGood ==
  ASSUME NEW n \in Node, NEW nd, NodeGood(n, nd), NEW e \in End, NEW height
  PROVE  /\ NodeGood(n, Bootstrap(nd, e, height).node) /\ Bootstrap(nd, e, height).sends = <<>>
         /\ Bootstrap(nd, e, height).node.owner = nd.owner
<1>1. CASE ~ TriesSnapshot(nd, height)
  BY <1>1 DEF Bootstrap
<1>2. CASE TriesSnapshot(nd, height)
  <2>1. ~ nd.boot.meta  BY <1>2 DEF TriesSnapshot, NodeGood, BootGood
  <2>2. Bootstrap(nd, e, height).node = [nd EXCEPT !.boot = Idle] /\ Bootstrap(nd, e, height).sends = <<>>
    BY <1>2, <2>1 DEF Bootstrap
  <2> QED  BY <2>2, IdleGood, Rebooted
<1> QED  BY <1>1, <1>2

LEMMA HeadersForSnapshotStep ==
  ASSUME Inductive, NEW e \in End, HeadersForSnapshot(e)
  PROVE  Inductive'
<1>1. PICK hashes \in GoodHeaders(e) :
        LET next == Bootstrap(Owned(e), e, Len(hashes) - 1)
        IN /\ sock' = Heard(e, Len(hashes) - 1)
           /\ node' = [node EXCEPT ![At(e)] = next.node]
           /\ Handled(e, Only(e, next.sends))
  BY DEF HeadersForSnapshot, Ahead
<1> DEFINE next == Bootstrap(Owned(e), e, Len(hashes) - 1)
<1>2. Quiet(sock') /\ Arrived(e, "headers") # {}  BY <1>1, GoodHeadersType
<1>3. NodeGood(At(e), next.node) /\ next.sends = <<>> /\ next.node.owner = Label(e)
  BY NodeOf, OwnedGood, BootstrapGood
<1>4. /\ node' = [node EXCEPT ![At(e)] = next.node] /\ Handled(e, Only(e, next.sends))
      /\ mined' = mined
  BY <1>1 DEF HeadersForSnapshot
<1> HIDE DEF next
<1>5. Sendable(Only(e, next.sends))  BY <1>3, EmptySeq, OnlySendable
<1> QED  BY <1>2, <1>3, <1>4, <1>5, Replaced

\* At most as many first elements agree as there are.
LEMMA CommonLenBound ==
  ASSUME NEW S, NEW s, NEW t \in Seq(S)
  PROVE  CommonLen(s, t) \in Nat /\ CommonLen(s, t) <= Len(t)
<1> DEFINE common == {i \in DOMAIN s \cap DOMAIN t : \A j \in 1..i : s[j] = t[j]}
<1>1. Len(t) \in Nat /\ common \subseteq 1..Len(t)  OBVIOUS
<1>2. IsFiniteSet(1..Len(t)) /\ Cardinality(1..Len(t)) = Len(t)
  <2>1. 1 \in Int /\ Len(t) \in Int  BY <1>1
  <2>2. IsFiniteSet(1..Len(t)) /\ Cardinality(1..Len(t)) = IF 1 > Len(t) THEN 0 ELSE Len(t) - 1 + 1
    BY <2>1, FS_Interval
  <2> QED  BY <1>1, <2>2
<1> HIDE DEF common
<1>3. IsFiniteSet(common) /\ Cardinality(common) <= Cardinality(1..Len(t))  BY <1>1, <1>2, FS_Subset
<1>4. Cardinality(common) \in Nat  BY <1>3, FS_CardinalityType
<1> QED  BY <1>2, <1>3, <1>4 DEF CommonLen, common

LEMMA HeadersForBlocksStep ==
  ASSUME Inductive, NEW e \in End, HeadersForBlocks(e)
  PROVE  Inductive'
<1>1. PICK hashes \in GoodHeaders(e), chunk \in Chunk :
        LET from == CommonLen(node[At(e)].blocks, hashes)
        IN /\ sock' = Heard(e, Len(hashes) - 1)
           /\ Handled(e, Only(e, <<[type |-> "range-request", from |-> from,
                                    count |-> AtMost(chunk, Len(hashes) - from)]>>))
  BY DEF HeadersForBlocks, Ahead
<1> DEFINE from == CommonLen(node[At(e)].blocks, hashes)
           count == AtMost(chunk, Len(hashes) - from)
           msg == [type |-> "range-request", from |-> from, count |-> count]
<1>2. hashes \in Seq(mined) /\ Len(hashes) \in Nat /\ Quiet(sock') /\ Arrived(e, "headers") # {}
  BY <1>1, GoodHeadersType
<1>3. from \in Nat /\ from <= Len(hashes)  BY <1>2, CommonLenBound
<1>4. Handled(e, Only(e, <<msg>>))  BY <1>1
<1> HIDE DEF from
<1>5. count \in Nat  BY <1>2, <1>3, Constants DEF AtMost
<1> HIDE DEF count
<1>6. msg \in Sound  BY <1>3, <1>5 DEF Sound, Message
<1> HIDE DEF msg
<1>7. Sendable(Only(e, <<msg>>))  BY <1>6, OneMessage, OnlySendable
<1>8. node' = [node EXCEPT ![At(e)] = Owned(e)] /\ mined' = mined  BY DEF HeadersForBlocks
<1>9. NodeGood(At(e), Owned(e)) /\ Owned(e).owner \in {node[At(e)].owner, NoPeer, Label(e)}
  BY OwnedGood
<1> QED  BY <1>2, <1>4, <1>7, <1>8, <1>9, Replaced

-----------------------------------------------------------------------------
(* Ranges of blocks. *)

LEMMA ServeRangeStep ==
  ASSUME Inductive, NEW e \in End, ServeRange(e)
  PROVE  Inductive'
<1>1. PICK m \in Arrived(e, "range-request") :
        Handled(e, Only(e, <<RangeOf(node[At(e)], m.from, m.count)>>))
  BY DEF ServeRange
<1>2. At(e) \in Node /\ NodeGood(At(e), node[At(e)]) /\ wire \in [End -> Seq(Sound)]  BY NodeOf
<1>3. m \in Sound /\ m.type = "range-request"  BY <1>2, ArrivedGood
<1>4. m.from \in Nat /\ m.count \in Nat  BY <1>3, Contents
<1> DEFINE msg == RangeOf(node[At(e)], m.from, m.count)
<1>5. msg \in Sound  BY <1>2, <1>4, RangeGood
<1>6. Handled(e, Only(e, <<msg>>))  BY <1>1
<1> HIDE DEF msg
<1>7. Sendable(Only(e, <<msg>>))  BY <1>5, OneMessage, OnlySendable
<1>8. sock' = sock /\ node' = node /\ mined' = mined  BY DEF ServeRange
<1>9. Arrived(e, "range-request") # {}  BY <1>1
<1> QED  BY <1>6, <1>7, <1>8, <1>9, SockStill, Quietly

LEMMA IgnoreRangeStep ==
  ASSUME Inductive, NEW e \in End, IgnoreRange(e)
  PROVE  Inductive'
<1>1. Arrived(e, "range") # {} /\ Handled(e, Silence) /\ sock' = sock /\ node' = node /\ mined' = mined
  BY DEF IgnoreRange
<1> QED  BY <1>1, SilenceSendable, SockStill, Quietly

LEMMA RefuseRangeStep ==
  ASSUME Inductive, NEW e \in End, RefuseRange(e)
  PROVE  Inductive'
<1>1. Arrived(e, "range") # {} /\ Handled(e, Silence) /\ sock' = sock /\ mined' = mined
      /\ node' = [node EXCEPT ![At(e)].owner = NoPeer]
  BY DEF RefuseRange, OwnersRange
<1>2. NodeGood(At(e), SetOwner(e, NoPeer)) /\ SetOwner(e, NoPeer).owner = NoPeer
      /\ node' = [node EXCEPT ![At(e)] = SetOwner(e, NoPeer)]
  BY <1>1, SetOwnerGood
<1> QED  BY <1>1, <1>2, SilenceSendable, SockStill, Replaced

\* A node with another owner that has heard of more blocks.
Finish(nd, owner, bs) == [nd EXCEPT !.owner = owner, !.recent = @ \cup bs]

LEMMA Finished ==
  ASSUME NEW n \in Node, NEW nd, NodeGood(n, nd), NEW owner \in {NoPeer, nd.owner},
         NEW bs \in SUBSET mined
  PROVE  NodeGood(n, Finish(nd, owner, bs)) /\ Finish(nd, owner, bs).owner = owner
<1>1. /\ NodeGood(n, [nd EXCEPT !.owner = owner]) /\ [nd EXCEPT !.owner = owner].owner = owner
  BY Reowned DEF NodeGood
<1> DEFINE m == [nd EXCEPT !.owner = owner]
<1> HIDE DEF m
<1>2. NodeGood(n, m) /\ m.owner = owner  BY <1>1 DEF m
<1>3. NodeGood(n, [m EXCEPT !.recent = @ \cup bs]) /\ [m EXCEPT !.recent = @ \cup bs].owner = owner
  BY <1>2, Informed
<1>4. Finish(nd, owner, bs) = [m EXCEPT !.recent = @ \cup bs]
  BY DEF Finish, m, NodeGood
<1> QED  BY <1>3, <1>4

LEMMA Members == ASSUME NEW S, NEW s \in Seq(S) PROVE ToSet(s) \in SUBSET S
BY ElementOfSeq DEF ToSet

\* The range that is applied, and the node that results.
LEMMA Applied ==
  ASSUME Inductive, NEW e \in End, NEW range \in OwnersRange(e), Adoptable(node[At(e)], range)
  PROVE  /\ range \in Sound /\ range.from \in Nat /\ range.blocks \in Run(mined)
         /\ LET nd == Adopted(At(e), node[At(e)], range)
            IN /\ NodeGood(At(e), nd) /\ Tip(nd) = Last(range.blocks)
               /\ nd.owner = node[At(e)].owner /\ Height(nd) \in Nat
<1>1. At(e) \in Node /\ NodeGood(At(e), node[At(e)]) /\ wire \in [End -> Seq(Sound)]  BY NodeOf
<1>2. range \in Arrived(e, "range") /\ range.blocks # <<>>  BY DEF OwnersRange
<1>3. range \in Sound /\ range.type = "range"  BY <1>1, <1>2, ArrivedGood
<1>4. range.from \in Nat /\ range.blocks \in Run(mined)  BY <1>2, <1>3, Contents DEF Run
<1> QED  BY <1>1, <1>3, <1>4, AdoptedGood DEF SameButChain

LEMMA ApplyRangeStep ==
  ASSUME Inductive, NEW e \in End, ApplyRange(e)
  PROVE  Inductive'
<1>1. PICK range \in OwnersRange(e) : ApplyRange(e)!(range)  BY DEF ApplyRange
<1> DEFINE n == At(e)
           nd == Adopted(n, node[n], range)
           height == IF sock[e].height > LastOf(range) THEN sock[e].height ELSE LastOf(range)
           blocks == ToSet(range.blocks)
           owner == IF Height(nd) >= height THEN NoPeer ELSE nd.owner
           done == Finish(nd, owner, blocks)
           out == Only(e, <<[type |-> "headers-request"]>>)
<1>2. /\ Adoptable(node[n], range) /\ node' = [node EXCEPT ![n] = done]
      /\ sock' = [sock EXCEPT ![e].height = height, ![e].knows = @ \cup blocks]
      /\ Handled(e, out) /\ mined' = mined
  BY <1>1 DEF Finish
<1>3. /\ range.from \in Nat /\ range.blocks \in Run(mined)
      /\ NodeGood(n, nd) /\ nd.owner = node[n].owner
  BY <1>2, Applied
<1>4. range.blocks \in Seq(mined) /\ Len(range.blocks) \in Nat /\ Len(range.blocks) >= 1
  BY <1>3, RunFacts
<1>5. blocks \in SUBSET mined  BY <1>4, Members
<1> HIDE DEF blocks, nd
<1>6. NodeGood(n, done) /\ done.owner \in {node[n].owner, NoPeer}
  <2>1. n \in Node  BY Ends
  <2>2. owner \in {NoPeer, nd.owner}  OBVIOUS
  <2> HIDE DEF owner, n
  <2>3. NodeGood(n, done) /\ done.owner = owner  BY <1>3, <1>5, <2>1, <2>2, Finished
  <2> HIDE DEF done
  <2> QED  BY <1>3, <2>2, <2>3
<1>7. Quiet(sock')
  <2>1. sock \in [End -> SockRec]  BY DEF Inductive
  <2>2. LastOf(range) \in Nat  BY <1>3, <1>4 DEF LastOf
  <2>3. height \in Nat \cup {NoHeight}  BY <2>1, <2>2 DEF SockRec
  <2> HIDE DEF height
  <2> QED  BY <1>2, <1>5, <2>1, <2>3 DEF Quiet, SockRec
<1>8. Sendable(out)
  <2>1. [type |-> "headers-request"] \in Sound  BY DEF Sound, Message
  <2> QED  BY <2>1, OneMessage, OnlySendable
<1>9. Arrived(e, "range") # {}  BY DEF OwnersRange
<1> HIDE DEF done, out, n
<1> QED  BY <1>2, <1>6, <1>7, <1>8, <1>9, Replaced DEF n

-----------------------------------------------------------------------------
(* New blocks. *)

\* The node has heard of some more blocks.
Told(n, bs) == [node[n] EXCEPT !.recent = @ \cup bs]

LEMMA ToldGood ==
  ASSUME Inductive, NEW e \in End, NEW b \in mined
  PROVE  /\ NodeGood(At(e), Told(At(e), {b})) /\ Told(At(e), {b}).owner = node[At(e)].owner
         /\ [node EXCEPT ![At(e)].recent = @ \cup {b}] = [node EXCEPT ![At(e)] = Told(At(e), {b})]
<1>1. At(e) \in Node /\ NodeGood(At(e), node[At(e)]) /\ {b} \in SUBSET mined  BY NodeOf
<1>2. NodeGood(At(e), Told(At(e), {b})) /\ Told(At(e), {b}).owner = node[At(e)].owner
  BY <1>1, Informed DEF Told
<1>3. [node EXCEPT ![At(e)].recent = @ \cup {b}] = [node EXCEPT ![At(e)] = Told(At(e), {b})]
  BY DEF Told
<1> QED  BY <1>2, <1>3

LEMMA HandleInvStep ==
  ASSUME Inductive, NEW e \in End, HandleInv(e)
  PROVE  Inductive'
<1>1. PICK m \in Arrived(e, "inv") : HandleInv(e)!(m)  BY DEF HandleInv
<1> DEFINE wanted == ~ Holds(node[At(e)], m.hash) /\ m.hash \notin node[At(e)].recent
           out == IF wanted THEN Only(e, <<[type |-> "get", hash |-> m.hash]>>) ELSE Silence
<1>2. /\ sock' = [sock EXCEPT ![e].height = m.height, ![e].knows = @ \cup {m.hash}]
      /\ node' = IF wanted THEN [node EXCEPT ![At(e)].recent = @ \cup {m.hash}] ELSE node
      /\ Handled(e, out) /\ mined' = mined
  BY <1>1
<1>3. wire \in [End -> Seq(Sound)] /\ sock \in [End -> SockRec]  BY DEF Inductive
<1>4. m.hash \in mined /\ m.height \in Nat  BY <1>3, ArrivedGood, Contents
<1>5. Quiet(sock')  BY <1>2, <1>3, <1>4, NotedQuiet
<1>6. Sendable(out)
  <2>1. [type |-> "get", hash |-> m.hash] \in Sound  BY <1>4 DEF Sound, Message
  <2> QED  BY <2>1, OneMessage, OnlySendable, SilenceSendable
<1>7. Arrived(e, "inv") # {}  OBVIOUS
<1> HIDE DEF out
<1>8. CASE wanted
  <2>1. NodeGood(At(e), Told(At(e), {m.hash})) /\ Told(At(e), {m.hash}).owner = node[At(e)].owner
        /\ node' = [node EXCEPT ![At(e)] = Told(At(e), {m.hash})]
    BY <1>2, <1>4, <1>8, ToldGood
  <2> QED  BY <1>2, <1>5, <1>6, <1>7, <2>1, Replaced
<1>9. CASE ~ wanted
  <2>1. node' = node  BY <1>2, <1>9
  <2> QED  BY <1>2, <1>5, <1>6, <1>7, <2>1, Quietly
<1> QED  BY <1>8, <1>9

LEMMA CompactGood ==
  ASSUME NEW n \in Node, NEW nd, NodeGood(n, nd), NEW b \in mined, Holds(nd, b)
  PROVE  CompactOf(nd, b) \in Sound
<1> DEFINE i == CHOOSE i \in DOMAIN nd.blocks : nd.blocks[i] = b
<1>1. nd.blocks \in Seq(mined) /\ Len(nd.blocks) \in Nat  BY RunFacts DEF NodeGood
<1>2. \E j \in DOMAIN nd.blocks : nd.blocks[j] = b  BY DEF Holds, ToSet
<1>3. i \in DOMAIN nd.blocks  BY <1>2
<1>4. CompactOf(nd, b) = [type |-> "compact", hash |-> b, anchored |-> Anchor(nd, b), height |-> i - 1]
  BY DEF CompactOf
<1> HIDE DEF i
<1>5. i - 1 \in Nat  BY <1>1, <1>3
<1>6. Anchor(nd, b) \in BOOLEAN  BY DEF Anchor
<1> QED  BY <1>4, <1>5, <1>6 DEF Sound, Message

LEMMA ServeBlockStep ==
  ASSUME Inductive, NEW e \in End, ServeBlock(e)
  PROVE  Inductive'
<1>1. PICK m \in Arrived(e, "get") : ServeBlock(e)!(m)  BY DEF ServeBlock
<1> DEFINE holds == Holds(node[At(e)], m.hash)
           out == IF holds THEN Only(e, <<CompactOf(node[At(e)], m.hash)>>) ELSE Silence
<1>2. /\ sock' = IF holds THEN [sock EXCEPT ![e].knows = @ \cup {m.hash}] ELSE sock
      /\ Handled(e, out) /\ node' = node /\ mined' = mined
  BY <1>1
<1>3. /\ wire \in [End -> Seq(Sound)] /\ At(e) \in Node /\ NodeGood(At(e), node[At(e)])
  BY NodeOf
<1>4. m.hash \in mined  BY <1>3, ArrivedGood, Contents
<1>5. Quiet(sock) /\ Quiet([sock EXCEPT ![e].knows = @ \cup {m.hash}])
  <2>1. Quiet(sock)  BY DEF Inductive, Quiet
  <2> QED  BY <2>1, <1>4, LearntQuiet
<1>6. Quiet(sock')  BY <1>2, <1>5
<1>7. Sendable(out)  BY <1>3, <1>4, CompactGood, OneMessage, OnlySendable, SilenceSendable
<1>8. Arrived(e, "get") # {}  OBVIOUS
<1> HIDE DEF out
<1> QED  BY <1>2, <1>6, <1>7, <1>8, Quietly

\* What a compact block says, and what it leaves behind.
LEMMA CompactFacts ==
  ASSUME Inductive, NEW e \in End, NEW m \in Arrived(e, "compact")
  PROVE  m.hash \in mined /\ m.height \in Nat /\ Quiet(Noted(sock, e, m))
<1>1. wire \in [End -> Seq(Sound)] /\ sock \in [End -> SockRec]  BY DEF Inductive
<1>2. m.hash \in mined /\ m.height \in Nat  BY <1>1, ArrivedGood, Contents
<1>3. Quiet([sock EXCEPT ![e].height = m.height, ![e].knows = @ \cup {m.hash}])
  BY <1>1, <1>2, NotedQuiet
<1> QED  BY <1>2, <1>3 DEF Noted

LEMMA RefuseBlockStep ==
  ASSUME Inductive, NEW e \in End, RefuseBlock(e)
  PROVE  Inductive'
<1>1. PICK m \in Arrived(e, "compact") :
        sock' = Noted(sock, e, m) /\ node' = [node EXCEPT ![At(e)].recent = @ \cup {m.hash}]
  BY DEF RefuseBlock
<1>2. m.hash \in mined /\ Quiet(sock')  BY <1>1, CompactFacts
<1>3. NodeGood(At(e), Told(At(e), {m.hash})) /\ Told(At(e), {m.hash}).owner = node[At(e)].owner
      /\ node' = [node EXCEPT ![At(e)] = Told(At(e), {m.hash})]
  BY <1>1, <1>2, ToldGood
<1>4. Arrived(e, "compact") # {} /\ Handled(e, Silence) /\ mined' = mined  BY <1>1 DEF RefuseBlock
<1> QED  BY <1>2, <1>3, <1>4, SilenceSendable, Replaced

LEMMA ConnectBlockStep ==
  ASSUME Inductive, NEW e \in End, ConnectBlock(e)
  PROVE  Inductive'
<1>1. PICK m \in Arrived(e, "compact") : ConnectBlock(e)!(m)  BY DEF ConnectBlock
<1> DEFINE n == At(e)
           nd == Extended(n, node[n], m.hash)
           ends == Uninformed(n, m.hash, sock) \ {e}
           out == Announcement(m.hash, Height(nd), ends)
           done == [nd EXCEPT !.recent = @ \cup {m.hash}]
<1>2. /\ Connects(e, m) /\ sock' = Announced(Noted(sock, e, m), m.hash, ends)
      /\ node' = [node EXCEPT ![n] = done] /\ Handled(e, out) /\ mined' = mined
  BY <1>1
<1>3. n \in Node /\ NodeGood(n, node[n])  BY NodeOf
<1>4. m.hash \in mined /\ Quiet(Noted(sock, e, m))  BY CompactFacts
<1>5. NodeGood(n, nd) /\ nd.owner = node[n].owner /\ Height(nd) \in Nat
  <2>1. Follows(m.hash, Tip(node[n]))  BY <1>2 DEF Connects
  <2> QED  BY <1>3, <1>4, <2>1, ExtendedGood DEF SameButChain
<1> HIDE DEF ends, nd, n
<1>6. NodeGood(n, done) /\ done.owner = node[n].owner  BY <1>3, <1>4, <1>5, Informed
<1>7. Quiet(sock')  BY <1>2, <1>4, AnnouncedQuiet
<1>8. Sendable(out)  BY <1>4, <1>5, AnnouncementSendable
<1>9. Arrived(e, "compact") # {}  OBVIOUS
<1> HIDE DEF done, out
<1> QED  BY <1>2, <1>6, <1>7, <1>8, <1>9, Replaced DEF n

LEMMA Forgot ==
  ASSUME NEW n \in Node, NEW nd, NodeGood(n, nd), NEW b
  PROVE  /\ NodeGood(n, [nd EXCEPT !.recent = @ \ {b}])
         /\ [nd EXCEPT !.recent = @ \ {b}].owner = nd.owner
BY DEF NodeGood

LEMMA ExpireStep ==
  ASSUME Inductive, NEW n \in Node, Expire(n)
  PROVE  Inductive'
<1>1. PICK b \in node[n].recent : node' = [node EXCEPT ![n].recent = @ \ {b}]  BY DEF Expire
<1> DEFINE nd == [node[n] EXCEPT !.recent = @ \ {b}]
<1>2. node' = [node EXCEPT ![n] = nd]  BY <1>1
<1>3. NodeGood(n, node[n]) /\ sock \in [End -> SockRec] /\ wire \in [End -> Seq(Sound)]
  BY DEF Inductive, NodesGood
<1>4. NodeGood(n, nd) /\ nd.owner = node[n].owner  BY <1>3, Forgot
<1>5. sock' = sock /\ wire' = wire /\ mined' = mined  BY DEF Expire, networkVars
<1>6. SocketsKept  BY <1>5 DEF SocketsKept, Connected
<1> HIDE DEF nd
<1>7. OwnerFrom(n, nd)  BY <1>4 DEF OwnerFrom
<1> QED  BY <1>2, <1>3, <1>4, <1>5, <1>6, <1>7, Stepped

-----------------------------------------------------------------------------
(* Snapshots. *)

LEMMA ServeMetaStep ==
  ASSUME Inductive, NEW e \in End, ServeMeta(e)
  PROVE  Inductive'
<1> DEFINE msg == [type |-> "meta", height |-> Height(node[At(e)])]
<1>1. NodeGood(At(e), node[At(e)])  BY NodeOf
<1>2. node[At(e)].base \in Nat /\ Len(node[At(e)].blocks) \in Nat /\ Len(node[At(e)].blocks) >= 1
  BY <1>1, RunFacts DEF NodeGood
<1>3. Height(node[At(e)]) \in Nat  BY <1>2 DEF Height
<1>4. msg \in Sound  BY <1>3 DEF Sound, Message
<1>5. Arrived(e, "meta-request") # {} /\ Handled(e, Only(e, <<msg>>))
      /\ sock' = sock /\ node' = node /\ mined' = mined
  BY DEF ServeMeta, MetaOf
<1> HIDE DEF msg
<1>6. Sendable(Only(e, <<msg>>))  BY <1>4, OneMessage, OnlySendable
<1> QED  BY <1>5, <1>6, SockStill, Quietly

LEMMA IgnoreMetaStep ==
  ASSUME Inductive, NEW e \in End, IgnoreMeta(e)
  PROVE  Inductive'
<1>1. Arrived(e, "meta") # {} /\ Handled(e, Silence) /\ sock' = sock /\ node' = node /\ mined' = mined
  BY DEF IgnoreMeta
<1> QED  BY <1>1, SilenceSendable, SockStill, Quietly

\* With metadata the bootstrap is not idle, and so the snapshot is not tried.
LEMMA HandleMetaStep ==
  ASSUME Inductive, NEW e \in End, HandleMeta(e)
  PROVE  Inductive'
<1> DEFINE n == At(e)
           with == [node[n] EXCEPT !.boot.meta = TRUE]
           without == [node[n] EXCEPT !.boot = Idle]
           next(height) == IF TrustsMeta(e, height) THEN Bootstrap(with, e, height)
                           ELSE [node |-> without, sends |-> <<>>]
<1>1. PICK m \in Arrived(e, "meta") :
        /\ sock' = Heard(e, m.height)
        /\ node' = [node EXCEPT ![n] = next(m.height).node]
        /\ Handled(e, Only(e, next(m.height).sends))
  BY DEF HandleMeta
<1>2. n \in Node /\ NodeGood(n, node[n]) /\ wire \in [End -> Seq(Sound)] /\ sock \in [End -> SockRec]
  BY NodeOf
<1>3. m.height \in Nat  BY <1>2, ArrivedGood, Contents
<1>4. Quiet(sock')  BY <1>1, <1>2, <1>3, HeardQuiet
<1>5. NodeGood(n, with) /\ with.owner = node[n].owner /\ with.boot.status = "waiting-meta"
  <2> DEFINE boot == [node[n].boot EXCEPT !.meta = TRUE]
  <2>1. node[n].boot \in Bootstrapping /\ node[n].boot.status = "waiting-meta"
    BY <1>2 DEF HandleMeta, Expected, NodeGood, BootGood
  <2>2. BootGood(n, boot) /\ boot.status = "waiting-meta"
    BY <1>2, <2>1 DEF NodeGood, BootGood, Bootstrapping
  <2>3. with = [node[n] EXCEPT !.boot = boot]  BY <1>2 DEF NodeGood
  <2>4. [node[n] EXCEPT !.boot = boot].boot = boot  BY <1>2 DEF NodeGood
  <2> HIDE DEF boot, n
  <2>5. NodeGood(n, [node[n] EXCEPT !.boot = boot]) /\ [node[n] EXCEPT !.boot = boot].owner = node[n].owner
    BY <1>2, <2>2, Rebooted
  <2> QED  BY <2>2, <2>3, <2>4, <2>5
<1>6. NodeGood(n, without) /\ without.owner = node[n].owner  BY <1>2, IdleGood, Rebooted
<1> HIDE DEF with, without, n
<1>7. /\ NodeGood(n, next(m.height).node) /\ next(m.height).node.owner = node[n].owner
      /\ next(m.height).sends = <<>>
  <2>1. CASE TrustsMeta(e, m.height)  BY <1>2, <1>5, <2>1, BootstrapGood
  <2>2. CASE ~ TrustsMeta(e, m.height)  BY <1>6, <2>2
  <2> QED  BY <2>1, <2>2
<1> DEFINE nd == next(m.height).node
<1> HIDE DEF next
<1>8. Sendable(Only(e, next(m.height).sends))  BY <1>7, EmptySeq, OnlySendable
<1>9. Arrived(e, "meta") # {} /\ mined' = mined  BY DEF HandleMeta
<1>10. NodeGood(n, nd) /\ nd.owner = node[n].owner /\ node' = [node EXCEPT ![n] = nd]  BY <1>1, <1>7
<1> HIDE DEF nd
<1> QED  BY <1>1, <1>4, <1>8, <1>9, <1>10, Replaced DEF n

-----------------------------------------------------------------------------
(* Mining, the one step that adds to the blocks there are.  What holds of   *)
(* a chain holds of it after the step as well, of the blocks there are then.*)

ExtendsWell ==
  \A n \in Node : \A nd : \A b \in mined :
    NodeGood(n, nd) /\ Follows(b, Tip(nd)) =>
      /\ NodeGood(n, Extended(n, nd, b)) /\ Tip(Extended(n, nd, b)) = b
      /\ SameButChain(Extended(n, nd, b), nd) /\ Height(Extended(n, nd, b)) \in Nat

InformsWell ==
  \A n \in Node : \A nd : \A bs \in SUBSET mined :
    NodeGood(n, nd) => /\ NodeGood(n, [nd EXCEPT !.recent = @ \cup bs])
                       /\ [nd EXCEPT !.recent = @ \cup bs].owner = nd.owner

LEMMA Always == ExtendsWell /\ InformsWell
<1>1. ExtendsWell  BY ExtendedGood DEF ExtendsWell
<1>2. InformsWell  BY Informed DEF InformsWell
<1> QED  BY <1>1, <1>2

LEMMA Afterwards == ExtendsWell' /\ InformsWell'
BY Always, PTL

LEMMA Grown ==
  ASSUME mined \subseteq mined'
  PROVE  /\ SockRec \subseteq SockRec' /\ Sound \subseteq Sound'
         /\ \A n \in Node : \A nd : NodeGood(n, nd) => NodeGood(n, nd)'
<1>1. Seq(mined) \subseteq Seq(mined') /\ Run(mined) \subseteq Run(mined')  BY RunGrows
<1>2. Message \subseteq Message'  BY <1>1 DEF Message
<1>3. Sound \subseteq Sound'  BY <1>2 DEF Sound
<1>4. SockRec \subseteq SockRec'  BY DEF SockRec
<1>5. \A n \in Node : \A nd : NodeGood(n, nd) => NodeGood(n, nd)'  BY <1>1 DEF NodeGood
<1> QED  BY <1>3, <1>4, <1>5

LEMMA MineStep ==
  ASSUME Inductive, NEW n \in Node, Mine(n)
  PROVE  Inductive'
<1>1. PICK b \in Blk \ mined : Mine(n)!(b)  BY DEF Mine
<1>2. PICK old : old = node[n]  OBVIOUS
<1> DEFINE nd == Extended(n, old, b)
           ends == Uninformed(n, b, sock)
           done == [nd EXCEPT !.recent = @ \cup {b}]
           out == Announcement(b, Height(nd), ends)
<1>3. /\ Follows(b, Tip(old)) /\ mined' = mined \cup {b} /\ node' = [node EXCEPT ![n] = done]
      /\ sock' = Announced(sock, b, ends) /\ wire' = Sent(wire, out)
  BY <1>1, <1>2
<1>4. mined \subseteq mined' /\ b \in mined' /\ mined' \subseteq Blk /\ Genesis \in mined'
  BY <1>3 DEF Inductive
<1>5. NodeGood(n, old) /\ NodeGood(n, old)'  BY <1>2, <1>4, Grown DEF Inductive, NodesGood
<1>6. NodeGood(n, nd)' /\ nd.owner = old.owner /\ Height(nd) \in Nat
  BY <1>3, <1>4, <1>5, Afterwards DEF ExtendsWell, SameButChain
<1> HIDE DEF nd, ends
<1>7. NodeGood(n, done)' /\ done.owner = node[n].owner
  <2>1. {b} \in SUBSET mined'  BY <1>4
  <2>2. InformsWell'  BY Afterwards
  <2>3. NodeGood(n, nd)'  BY <1>6
  <2>4. NodeGood(n, done)' /\ done.owner = nd.owner  BY <2>1, <2>2, <2>3 DEF InformsWell
  <2> QED  BY <1>2, <1>6, <2>4
<1> HIDE DEF done
<1>8. node' = [i \in Node |-> node'[i]] /\ node'[n] = done /\ \A i \in Node : i # n => node'[i] = node[i]
  BY <1>3, NodeSet DEF Inductive
<1>9. NodesGood'
  <2> SUFFICES ASSUME NEW i \in Node PROVE NodeGood(i, node[i])'  BY <1>8 DEF NodesGood
  <2>1. PICK x : x = node'[i]  OBVIOUS
  <2>2. NodeGood(i, x)'
    <3>1. CASE i = n  BY <1>7, <1>8, <2>1, <3>1
    <3>2. CASE i # n
      <4>1. NodeGood(i, x)  BY <1>8, <2>1, <3>2 DEF Inductive, NodesGood
      <4> QED  BY <1>4, <4>1, Grown
    <3> QED  BY <3>1, <3>2
  <2> QED  BY <2>1, <2>2
<1>10. sock' \in [End -> SockRec'] /\ SocketsKept
  <2>1. sock \in [End -> SockRec]  BY DEF Inductive
  <2>2. sock' \in [End -> SockRec']  BY <1>3, <1>4, <2>1 DEF Announced, SockRec
  <2>3. SocketsKept  BY <1>3, <2>1 DEF SocketsKept, Connected, Announced, SockRec
  <2> QED  BY <2>2, <2>3
<1>11. wire' \in [End -> Seq(Sound')]
  <2>1. \A e \in End : wire[e] \in Seq(Sound')  BY <1>4, Grown, SeqMonotonic DEF Inductive
  <2>2. [type |-> "inv", hash |-> b, height |-> Height(nd)] \in Sound'
    BY <1>4, <1>6 DEF Sound, Message
  <2>3. \A e \in End : out[Far(e)] \in Seq(Sound')  BY <2>2, Ends, EmptySeq DEF Announcement
  <2> HIDE DEF out
  <2>4. \A e \in End : wire[e] \o out[Far(e)] \in Seq(Sound')  BY <2>1, <2>3, ConcatProperties
  <2> QED  BY <1>3, <2>1, <2>4 DEF Sent
<1>12. OwnerConnected'
  <2>1. \A i \in Node : OwnerFrom(i, node'[i])  BY <1>7, <1>8 DEF OwnerFrom
  <2> QED  BY <1>10, <2>1, OwnerStep DEF Inductive
<1> QED  BY <1>4, <1>9, <1>10, <1>11, <1>12 DEF Inductive

-----------------------------------------------------------------------------
(* The theorems. *)

LEMMA InitGood == Init => Inductive
<1> SUFFICES ASSUME Init PROVE Inductive  OBVIOUS
<1>1. \A n \in Node : Start[n] \in Run(mined)
  <2> SUFFICES ASSUME NEW n \in Node PROVE Start[n] \in Run(mined)  OBVIOUS
  <2>1. Start[n] \in Seq(Blk) /\ Start[n] # <<>> /\ Linked(Start[n])  BY Starts DEF Linked
  <2>2. ToSet(Start[n]) \subseteq mined  BY DEF Init
  <2>3. Start[n] \in Seq(ToSet(Start[n]))
    <3>1. Len(Start[n]) \in Nat /\ Start[n] = [i \in 1..Len(Start[n]) |-> Start[n][i]]  BY <2>1
    <3>2. \A i \in 1..Len(Start[n]) : Start[n][i] \in ToSet(Start[n])  BY <2>1 DEF ToSet
    <3> QED  BY <3>1, <3>2, IsASeq
  <2> QED  BY <2>1, <2>2, <2>3, SeqMonotonic DEF Run
<1>2. mined \subseteq Blk
  <2>1. \A n \in Node : ToSet(Start[n]) \subseteq Blk  BY Starts, Members
  <2> QED  BY <2>1 DEF Init
<1>3. NodesGood
  <2>1. node = [n \in Node |-> [blocks |-> Start[n], base |-> 0, owner |-> NoPeer,
                                boot |-> Idle, recent |-> {}]]
    BY DEF Init
  <2>2. SUFFICES ASSUME NEW n \in Node PROVE NodeGood(n, node[n])  BY <2>1 DEF NodesGood
  <2>3. Based(Start[n], 0)  BY Starts DEF Based
  <2>4. BootGood(n, Idle)  BY IdleGood
  <2> QED  BY <1>1, <2>1, <2>3, <2>4 DEF NodeGood
<1>4. Genesis \in mined
  <2>1. PICK n \in Node : TRUE  BY NetworkAssumption
  <2>2. Start[n] \in Run(mined) /\ Start[n][1] = Genesis  BY <1>1, Starts
  <2> QED  BY <2>2, RunFacts
<1>5. sock \in [End -> SockRec] /\ wire \in [End -> Seq(Sound)]
  <2>1. Socket("none") \in SockRec  BY DEF Socket, SockRec
  <2> QED  BY <2>1, EmptySeq DEF Init, NetworkInit
<1>6. OwnerConnected
  BY Ends DEF Init, OwnerConnected, IsOwner
<1> QED  BY <1>2, <1>3, <1>4, <1>5, <1>6 DEF Inductive

LEMMA StutterStep == Inductive /\ UNCHANGED vars => Inductive'
<1> SUFFICES ASSUME Inductive, UNCHANGED vars PROVE Inductive'  OBVIOUS
<1>1. sock' = sock /\ wire' = wire /\ node' = node /\ mined' = mined  BY DEF vars, networkVars
<1>2. SocketsKept  BY <1>1 DEF SocketsKept, Connected
<1> QED  BY <1>1, <1>2, SteppedStill DEF Inductive

LEMMA HandleStep ==
  ASSUME Inductive, NEW e \in End, Handle(e)
  PROVE  Inductive'
<1>1. CASE Closing(e)  BY <1>1, ClosingStep
<1>2. CASE ServeHeaders(e)  BY <1>2, ServeHeadersStep
<1>3. CASE RefuseHeaders(e)  BY <1>3, RefuseHeadersStep
<1>4. CASE HeadersNotAhead(e)  BY <1>4, HeadersNotAheadStep
<1>5. CASE HeadersWhileBusy(e)  BY <1>5, HeadersWhileBusyStep
<1>6. CASE HeadersForSnapshot(e)  BY <1>6, HeadersForSnapshotStep
<1>7. CASE HeadersForBlocks(e)  BY <1>7, HeadersForBlocksStep
<1>8. CASE ServeRange(e)  BY <1>8, ServeRangeStep
<1>9. CASE IgnoreRange(e)  BY <1>9, IgnoreRangeStep
<1>10. CASE RefuseRange(e)  BY <1>10, RefuseRangeStep
<1>11. CASE ApplyRange(e)  BY <1>11, ApplyRangeStep
<1>12. CASE HandleInv(e)  BY <1>12, HandleInvStep
<1>13. CASE ServeBlock(e)  BY <1>13, ServeBlockStep
<1>14. CASE RefuseBlock(e)  BY <1>14, RefuseBlockStep
<1>15. CASE ConnectBlock(e)  BY <1>15, ConnectBlockStep
<1>16. CASE ServeMeta(e)  BY <1>16, ServeMetaStep
<1>17. CASE IgnoreMeta(e)  BY <1>17, IgnoreMetaStep
<1>18. CASE HandleMeta(e)  BY <1>18, HandleMetaStep
<1> QED  BY <1>1, <1>2, <1>3, <1>4, <1>5, <1>6, <1>7, <1>8, <1>9, <1>10, <1>11, <1>12, <1>13,
            <1>14, <1>15, <1>16, <1>17, <1>18 DEF Handle

LEMMA StepGood == Inductive /\ [Next]_vars => Inductive'
<1> SUFFICES ASSUME Inductive, [Next]_vars PROVE Inductive'  OBVIOUS
<1>1. CASE \E e \in End : Handle(e)  BY <1>1, HandleStep
<1>2. CASE \E e \in End : Close(e)  BY <1>2, CloseStep
<1>3. CASE \E e \in End : Drop(e)  BY <1>3, DropStep
<1>4. CASE \E l \in Link : Lifecycle(l)  BY <1>4, LifecycleStep
<1>5. ASSUME NEW l \in Fragile, Break(l), UNCHANGED <<node, mined>> PROVE Inductive'
  <2>1. l \in Link  BY Constants
  <2> QED  BY <1>5, <2>1, BreakStep
<1>6. CASE \E n \in Node : Mine(n)  BY <1>6, MineStep
<1>7. CASE \E n \in Node : Expire(n)  BY <1>7, ExpireStep
<1>8. CASE UNCHANGED vars  BY <1>8, StutterStep
<1> QED  BY <1>1, <1>2, <1>3, <1>4, <1>5, <1>6, <1>7, <1>8 DEF Next

THEOREM SyncInductive == Spec => []Inductive
BY InitGood, StepGood, PTL DEF Spec

LEMMA InductiveMeans == Inductive => TypeOK /\ ChainWhole /\ OwnerConnected /\ NeverBootstraps
<1> SUFFICES ASSUME Inductive PROVE TypeOK /\ ChainWhole /\ OwnerConnected /\ NeverBootstraps  OBVIOUS
<1>1. ASSUME NEW n \in Node
      PROVE  /\ node[n].blocks \in Seq(mined) \ {<<>>} /\ node[n].base \in Nat
             /\ node[n].owner \in {NoPeer} \cup {Label(e) : e \in EndsOf(n)}
             /\ node[n].boot \in Bootstrapping /\ node[n].boot.asked \in EndsOf(n) \cup {NoLink}
             /\ node[n].recent \subseteq mined
  BY RunFacts DEF Inductive, NodesGood, NodeGood, BootGood
<1>2. wire \in [End -> Seq(Message)]
  <2>1. Sound \subseteq Message  BY DEF Sound
  <2> QED  BY <2>1, SeqMonotonic DEF Inductive
<1>3. TypeOK  BY <1>1, <1>2 DEF Inductive, TypeOK, SockRec, NodesGood
<1>4. ChainWhole
  BY RunFacts DEF ChainWhole, Inductive, NodesGood, NodeGood, Linked, Based
<1>5. NeverBootstraps  BY DEF NeverBootstraps, Inductive, NodesGood, NodeGood, BootGood
<1> QED  BY <1>3, <1>4, <1>5 DEF Inductive

(* Every variable holds what network.ts keeps in it, whatever the messages  *)
(* and in whatever order they come.                                         *)
THEOREM SyncTyped == Spec => []TypeOK
BY SyncInductive, InductiveMeans, PTL

(* No handler of network.ts leaves a node with blocks that are not a run of *)
(* one chain, or an anchor that is taken for genesis.                       *)
THEOREM SyncChainWhole == Spec => []ChainWhole
BY SyncInductive, InductiveMeans, PTL

(* onSocketClose takes the sync from a dialled peer whenever it goes.       *)
THEOREM SyncOwnerConnected == Spec => []OwnerConnected
BY SyncInductive, InductiveMeans, PTL

(* maybeStartSnapshotBootstrap never gets as far as asking for a snapshot:  *)
(* it wants an idle bootstrap, and an idle one has no metadata.             *)
THEOREM SyncNeverBootstraps == Spec => []NeverBootstraps
BY SyncInductive, InductiveMeans, PTL

-----------------------------------------------------------------------------
(* Sync implements Replication. *)

\* The blocks of the nodes are what they were, and so is where they begin.
SameChain(nd, old) == nd.blocks = old.blocks /\ nd.base = old.base

BlocksStill == \A n \in Node : SameChain(node'[n], node[n])

LEMMA BlocksReplaced ==
  ASSUME NodesGood, NEW n \in Node, NEW nd, SameChain(nd, node[n]),
         node' = [node EXCEPT ![n] = nd]
  PROVE  BlocksStill
BY NodeSet DEF BlocksStill, SameChain

LEMMA BootstrapBlocks ==
  ASSUME NEW n \in Node, NEW nd, NodeGood(n, nd), NEW e, NEW height
  PROVE  SameChain(Bootstrap(nd, e, height).node, nd)
BY DEF Bootstrap, NodeGood, SameChain

LEMMA HandleBlocks ==
  ASSUME Inductive, NEW e \in End, Handle(e), ~ ApplyRange(e), ~ ConnectBlock(e)
  PROVE  BlocksStill /\ mined' = mined
<1> DEFINE n == At(e)
<1>1. n \in Node /\ NodesGood /\ NodeGood(n, node[n])  BY Ends DEF Inductive, NodesGood
<1>2. CASE node' = node /\ mined' = mined  BY <1>2 DEF BlocksStill, SameChain
<1>3. ASSUME NEW nd, SameChain(nd, node[n]), node' = [node EXCEPT ![n] = nd], mined' = mined
      PROVE  BlocksStill /\ mined' = mined
  BY <1>1, <1>3, BlocksReplaced
<1>4. ASSUME NEW owner \in {NoPeer, Label(e)}
      PROVE  SameChain(SetOwner(e, owner), node[n])
  BY <1>1 DEF SetOwner, NodeGood, SameChain
<1>5. CASE HeadersNotAhead(e) \/ RefuseRange(e)
  <2>1. node' \in {node, [node EXCEPT ![n].owner = NoPeer]} /\ mined' = mined
    BY <1>5 DEF HeadersNotAhead, RefuseRange
  <2> QED  BY <1>2, <1>3, <1>4, <2>1, SetOwnerGood
<1>6. CASE HeadersForSnapshot(e)
  <2>1. PICK hashes \in Ahead(e) :
          node' = [node EXCEPT ![n] = Bootstrap(Owned(e), e, Len(hashes) - 1).node]
    BY <1>6 DEF HeadersForSnapshot
  <2> DEFINE nd == Bootstrap(Owned(e), e, Len(hashes) - 1).node
  <2>2. SameChain(Owned(e), node[n]) /\ NodeGood(n, Owned(e))
    BY <1>1, OwnedGood DEF Owned, NodeGood, SameChain
  <2>3. SameChain(nd, node[n])  BY <1>1, <2>2, BootstrapBlocks DEF SameChain
  <2>4. node' = [node EXCEPT ![n] = nd] /\ mined' = mined  BY <1>6, <2>1 DEF HeadersForSnapshot
  <2> HIDE DEF nd
  <2> QED  BY <1>3, <2>3, <2>4
<1>7. CASE HeadersForBlocks(e)
  <2>1. node' = [node EXCEPT ![n] = Owned(e)] /\ mined' = mined  BY <1>7 DEF HeadersForBlocks
  <2>2. SameChain(Owned(e), node[n])  BY <1>1 DEF Owned, NodeGood, SameChain
  <2> QED  BY <1>3, <2>1, <2>2
<1>8. CASE HandleInv(e) \/ RefuseBlock(e)
  <2>1. (\E b : node' \in {node, [node EXCEPT ![n].recent = @ \cup {b}]}) /\ mined' = mined
    BY <1>8 DEF HandleInv, RefuseBlock
  <2>2. PICK b : node' \in {node, [node EXCEPT ![n] = Told(n, {b})]}  BY <2>1 DEF Told
  <2>3. SameChain(Told(n, {b}), node[n])  BY <1>1 DEF Told, NodeGood, SameChain
  <2> QED  BY <1>2, <1>3, <2>1, <2>2, <2>3
<1>9. CASE HandleMeta(e)
  <2> DEFINE with == [node[n] EXCEPT !.boot.meta = TRUE]
             without == [node[n] EXCEPT !.boot = Idle]
  <2>1. SameChain(with, node[n]) /\ SameChain(without, node[n])  BY <1>1 DEF NodeGood, SameChain
  <2> DEFINE next(height) == IF TrustsMeta(e, height) THEN Bootstrap(with, e, height)
                             ELSE [node |-> without, sends |-> <<>>]
  <2>2. PICK m \in Arrived(e, "meta") : node' = [node EXCEPT ![n] = next(m.height).node]
    BY <1>9 DEF HandleMeta
  <2>3. SameChain(Bootstrap(with, e, m.height).node, with)
    BY <1>1 DEF Bootstrap, NodeGood, SameChain
  <2>4. mined' = mined  BY <1>9 DEF HandleMeta
  <2> HIDE DEF with, without
  <2>5. SameChain(next(m.height).node, node[n])  BY <2>1, <2>3 DEF SameChain
  <2> DEFINE nd == next(m.height).node
  <2>6. SameChain(nd, node[n]) /\ node' = [node EXCEPT ![n] = nd]  BY <2>2, <2>5
  <2> HIDE DEF nd
  <2> QED  BY <1>3, <2>4, <2>6
<1> QED
  BY <1>2, <1>5, <1>6, <1>7, <1>8, <1>9
  DEF Handle, Closing, ServeHeaders, RefuseHeaders, HeadersWhileBusy, ServeRange, IgnoreRange,
      ServeBlock, ServeMeta, IgnoreMeta

LEMMA OtherBlocks ==
  ASSUME Inductive,
         \/ \E e \in End : Close(e) \/ Drop(e)
         \/ \E l \in Link : Lifecycle(l)
         \/ UNCHANGED <<node, mined>>
         \/ \E n \in Node : Expire(n)
  PROVE  BlocksStill /\ mined' = mined
<1>1. NodesGood /\ \A n \in Node : NodeGood(n, node[n])  BY DEF Inductive, NodesGood
<1>2. CASE UNCHANGED <<node, mined>>  BY <1>2 DEF BlocksStill, SameChain
<1>3. ASSUME NEW e \in End, Greet(e) PROVE BlocksStill /\ mined' = mined
  <2>1. node' = [node EXCEPT ![At(e)] = AskMeta(node[At(e)], e).node] /\ mined' = mined
    BY <1>3 DEF Greet
  <2>2. At(e) \in Node  BY Ends
  <2>3. SameChain(AskMeta(node[At(e)], e).node, node[At(e)])
    BY <1>1, <2>2 DEF AskMeta, NodeGood, SameChain
  <2> DEFINE nd == AskMeta(node[At(e)], e).node
  <2> HIDE DEF nd
  <2>4. SameChain(nd, node[At(e)]) /\ node' = [node EXCEPT ![At(e)] = nd]  BY <2>1, <2>3 DEF nd
  <2> QED  BY <1>1, <2>1, <2>2, <2>4, BlocksReplaced
<1>4. ASSUME NEW e \in End, Close(e) PROVE BlocksStill /\ mined' = mined
  <2>1. node' \in {node, [node EXCEPT ![At(e)] = Released(node[At(e)], e)]} /\ mined' = mined
    BY <1>4 DEF Close
  <2>2. At(e) \in Node  BY Ends
  <2>3. SameChain(Released(node[At(e)], e), node[At(e)])
    BY <1>1, <2>2 DEF Released, NodeGood, SameChain
  <2>4. CASE node' = node  BY <2>1, <2>4 DEF BlocksStill, SameChain
  <2>5. CASE node' = [node EXCEPT ![At(e)] = Released(node[At(e)], e)]
    BY <1>1, <2>1, <2>2, <2>3, <2>5, BlocksReplaced
  <2> QED  BY <2>1, <2>4, <2>5
<1>5. ASSUME NEW n \in Node, Expire(n) PROVE BlocksStill /\ mined' = mined
  <2>1. PICK b : node' = [node EXCEPT ![n].recent = @ \ {b}]  BY <1>5 DEF Expire
  <2> DEFINE nd == [node[n] EXCEPT !.recent = @ \ {b}]
  <2>2. node' = [node EXCEPT ![n] = nd]  BY <2>1
  <2>3. SameChain(nd, node[n])  BY <1>1 DEF NodeGood, SameChain
  <2> HIDE DEF nd
  <2> QED  BY <1>1, <1>5, <2>2, <2>3, BlocksReplaced DEF Expire
<1>6. ASSUME NEW l \in Link, Lifecycle(l) PROVE BlocksStill /\ mined' = mined
  <2>1. Out(l) \in End /\ In(l) \in End  BY DEF Out, In, End
  <2>2. CASE Dial(l) /\ UNCHANGED <<node, mined>>  BY <2>2, <1>2
  <2>3. CASE Accept(l)  BY <2>1, <2>3, <1>3 DEF Accept
  <2>4. CASE Open(l)  BY <2>1, <2>4, <1>3 DEF Open
  <2> QED  BY <1>6, <2>2, <2>3, <2>4 DEF Lifecycle
<1>7. CASE \E e \in End : Drop(e)  BY <1>7, <1>2 DEF Drop
<1> QED  BY <1>2, <1>4, <1>5, <1>6, <1>7

Tips == [n \in Node |-> Tip(node[n])]

LEMMA TipsMoved ==
  ASSUME NodesGood, NEW n \in Node, NEW nd, NEW b, Tip(nd) = b, node' = [node EXCEPT ![n] = nd]
  PROVE  Tips' = [Tips EXCEPT ![n] = b]
BY NodeSet DEF Tips

\* Other things of a node than its blocks make no difference to its tip.
LEMMA TipOf ==
  ASSUME NEW nd, NEW x, nd.blocks = x.blocks
  PROVE  Tip(nd) = Tip(x)
BY DEF Tip

LEMMA MineTips ==
  ASSUME Inductive, NEW n \in Node, Mine(n)
  PROVE  \E b \in Blk \ mined :
           b # Genesis /\ Prev[b] = Tips[n] /\ mined' = mined \cup {b} /\ Tips' = [Tips EXCEPT ![n] = b]
<1>1. PICK b \in Blk \ mined : Mine(n)!(b)  BY DEF Mine
<1>2. PICK old : old = node[n]  OBVIOUS
<1> DEFINE nd == Extended(n, old, b)
           done == [nd EXCEPT !.recent = @ \cup {b}]
<1>3. Follows(b, Tip(old)) /\ mined' = mined \cup {b} /\ node' = [node EXCEPT ![n] = done]
  BY <1>1, <1>2
<1>4. NodesGood /\ NodeGood(n, old)  BY <1>2 DEF Inductive, NodesGood
<1>5. NodeGood(n, old)'  BY <1>3, <1>4, Grown
<1>6. Tip(nd) = b /\ NodeGood(n, nd)'  BY <1>3, <1>5, Afterwards DEF ExtendsWell
<1> HIDE DEF nd
<1>7. done.blocks = nd.blocks  BY <1>6 DEF NodeGood
<1>8. Tip(done) = b  BY <1>6, <1>7, TipOf
<1> HIDE DEF done
<1>9. Tips' = [Tips EXCEPT ![n] = b]  BY <1>3, <1>4, <1>8, TipsMoved
<1>10. b # Genesis /\ Prev[b] = Tips[n]  BY <1>2, <1>3 DEF Follows, Tips
<1> QED  BY <1>3, <1>9, <1>10

LEMMA AdoptTips ==
  ASSUME Inductive, NEW e \in End, ApplyRange(e) \/ ConnectBlock(e)
  PROVE  \E b \in mined :
           Work[b] > Work[Tips[At(e)]] /\ Tips' = [Tips EXCEPT ![At(e)] = b] /\ mined' = mined
<1> DEFINE n == At(e)
<1>1. n \in Node /\ NodesGood /\ NodeGood(n, node[n]) /\ Tips[n] = Tip(node[n])
  BY Ends DEF Inductive, NodesGood, Tips
<1>2. CASE ApplyRange(e)
  <2>1. PICK range \in OwnersRange(e) : ApplyRange(e)!(range)  BY <1>2 DEF ApplyRange
  <2> DEFINE nd == Adopted(n, node[n], range)
             b == Last(range.blocks)
             blocks == ToSet(range.blocks)
  <2>2. PICK owner : node' = [node EXCEPT ![n] = Finish(nd, owner, blocks)]
    BY <2>1 DEF Finish
  <2>3. Adoptable(node[n], range) /\ mined' = mined  BY <2>1
  <2>4. range.blocks \in Run(mined) /\ NodeGood(n, nd) /\ Tip(nd) = b  BY <2>3, Applied
  <2>5. b \in mined  BY <2>4, RunFacts
  <2>6. Work[b] > Work[Tip(node[n])]  BY <2>3 DEF Adoptable
  <2> HIDE DEF nd, b
  <2>7. Finish(nd, owner, blocks).blocks = nd.blocks  BY <2>4 DEF Finish, NodeGood
  <2>8. Tip(Finish(nd, owner, blocks)) = b  BY <2>4, <2>7, TipOf
  <2>9. Tips' = [Tips EXCEPT ![n] = b]  BY <1>1, <2>2, <2>8, TipsMoved
  <2> QED  BY <1>1, <2>3, <2>5, <2>6, <2>9
<1>3. CASE ConnectBlock(e)
  <2>1. PICK m \in Arrived(e, "compact") : ConnectBlock(e)!(m)  BY <1>3 DEF ConnectBlock
  <2> DEFINE b == m.hash
             nd == Extended(n, node[n], b)
             done == [nd EXCEPT !.recent = @ \cup {b}]
  <2>2. Connects(e, m) /\ node' = [node EXCEPT ![n] = done] /\ mined' = mined  BY <2>1
  <2>3. b \in mined  BY CompactFacts
  <2>4. Follows(b, Tip(node[n]))  BY <2>2 DEF Connects
  <2> HIDE DEF b
  <2>5. NodeGood(n, nd) /\ Tip(nd) = b  BY <1>1, <2>3, <2>4, ExtendedGood
  <2>6. Work[b] > Work[Tip(node[n])]
    <3>1. b \in Blk \ {Genesis} /\ Prev[b] = Tip(node[n])  BY <2>3, <2>4 DEF Follows, Inductive
    <3>2. Prev[b] \in Blk  BY <3>1, Constants
    <3> QED  BY <3>1, <3>2, Constants
  <2> HIDE DEF nd
  <2>7. done.blocks = nd.blocks  BY <2>5 DEF NodeGood
  <2>8. Tip(done) = b  BY <2>5, <2>7, TipOf
  <2> HIDE DEF done
  <2>9. Tips' = [Tips EXCEPT ![n] = b]  BY <1>1, <2>2, <2>8, TipsMoved
  <2> QED  BY <1>1, <2>2, <2>3, <2>6, <2>9
<1> QED  BY <1>2, <1>3

LEMMA TipsStill ==
  ASSUME BlocksStill
  PROVE  Tips' = Tips
BY DEF BlocksStill, SameChain, Tips, Tip

LEMMA ReplicasInit == Init => Replicas!Init
<1> SUFFICES ASSUME Init PROVE Replicas!Init  OBVIOUS
<1>1. Inductive  BY InitGood
<1>2. mined \in SUBSET Blk /\ Genesis \in mined  BY <1>1 DEF Inductive
<1>3. ASSUME NEW b \in mined \ {Genesis} PROVE Prev[b] \in mined
  <2>1. PICK n \in Node : b \in ToSet(Start[n])  BY DEF Init
  <2>2. PICK i \in DOMAIN Start[n] : b = Start[n][i]  BY <2>1 DEF ToSet
  <2>3. Start[n] \in Seq(Blk) /\ Start[n][1] = Genesis  BY Starts
  <2>4. i \in 2..Len(Start[n])  BY <2>2, <2>3
  <2>5. Prev[b] = Start[n][i - 1]  BY <2>2, <2>4, Starts DEF Follows
  <2>6. i - 1 \in DOMAIN Start[n]  BY <2>3, <2>4
  <2>7. Start[n][i - 1] \in ToSet(Start[n])  BY <2>6 DEF ToSet
  <2>8. ToSet(Start[n]) \subseteq mined  BY DEF Init
  <2> QED  BY <2>5, <2>7, <2>8
<1>4. [n \in Node |-> Tip(node[n])] \in [Node -> mined]
  BY <1>1, RunFacts DEF Inductive, NodesGood, NodeGood, Tip
<1> QED  BY <1>2, <1>3, <1>4 DEF Replicas!Init

LEMMA ReplicasStep == Inductive /\ [Next]_vars => [Replicas!Next]_<<mined, Tips>>
<1> SUFFICES ASSUME Inductive, [Next]_vars PROVE [Replicas!Next]_<<mined, Tips>>  OBVIOUS
<1>1. ASSUME BlocksStill /\ mined' = mined PROVE [Replicas!Next]_<<mined, Tips>>
  BY <1>1, TipsStill
<1>2. ASSUME NEW n \in Node, Mine(n) PROVE Replicas!Next
  <2>1. PICK b \in Blk \ mined :
          b # Genesis /\ Prev[b] = Tips[n] /\ mined' = mined \cup {b} /\ Tips' = [Tips EXCEPT ![n] = b]
    BY <1>2, MineTips
  <2>2. Replicas!Mine(n)  BY <2>1 DEF Replicas!Mine, Tips
  <2> QED  BY <2>2 DEF Replicas!Next
<1>3. ASSUME NEW e \in End, ApplyRange(e) \/ ConnectBlock(e) PROVE Replicas!Next
  <2>1. PICK b \in mined :
          Work[b] > Work[Tips[At(e)]] /\ Tips' = [Tips EXCEPT ![At(e)] = b] /\ mined' = mined
    BY <1>3, AdoptTips
  <2>2. Replicas!Adopt(At(e))  BY <2>1 DEF Replicas!Adopt, Tips
  <2> QED  BY <2>2, Ends DEF Replicas!Next
<1>4. ASSUME NEW e \in End, Handle(e) PROVE [Replicas!Next]_<<mined, Tips>>
  BY <1>1, <1>3, <1>4, HandleBlocks
<1>5. ASSUME \/ \E e \in End : Close(e) \/ Drop(e)
             \/ \E l \in Link : Lifecycle(l)
             \/ UNCHANGED <<node, mined>>
             \/ \E n \in Node : Expire(n)
      PROVE  [Replicas!Next]_<<mined, Tips>>
  BY <1>1, <1>5, OtherBlocks
<1>6. CASE UNCHANGED vars  BY <1>5, <1>6 DEF vars
<1> QED  BY <1>2, <1>4, <1>5, <1>6 DEF Next

(* Whatever is lost, late or out of order, a node of network.ts leaves its  *)
(* tip only for a block it has just mined on it or for one, mined by        *)
(* somebody, with more work behind it.                                      *)
THEOREM SyncReplicates == Spec => Replicates
<1>1. Init => Replicas!Init  BY ReplicasInit
<1>2. Inductive /\ [Next]_vars => [Replicas!Next]_<<mined, Tips>>  BY ReplicasStep
<1> QED  BY <1>1, <1>2, SyncInductive, PTL DEF Spec, Replicates, Replicas!Spec, Tips

-----------------------------------------------------------------------------
(* Heights, where blocks are equally difficult: a node's blocks begin at    *)
(* the height their first one has, so a tip with more work behind it is     *)
(* higher, and no node ever gets lower.  What it has told of its height     *)
(* stays true, however late the message comes.                              *)

\* The height of every block, if blocks are equally difficult.
Level == CHOOSE high : EquallyDifficult(high)

Even == EquallyDifficult(Level)

LEMMA Levels ==
  ASSUME Even
  PROVE  /\ Level \in [Blk -> Nat]
         /\ \A b, a \in Blk : Follows(b, a) => Level[b] = Level[a] + 1
         /\ \A a, b \in Blk : Work[a] < Work[b] => Level[a] < Level[b]
<1> DEFINE high == Level
<1>1. EquallyDifficult(high)  BY DEF Even
<1> HIDE DEF high
<1>2. /\ high \in [Blk -> Nat] /\ \A b \in Blk \ {Genesis} : high[b] = high[Prev[b]] + 1
      /\ \A a, b \in Blk : Work[a] < Work[b] => high[a] < high[b]
  BY <1>1 DEF EquallyDifficult
<1>3. \A b, a \in Blk : Follows(b, a) => high[b] = high[a] + 1  BY <1>2 DEF Follows
<1> QED  BY <1>2, <1>3 DEF high

\* Along a run every block is one higher than the one before it.
LEMMA RunLevel ==
  ASSUME Even, NEW s \in Run(Blk), NEW i \in 1..Len(s)
  PROVE  Level[s[i]] = Level[s[1]] + (i - 1)
<1> DEFINE T == {j \in Nat : j \in 1..Len(s) /\ Level[s[j]] # Level[s[1]] + (j - 1)}
<1>0. s \in Seq(Blk) /\ Len(s) \in Nat /\ Linked(s)  BY RunFacts
<1>1. SUFFICES ASSUME T # {} PROVE FALSE  BY <1>0
<1>2. PICK x \in T : \A y \in T : ~ (<<y, x>> \in OpToRel(<, Nat))
  BY <1>1, NatLessThanWellFounded, WFMin
<1>3. x \in Nat /\ x \in 1..Len(s) /\ Level[s[x]] # Level[s[1]] + (x - 1)  OBVIOUS
<1>4. s[1] \in Blk /\ Level[s[1]] \in Nat
  <2>1. s[1] \in Blk  BY RunFacts
  <2> QED  BY <2>1, Levels
<1>5. x # 1  BY <1>3, <1>4
<1>6. x - 1 \in Nat /\ x - 1 \in 1..Len(s) /\ x - 1 < x /\ x \in 2..Len(s)  BY <1>0, <1>3, <1>5
<1>7. Level[s[x - 1]] = Level[s[1]] + (x - 2)
  <2>1. x - 1 \notin T  BY <1>2, <1>6 DEF OpToRel
  <2>2. Level[s[x - 1]] = Level[s[1]] + ((x - 1) - 1)  BY <1>6, <2>1
  <2>3. (x - 1) - 1 = x - 2  BY <1>3
  <2> QED  BY <2>2, <2>3
<1>8. Level[s[x]] = Level[s[x - 1]] + 1
  <2>1. s[x] \in Blk /\ s[x - 1] \in Blk  BY <1>0, <1>3, <1>6, ElementOfSeq
  <2>2. Follows(s[x], s[x - 1])  BY <1>0, <1>6 DEF Linked
  <2> QED  BY <2>1, <2>2, Levels
<1> DEFINE a == Level[s[1]]
           b == Level[s[x]]
           c == Level[s[x - 1]]
<1>9. a \in Nat /\ c = a + (x - 2) /\ b = c + 1 /\ b # a + (x - 1) /\ x \in Nat
  BY <1>3, <1>4, <1>7, <1>8
<1> HIDE DEF a, b, c, T
<1> QED  BY <1>9

\* A node with blocks, whatever has been mined.
Plain(nd) ==
  /\ nd = [blocks |-> nd.blocks, base |-> nd.base, owner |-> nd.owner,
           boot |-> nd.boot, recent |-> nd.recent]
  /\ nd.blocks \in Run(Blk) /\ nd.base \in Nat

LEMMA GoodPlain ==
  ASSUME NEW n \in Node, NEW nd, NodeGood(n, nd), mined \subseteq Blk
  PROVE  Plain(nd)
BY RunGrows DEF NodeGood, Plain

\* The base is the height of the first block.
Grounded(nd) == nd.base = Level[nd.blocks[1]]

\* So the node is as high as its tip.
LEMMA HeightLevel ==
  ASSUME Even, NEW nd, Plain(nd), Grounded(nd)
  PROVE  Height(nd) = Level[Tip(nd)] /\ Tip(nd) \in Blk /\ Height(nd) \in Nat
<1> DEFINE s == nd.blocks
           k == Len(s)
<1>1. s \in Run(Blk) /\ nd.base \in Nat /\ nd.base = Level[s[1]]  BY DEF Plain, Grounded
<1>2. k \in Nat /\ k >= 1 /\ Last(s) = s[k] /\ Last(s) \in Blk  BY <1>1, RunFacts
<1>3. Level[s[k]] = Level[s[1]] + (k - 1)
  <2>1. k \in 1..Len(s)  BY <1>2
  <2> QED  BY <1>1, <2>1, RunLevel
<1>4. Height(nd) = nd.base + k - 1 /\ Tip(nd) = Last(s)  BY DEF Height, Tip
<1> DEFINE a == Level[s[1]]
           b == Level[s[k]]
<1>5. nd.base = a /\ b = a + (k - 1)  BY <1>1, <1>3
<1> HIDE DEF a, b, s, k
<1>6. Height(nd) = b /\ Height(nd) \in Nat  BY <1>1, <1>2, <1>4, <1>5
<1> QED  BY <1>2, <1>4, <1>6 DEF b

LEMMA PrunedGrounded ==
  ASSUME Even, NEW n, NEW nd, Plain(nd), Grounded(nd)
  PROVE  Grounded(Pruned(n, nd))
<1> DEFINE height == Height(nd) - Retention
           k == height - nd.base
           s == nd.blocks
           cut == SubSeq(s, k + 1, Len(s))
           pr == Pruned(n, nd)
<1>1. s \in Run(Blk) /\ Len(s) \in Nat /\ Len(s) >= 1 /\ nd.base \in Nat /\ nd.base = Level[s[1]]
  BY RunFacts DEF Plain, Grounded
<1>2. CASE n \in Pruning /\ height > nd.base
  <2>1. k \in Nat /\ k < Len(s) /\ height = nd.base + k /\ k + 1 \in 1..Len(s) /\ (k + 1) - 1 = k
    <3>1. Height(nd) = nd.base + Len(s) - 1 /\ Retention \in Nat /\ Retention > 0
      BY Constants DEF Height
    <3> DEFINE h == Height(nd)
               l == Len(s)
    <3> HIDE DEF h, s, l
    <3>2. l \in Nat /\ l >= 1 /\ nd.base \in Nat /\ h = nd.base + l - 1 /\ height = h - Retention
      BY <1>1, <3>1 DEF l, h
    <3>3. height > nd.base  BY <1>2
    <3> HIDE DEF height
    <3> QED  BY <3>1, <3>2, <3>3 DEF l
  <2>2. pr = [nd EXCEPT !.blocks = cut, !.base = height]  BY <1>2 DEF Pruned
  <2> HIDE DEF s, k, height
  <2>3. cut[1] = s[k + 1]
    <3>1. Len(s) <= Len(s)  BY <1>1
    <3> QED  BY <1>1, <2>1, <3>1, Part
  <2>4. Level[s[k + 1]] = Level[s[1]] + k  BY <1>1, <2>1, RunLevel
  <2> HIDE DEF cut, pr
  <2>5. pr.blocks = cut /\ pr.base = height  BY <2>2 DEF Plain
  <2> QED  BY <1>1, <2>1, <2>3, <2>4, <2>5 DEF Grounded, pr
<1>3. CASE ~ (n \in Pruning /\ height > nd.base)  BY <1>3 DEF Pruned
<1> QED  BY <1>2, <1>3

LEMMA ReblockedGrounded ==
  ASSUME NEW nd, Plain(nd), Grounded(nd), NEW s \in Run(Blk), s[1] = nd.blocks[1]
  PROVE  Plain(Reblock(nd, s)) /\ Grounded(Reblock(nd, s))
<1> DEFINE m == Reblock(nd, s)
<1>1. m = [blocks |-> s, base |-> nd.base, owner |-> nd.owner, boot |-> nd.boot, recent |-> nd.recent]
  BY DEF Plain, Reblock
<1> HIDE DEF m
<1>2. m.blocks = s /\ m.base = nd.base  BY <1>1
<1>3. Plain(m)  BY <1>1 DEF Plain
<1> QED  BY <1>2, <1>3 DEF m, Grounded

LEMMA ExtendedGrounded ==
  ASSUME Even, NEW n, NEW nd, Plain(nd), Grounded(nd), NEW b \in Blk, Follows(b, Tip(nd))
  PROVE  Grounded(Extended(n, nd, b))
<1> DEFINE s == Append(nd.blocks, b)
<1>1. s \in Run(Blk) /\ s[1] = nd.blocks[1]  BY Appended DEF Plain, Tip
<1>2. Extended(n, nd, b) = Pruned(n, Reblock(nd, s))  BY DEF Extended, Reblock
<1> HIDE DEF s
<1> QED  BY <1>1, <1>2, ReblockedGrounded, PrunedGrounded

LEMMA AdoptedGrounded ==
  ASSUME Even, mined \subseteq Blk, NEW n \in Node, NEW nd, NodeGood(n, nd), Grounded(nd),
         NEW range, range.blocks \in Run(mined), range.from \in Nat, Adoptable(nd, range)
  PROVE  Grounded(Adopted(n, nd, range))
<1> DEFINE kept == Kept(nd, range.from)
           r == range.blocks
           s == kept \o r
<1>1. kept \in Run(mined) /\ kept[1] = nd.blocks[1]  BY KeptGood
<1>2. r \in Run(mined) /\ Follows(r[1], Last(kept))  BY RunFacts DEF Adoptable
<1>3. Adopted(n, nd, range) = Pruned(n, Reblock(nd, s))  BY DEF Adopted, Reblock
<1> HIDE DEF kept, r
<1>4. s \in Run(mined) /\ s[1] = nd.blocks[1]  BY <1>1, <1>2, Joined
<1> HIDE DEF s
<1>5. s \in Run(Blk) /\ Plain(nd)  BY <1>4, RunGrows, GoodPlain
<1> QED  BY <1>3, <1>4, <1>5, ReblockedGrounded, PrunedGrounded

Rooted == \A n \in Node : Grounded(node[n])

LEMMA RootedInit ==
  ASSUME Even, Init
  PROVE  Rooted
<1> SUFFICES ASSUME NEW n \in Node PROVE Grounded(node[n])  BY DEF Rooted
<1>1. node[n].blocks = Start[n] /\ node[n].base = 0  BY DEF Init
<1>2. Start[n][1] = Genesis  BY Starts
<1>3. Level[Genesis] = 0  BY DEF Even, EquallyDifficult
<1> QED  BY <1>1, <1>2, <1>3 DEF Grounded

\* The one node that gets other blocks.
LEMMA RootedAt ==
  ASSUME Inductive, Rooted, NEW n \in Node, NEW nd, Grounded(nd), node' = [node EXCEPT ![n] = nd]
  PROVE  Rooted'
<1>1. node'[n] = nd /\ \A i \in Node : i # n => node'[i] = node[i]  BY NodeSet DEF Inductive
<1> QED  BY <1>1 DEF Rooted, Grounded

LEMMA RootedStill ==
  ASSUME Rooted, BlocksStill
  PROVE  Rooted'
BY DEF Rooted, Grounded, BlocksStill, SameChain

\* Other things of a node than its chain make no difference to where it begins.
LEMMA GroundedOf ==
  ASSUME NEW nd, NEW x, nd.blocks = x.blocks, nd.base = x.base, Grounded(x)
  PROVE  Grounded(nd)
BY DEF Grounded

LEMMA MineRooted ==
  ASSUME Even, Inductive, Rooted, NEW n \in Node, Mine(n)
  PROVE  Rooted'
<1>1. PICK b \in Blk \ mined : Mine(n)!(b)  BY DEF Mine
<1>2. PICK old : old = node[n]  OBVIOUS
<1> DEFINE nd == Extended(n, old, b)
           done == [nd EXCEPT !.recent = @ \cup {b}]
<1>3. Follows(b, Tip(old)) /\ mined' = mined \cup {b} /\ node' = [node EXCEPT ![n] = done]
  BY <1>1, <1>2
<1>4. NodeGood(n, old) /\ mined \subseteq Blk /\ Grounded(old)  BY <1>2 DEF Inductive, NodesGood, Rooted
<1>5. NodeGood(n, old)'  BY <1>3, <1>4, Grown
<1>6. NodeGood(n, nd)'  BY <1>3, <1>5, Afterwards DEF ExtendsWell
<1>7. Grounded(nd)  BY <1>3, <1>4, GoodPlain, ExtendedGrounded
<1> HIDE DEF nd
<1>8. done.blocks = nd.blocks /\ done.base = nd.base  BY <1>6 DEF NodeGood
<1> HIDE DEF done
<1>9. Grounded(done)  BY <1>7, <1>8, GroundedOf
<1> QED  BY <1>3, <1>9, RootedAt

LEMMA AdoptRooted ==
  ASSUME Even, Inductive, Rooted, NEW e \in End, ApplyRange(e) \/ ConnectBlock(e)
  PROVE  Rooted'
<1> DEFINE n == At(e)
<1>1. n \in Node /\ NodeGood(n, node[n]) /\ mined \subseteq Blk /\ Grounded(node[n])
  BY Ends DEF Inductive, NodesGood, Rooted
<1>2. CASE ApplyRange(e)
  <2>1. PICK range \in OwnersRange(e) : ApplyRange(e)!(range)  BY <1>2 DEF ApplyRange
  <2> DEFINE nd == Adopted(n, node[n], range)
             blocks == ToSet(range.blocks)
  <2>2. PICK owner : node' = [node EXCEPT ![n] = Finish(nd, owner, blocks)]
    BY <2>1 DEF Finish
  <2>3. Adoptable(node[n], range)  BY <2>1
  <2>4. range.blocks \in Run(mined) /\ range.from \in Nat /\ NodeGood(n, nd)  BY <2>3, Applied
  <2>5. Grounded(nd)  BY <1>1, <2>3, <2>4, AdoptedGrounded
  <2> HIDE DEF nd, blocks
  <2>6. Finish(nd, owner, blocks).blocks = nd.blocks /\ Finish(nd, owner, blocks).base = nd.base
    BY <2>4 DEF Finish, NodeGood
  <2>7. Grounded(Finish(nd, owner, blocks))  BY <2>5, <2>6, GroundedOf
  <2> QED  BY <1>1, <2>2, <2>7, RootedAt
<1>3. CASE ConnectBlock(e)
  <2>1. PICK m \in Arrived(e, "compact") : ConnectBlock(e)!(m)  BY <1>3 DEF ConnectBlock
  <2> DEFINE b == m.hash
             nd == Extended(n, node[n], b)
             done == [nd EXCEPT !.recent = @ \cup {b}]
  <2>2. Connects(e, m) /\ node' = [node EXCEPT ![n] = done]  BY <2>1
  <2>3. b \in mined /\ b \in Blk  BY <1>1, CompactFacts
  <2>4. Follows(b, Tip(node[n]))  BY <2>2 DEF Connects
  <2> HIDE DEF b
  <2>5. NodeGood(n, nd)  BY <1>1, <2>3, <2>4, ExtendedGood
  <2>6. Grounded(nd)  BY <1>1, <2>3, <2>4, GoodPlain, ExtendedGrounded
  <2> HIDE DEF nd
  <2>7. done.blocks = nd.blocks /\ done.base = nd.base  BY <2>5 DEF NodeGood
  <2> HIDE DEF done
  <2>8. Grounded(done)  BY <2>6, <2>7, GroundedOf
  <2> QED  BY <1>1, <2>2, <2>8, RootedAt
<1> QED  BY <1>2, <1>3

LEMMA RootedStep ==
  ASSUME Even, Inductive, Rooted, [Next]_vars
  PROVE  Rooted'
<1>1. ASSUME NEW e \in End, Handle(e) PROVE Rooted'
  BY <1>1, HandleBlocks, RootedStill, AdoptRooted
<1>2. ASSUME \/ \E e \in End : Close(e) \/ Drop(e)
             \/ \E l \in Link : Lifecycle(l)
             \/ UNCHANGED <<node, mined>>
             \/ \E n \in Node : Expire(n)
      PROVE  Rooted'
  BY <1>2, OtherBlocks, RootedStill
<1>3. CASE UNCHANGED vars  BY <1>2, <1>3 DEF vars
<1> QED  BY <1>1, <1>2, <1>3, MineRooted DEF Next

\* No node gets lower.
Rising ==
  \A n \in Node : /\ Height(node[n]) \in Nat /\ Height(node'[n]) \in Nat
                  /\ Height(node[n]) <= Height(node'[n])

LEMMA HeightsRise ==
  ASSUME Even, Inductive, Rooted, [Next]_vars
  PROVE  Rising
<1>1. Inductive' /\ Rooted'  BY StepGood, RootedStep
<1>2. \A n \in Node : /\ Height(node[n]) = Level[Tips[n]] /\ Tips[n] \in Blk
                      /\ Height(node'[n]) = Level[Tips'[n]] /\ Tips'[n] \in Blk
  <2> SUFFICES ASSUME NEW n \in Node
               PROVE  /\ Height(node[n]) = Level[Tips[n]] /\ Tips[n] \in Blk
                      /\ Height(node'[n]) = Level[Tips'[n]] /\ Tips'[n] \in Blk
    OBVIOUS
  <2>1. Tips[n] = Tip(node[n]) /\ Tips'[n] = Tip(node'[n])  BY DEF Tips
  <2>2. Plain(node[n]) /\ Grounded(node[n])  BY GoodPlain DEF Inductive, NodesGood, Rooted
  <2>3. PICK x : x = node'[n]  OBVIOUS
  <2>4. NodeGood(n, x)' /\ mined' \subseteq Blk /\ Grounded(x)
    BY <1>1, <2>3 DEF Inductive, NodesGood, Rooted, Grounded
  <2>5. x.blocks \in Run(Blk) /\ Plain(x)
    <3>1. Run(mined') \subseteq Run(Blk)  BY <2>4, RunGrows
    <3> QED  BY <2>4, <3>1 DEF NodeGood, Plain
  <2>6. Height(x) = Level[Tip(x)] /\ Tip(x) \in Blk  BY <2>4, <2>5, HeightLevel
  <2>7. Height(node[n]) = Level[Tip(node[n])] /\ Tip(node[n]) \in Blk  BY <2>2, HeightLevel
  <2> QED  BY <2>1, <2>3, <2>6, <2>7
<1>3. Level \in [Blk -> Nat] /\ \A a, b \in Blk : Work[a] < Work[b] => Level[a] < Level[b]
  BY Levels
<1>4. ASSUME NEW n \in Node PROVE Level[Tips[n]] <= Level[Tips'[n]]
  <2>1. Level[Tips[n]] \in Nat /\ Level[Tips'[n]] \in Nat  BY <1>2, <1>3
  <2>2. CASE Tips' = Tips  BY <2>1, <2>2
  <2>3. ASSUME NEW i \in Node, NEW b \in Blk, Tips' = [Tips EXCEPT ![i] = b], Level[Tips[i]] < Level[b]
        PROVE  Level[Tips[n]] <= Level[Tips'[n]]
    <3>1. Tips'[n] = IF n = i THEN b ELSE Tips[n]  BY <2>3 DEF Tips
    <3> QED  BY <2>1, <2>3, <3>1
  <2>4. ASSUME NEW i \in Node, Replicas!Mine(i) PROVE Level[Tips[n]] <= Level[Tips'[n]]
    <3>1. PICK b \in Blk : b # Genesis /\ Prev[b] = Tips[i] /\ Tips' = [Tips EXCEPT ![i] = b]
      BY <2>4 DEF Replicas!Mine, Tips
    <3>2. Follows(b, Tips[i]) /\ Tips[i] \in Blk  BY <1>2, <3>1 DEF Follows
    <3>3. Level[b] = Level[Tips[i]] + 1 /\ Level[Tips[i]] \in Nat  BY <1>3, <3>2, Levels
    <3>4. Level[Tips[i]] < Level[b]  BY <3>3
    <3> QED  BY <2>3, <3>1, <3>4
  <2>5. ASSUME NEW i \in Node, Replicas!Adopt(i) PROVE Level[Tips[n]] <= Level[Tips'[n]]
    <3>1. PICK b \in mined : Work[b] > Work[Tips[i]] /\ Tips' = [Tips EXCEPT ![i] = b]
      BY <2>5 DEF Replicas!Adopt, Tips
    <3>2. b \in Blk /\ Tips[i] \in Blk /\ Work[b] \in Nat /\ Work[Tips[i]] \in Nat
      BY <1>2, Constants DEF Inductive
    <3>3. Work[Tips[i]] < Work[b]  BY <3>1, <3>2
    <3> QED  BY <1>3, <2>3, <3>1, <3>2, <3>3
  <2> QED  BY <2>2, <2>4, <2>5, ReplicasStep DEF Replicas!Next
<1>5. \A n \in Node : Level[Tips[n]] \in Nat /\ Level[Tips'[n]] \in Nat  BY <1>2, <1>3
<1> QED  BY <1>2, <1>4, <1>5 DEF Rising

\* What a message tells of its sender's height is no more than this.
Reaches(m, h) ==
  /\ m.type = "headers" => Len(m.hashes) - 1 <= h
  /\ m.type = "range" /\ m.blocks # <<>> => LastOf(m) <= h
  /\ m.type \in {"inv", "compact", "meta"} => m.height <= h

LEMMA ReachesMore ==
  ASSUME NEW m \in Sound, NEW h \in Nat, NEW k \in Nat, h <= k, Reaches(m, h)
  PROVE  Reaches(m, k)
<1>1. ASSUME m.type = "headers" PROVE Len(m.hashes) - 1 <= k
  <2>1. Len(m.hashes) - 1 <= h /\ Len(m.hashes) \in Nat  BY <1>1, Contents DEF Reaches
  <2> QED  BY <2>1
<1>2. ASSUME m.type = "range", m.blocks # <<>> PROVE LastOf(m) <= k
  <2>1. LastOf(m) <= h /\ m.from \in Nat /\ Len(m.blocks) \in Nat  BY <1>2, Contents DEF Reaches
  <2>2. LastOf(m) \in Int  BY <2>1 DEF LastOf
  <2> QED  BY <2>1, <2>2
<1>3. ASSUME m.type \in {"inv", "compact", "meta"} PROVE m.height <= k
  <2>1. m.height <= h /\ m.height \in Nat  BY <1>3, Contents DEF Reaches
  <2> QED  BY <2>1
<1> QED  BY <1>1, <1>2, <1>3 DEF Reaches

\* The height of the node at the other end.
FarHeight(e) == Height(node[At(Far(e))])

Truthful ==
  \A e \in End : /\ sock[e].height <= FarHeight(e)
                 /\ \A m \in ToSet(wire[e]) : Reaches(m, FarHeight(e))

\* What a node thinks after the step was true before it already.
Believes(sk) == \A e \in End : sk[e].height <= FarHeight(e)

\* What is new on the wire is true after the step.
Tells ==
  \A e \in End : \A m \in ToSet(wire'[e]) :
    m \in ToSet(wire[e]) \/ Reaches(m, Height(node'[At(Far(e))]))

LEMMA Across ==
  ASSUME NEW e \in End
  PROVE  Far(e) \in End /\ Far(Far(e)) = e /\ At(e) \in Node /\ At(Far(e)) \in Node
BY Ends DEF End, Far, Out, In

LEMMA StaysTrue ==
  ASSUME Inductive, Inductive', Rising, Truthful, Believes(sock'), Tells
  PROVE  Truthful'
<1> SUFFICES ASSUME NEW e \in End
             PROVE  /\ sock'[e].height <= FarHeight(e)'
                    /\ \A m \in ToSet(wire'[e]) : Reaches(m, FarHeight(e)')
  BY DEF Truthful
<1>1. PICK h : h = FarHeight(e)  OBVIOUS
<1>2. PICK k : k = FarHeight(e)'  OBVIOUS
<1>3. h \in Nat /\ k \in Nat /\ h <= k
  BY <1>1, <1>2, Across DEF Rising, FarHeight
<1>4. sock'[e].height <= k
  <2>1. sock'[e].height \in Nat \cup {NoHeight}
    <3>1. sock' \in [End -> SockRec']  BY DEF Inductive
    <3> QED  BY <3>1 DEF SockRec
  <2>2. sock'[e].height <= h  BY <1>1 DEF Believes
  <2>3. sock'[e].height \in Int  BY <2>1 DEF NoHeight
  <2> QED  BY <1>3, <2>2, <2>3
<1>5. ASSUME NEW m \in ToSet(wire'[e]) PROVE Reaches(m, k)
  <2>1. CASE m \in ToSet(wire[e])
    <3>1. Reaches(m, h)  BY <1>1, <2>1 DEF Truthful
    <3>2. wire[e] \in Seq(Sound)  BY DEF Inductive
    <3>3. m \in Sound  BY <2>1, <3>2, Members
    <3> QED  BY <1>3, <3>1, <3>3, ReachesMore
  <2>2. CASE Reaches(m, Height(node'[At(Far(e))]))  BY <1>2, <2>2 DEF FarHeight
  <2> QED  BY <2>1, <2>2 DEF Tells
<1> QED  BY <1>2, <1>4, <1>5

-----------------------------------------------------------------------------
(* What a step puts on the wire. *)

Honest(out) ==
  \A c \in End : \A m \in ToSet(out[c]) : Reaches(m, Height(node'[At(c)]))

LEMMA JoinedSet ==
  ASSUME NEW S, NEW s \in Seq(S), NEW t \in Seq(S)
  PROVE  ToSet(s \o t) = ToSet(s) \cup ToSet(t)
<1>1. /\ Len(s) \in Nat /\ Len(t) \in Nat /\ DOMAIN (s \o t) = 1..(Len(s) + Len(t))
      /\ DOMAIN s = 1..Len(s) /\ DOMAIN t = 1..Len(t)
      /\ \A i \in 1..(Len(s) + Len(t)) : (s \o t)[i] = IF i <= Len(s) THEN s[i] ELSE t[i - Len(s)]
  BY ConcatProperties
<1> DEFINE u == s \o t
<1> HIDE DEF u
<1>2. /\ DOMAIN u = 1..(Len(s) + Len(t))
      /\ \A i \in 1..(Len(s) + Len(t)) : u[i] = IF i <= Len(s) THEN s[i] ELSE t[i - Len(s)]
  BY <1>1 DEF u
<1>3. ASSUME NEW i \in DOMAIN u PROVE u[i] \in ToSet(s) \cup ToSet(t)
  <2>1. i <= Len(s) \/ i - Len(s) \in 1..Len(t)  BY <1>1, <1>2
  <2>2. CASE i <= Len(s)  BY <1>1, <1>2, <2>2 DEF ToSet
  <2>3. CASE ~ (i <= Len(s))
    <3>1. i - Len(s) \in DOMAIN t /\ u[i] = t[i - Len(s)]  BY <1>1, <1>2, <2>1, <2>3
    <3> QED  BY <3>1 DEF ToSet
  <2> QED  BY <2>2, <2>3
<1>4. ASSUME NEW i \in DOMAIN s PROVE s[i] \in ToSet(u)
  <2>1. i \in DOMAIN u /\ u[i] = s[i]  BY <1>1, <1>2
  <2> QED  BY <2>1 DEF ToSet
<1>5. ASSUME NEW i \in DOMAIN t PROVE t[i] \in ToSet(u)
  <2>1. Len(s) + i \in DOMAIN u /\ ~ (Len(s) + i <= Len(s)) /\ (Len(s) + i) - Len(s) = i  BY <1>1, <1>2
  <2>2. u[Len(s) + i] = t[i]  BY <1>2, <2>1
  <2> QED  BY <2>1, <2>2 DEF ToSet
<1> QED  BY <1>3, <1>4, <1>5 DEF ToSet, u

LEMMA SentContents ==
  ASSUME NEW S, NEW w \in [End -> Seq(S)], NEW out \in [End -> Seq(S)],
         NEW e \in End, NEW m \in ToSet(Sent(w, out)[e])
  PROVE  m \in ToSet(w[e]) \/ m \in ToSet(out[Far(e)])
<1>1. Sent(w, out)[e] = IF sock[Far(e)].state = "open" /\ sock[e].state # "closed"
                        THEN w[e] \o out[Far(e)] ELSE w[e]
  BY DEF Sent
<1>2. CASE Sent(w, out)[e] = w[e]  BY <1>2
<1>3. CASE Sent(w, out)[e] = w[e] \o out[Far(e)]
  <2> DEFINE s == w[e]
             t == out[Far(e)]
  <2>1. s \in Seq(S) /\ t \in Seq(S)  BY Across
  <2> HIDE DEF s, t
  <2>2. ToSet(s \o t) = ToSet(s) \cup ToSet(t)  BY <2>1, JoinedSet
  <2>3. m \in ToSet(s \o t)  BY <1>3 DEF s, t
  <2> QED  BY <2>2, <2>3 DEF s, t
<1> QED  BY <1>1, <1>2, <1>3

LEMMA HandledTells ==
  ASSUME Inductive, NEW e \in End, NEW type, Arrived(e, type) # {},
         NEW out, Sendable(out), Handled(e, out), Honest(out)
  PROVE  Tells
<1> SUFFICES ASSUME NEW c \in End, NEW m \in ToSet(wire'[c])
             PROVE  m \in ToSet(wire[c]) \/ Reaches(m, Height(node'[At(Far(c))]))
  BY DEF Tells
<1> DEFINE w == [wire EXCEPT ![e] = Tail(@)]
<1>1. wire \in [End -> Seq(Sound)] /\ wire[e] # <<>>
  <2>1. PICK x \in Arrived(e, type) : TRUE  OBVIOUS
  <2> QED  BY <2>1, ArrivedGood DEF Inductive
<1>2. Tail(wire[e]) \in Seq(Sound) /\ ToSet(Tail(wire[e])) \subseteq ToSet(wire[e])
  <2> DEFINE s == wire[e]
  <2>1. s \in Seq(Sound) /\ s # <<>>  BY <1>1
  <2> HIDE DEF s
  <2>2. Tail(s) \in Seq(Sound) /\ Len(s) \in Nat /\ Len(Tail(s)) = Len(s) - 1
        /\ \A i \in 1..Len(Tail(s)) : Tail(s)[i] = s[i + 1]
    BY <2>1, HeadTailProperties
  <2>3. \A i \in DOMAIN Tail(s) : i + 1 \in DOMAIN s /\ Tail(s)[i] = s[i + 1]  BY <2>1, <2>2
  <2>4. ToSet(Tail(s)) \subseteq ToSet(s)  BY <2>3 DEF ToSet
  <2> QED  BY <2>2, <2>4 DEF s
<1>3. w \in [End -> Seq(Sound)] /\ ToSet(w[c]) \subseteq ToSet(wire[c])  BY <1>1, <1>2
<1>4. wire' = Sent(w, out)  BY DEF Handled
<1> HIDE DEF w
<1>5. m \in ToSet(w[c]) \/ m \in ToSet(out[Far(c)])  BY <1>3, <1>4, SentContents DEF Sendable
<1> QED  BY <1>3, <1>5, Across DEF Honest

LEMMA NoneIn == ToSet(<<>>) = {}
BY DEF ToSet

LEMMA OneIn ==
  ASSUME NEW x
  PROVE  ToSet(<<x>>) = {x}
BY DEF ToSet

LEMMA SilenceHonest == Honest(Silence) /\ \A e \in End : Honest(Only(e, <<>>))
<1>1. \A c \in End : Silence[c] = <<>>  BY DEF Silence
<1>2. \A e, c \in End : Only(e, <<>>)[c] = <<>>  BY DEF Only, Silence
<1> QED  BY <1>1, <1>2, NoneIn DEF Honest

LEMMA OneHonest ==
  ASSUME NEW e \in End, NEW x, Reaches(x, Height(node'[At(e)]))
  PROVE  Honest(Only(e, <<x>>))
<1> DEFINE s == <<x>>
<1>1. ToSet(s) = {x}  BY OneIn
<1> HIDE DEF s
<1>2. \A c \in End : Only(e, s)[c] = IF c = e THEN s ELSE <<>>  BY DEF Only, Silence
<1>3. Honest(Only(e, s))  BY <1>1, <1>2, NoneIn DEF Honest
<1> QED  BY <1>3 DEF s

LEMMA AnnouncementHonest ==
  ASSUME NEW n \in Node, NEW b, NEW height, NEW ends \in SUBSET EndsOf(n),
         height <= Height(node'[n])
  PROVE  Honest(Announcement(b, height, ends))
<1> DEFINE x == [type |-> "inv", hash |-> b, height |-> height]
           s == <<x>>
<1>1. ToSet(s) = {x}  BY OneIn
<1>2. Reaches(x, Height(node'[n]))  BY DEF Reaches
<1>3. \A c \in End : Announcement(b, height, ends)[c] = IF c \in ends THEN s ELSE <<>>
  BY DEF Announcement
<1> HIDE DEF x, s
<1>4. \A c \in ends : At(c) = n  BY DEF EndsOf
<1> QED  BY <1>1, <1>2, <1>3, <1>4, NoneIn DEF Honest

\* A message that tells nothing of a height.
Plainly(m) == m.type \notin {"headers", "range", "inv", "compact", "meta"}

LEMMA PlainReaches ==
  ASSUME NEW m, Plainly(m), NEW h
  PROVE  Reaches(m, h)
BY DEF Plainly, Reaches

LEMMA ArrivedReaches ==
  ASSUME Truthful, NEW e \in End, NEW type, NEW m \in Arrived(e, type)
  PROVE  Reaches(m, FarHeight(e)) /\ m.type = type
BY DEF Truthful, Arrived

LEMMA BelievesOne ==
  ASSUME Truthful, NEW sk, NEW e \in End, sk[e].height <= FarHeight(e),
         \A c \in End : c # e => sk[c].height = sock[c].height
  PROVE  Believes(sk)
BY DEF Truthful, Believes

LEMMA BelievesSame ==
  ASSUME Truthful, NEW sk, \A c \in End : sk[c].height = sock[c].height
  PROVE  Believes(sk)
BY DEF Truthful, Believes

\* A handler that answers nothing, or what is true of its node.
LEMMA Answers ==
  ASSUME Inductive, Truthful, NEW e \in End, NEW type, Arrived(e, type) # {},
         NEW x \in Sound, Reaches(x, Height(node'[At(e)])), Handled(e, Only(e, <<x>>))
  PROVE  Tells
BY OneHonest, HandledTells, OneMessage, OnlySendable

LEMMA KeepsSilent ==
  ASSUME Inductive, Truthful, NEW e \in End, NEW type, Arrived(e, type) # {},
         Handled(e, Silence)
  PROVE  Tells
BY SilenceHonest, HandledTells, SilenceSendable

LEMMA HeardBelieves ==
  ASSUME Inductive, Truthful, NEW e \in End, NEW height, height <= FarHeight(e), sock' = Heard(e, height)
  PROVE  Believes(sock')
<1>1. sock \in [End -> SockRec]  BY DEF Inductive
<1>2. sock'[e].height = height /\ \A c \in End : c # e => sock'[c].height = sock[c].height
  BY <1>1 DEF Heard, SockRec
<1> QED  BY <1>2, BelievesOne

LEMMA HeadersReach ==
  ASSUME Truthful, NEW e \in End, NEW hashes \in GoodHeaders(e)
  PROVE  Len(hashes) - 1 <= FarHeight(e)
<1>1. PICK m \in Arrived(e, "headers") : hashes = m.hashes  BY DEF GoodHeaders
<1>2. Reaches(m, FarHeight(e)) /\ m.type = "headers"  BY ArrivedReaches
<1> QED  BY <1>1, <1>2 DEF Reaches

\* Headers.
LEMMA HeadersTrue ==
  ASSUME Inductive, Truthful, NEW e \in End,
         \/ Closing(e) \/ ServeHeaders(e) \/ RefuseHeaders(e) \/ HeadersNotAhead(e)
         \/ HeadersWhileBusy(e) \/ HeadersForSnapshot(e) \/ HeadersForBlocks(e)
  PROVE  Believes(sock') /\ Tells
<1>0. sock \in [End -> SockRec] /\ At(e) \in Node /\ NodeGood(At(e), node[At(e)])  BY NodeOf
<1>1. CASE Closing(e)
  <2>1. Arrived(e, "close") # {} /\ Handled(e, Silence) /\ sock' = [sock EXCEPT ![e].state = "closing"]
    BY <1>1 DEF Closing
  <2>2. \A c \in End : sock'[c].height = sock[c].height  BY <1>0, <2>1 DEF SockRec
  <2> QED  BY <2>1, <2>2, BelievesSame, KeepsSilent
<1>2. CASE ServeHeaders(e)
  <2> DEFINE nd == node[At(e)]
             x == HeadersOf(nd)
  <2>1. Arrived(e, "headers-request") # {} /\ Handled(e, Only(e, <<x>>)) /\ sock' = sock /\ node' = node
    BY <1>2 DEF ServeHeaders
  <2>2. nd.blocks \in Seq(mined) /\ nd.blocks # <<>> /\ Len(nd.blocks) \in Nat /\ nd.base \in Nat
    BY <1>0, RunFacts DEF NodeGood
  <2>3. x \in Sound
    <3>1. (nd.base > 0) \in BOOLEAN  OBVIOUS
    <3> QED  BY <2>2, <3>1 DEF HeadersOf, Sound, Message
  <2>4. Reaches(x, Height(nd))
    <3>1. x.type = "headers" /\ x.hashes = nd.blocks  BY DEF HeadersOf
    <3>2. Len(nd.blocks) - 1 <= Height(nd)  BY <2>2 DEF Height
    <3> QED  BY <3>1, <3>2 DEF Reaches
  <2>5. Believes(sock')  BY <2>1, BelievesSame
  <2>6. Height(node'[At(e)]) = Height(nd)  BY <2>1
  <2> HIDE DEF x, nd
  <2> QED  BY <2>1, <2>3, <2>4, <2>5, <2>6, Answers
<1>3. CASE RefuseHeaders(e)
  <2> DEFINE x == [type |-> "close"]
  <2>1. Arrived(e, "headers") # {} /\ Handled(e, Only(e, <<x>>))
        /\ sock' = [sock EXCEPT ![e].state = "closing"]
    BY <1>3 DEF RefuseHeaders
  <2>2. x \in Sound /\ Plainly(x)  BY DEF Sound, Message, Plainly
  <2>3. \A c \in End : sock'[c].height = sock[c].height  BY <1>0, <2>1 DEF SockRec
  <2> HIDE DEF x
  <2> QED  BY <2>1, <2>2, <2>3, BelievesSame, PlainReaches, Answers
<1>4. CASE HeadersNotAhead(e) \/ HeadersWhileBusy(e)
  <2>1. PICK hashes \in GoodHeaders(e) : sock' = Heard(e, Len(hashes) - 1)
    BY <1>4 DEF HeadersNotAhead, HeadersWhileBusy, Ahead
  <2>2. Believes(sock')  BY <2>1, HeadersReach, HeardBelieves
  <2>3. Arrived(e, "headers") # {} /\ Handled(e, Silence)
    BY <1>4, <2>1, GoodHeadersType DEF HeadersNotAhead, HeadersWhileBusy
  <2> QED  BY <2>2, <2>3, KeepsSilent
<1>5. CASE HeadersForSnapshot(e)
  <2>1. PICK hashes \in GoodHeaders(e) :
          /\ sock' = Heard(e, Len(hashes) - 1)
          /\ Handled(e, Only(e, Bootstrap(Owned(e), e, Len(hashes) - 1).sends))
    BY <1>5 DEF HeadersForSnapshot, Ahead
  <2>2. Believes(sock') /\ Arrived(e, "headers") # {}  BY <2>1, HeadersReach, HeardBelieves, GoodHeadersType
  <2>3. Bootstrap(Owned(e), e, Len(hashes) - 1).sends = <<>>  BY <1>0, OwnedGood, BootstrapGood
  <2>4. Handled(e, Only(e, <<>>)) /\ Sendable(Only(e, <<>>))  BY <2>1, <2>3, EmptySeq, OnlySendable
  <2> QED  BY <2>2, <2>4, SilenceHonest, HandledTells
<1>6. CASE HeadersForBlocks(e)
  <2>1. PICK hashes \in GoodHeaders(e), chunk \in Chunk :
          LET from == CommonLen(node[At(e)].blocks, hashes)
          IN /\ sock' = Heard(e, Len(hashes) - 1)
             /\ Handled(e, Only(e, <<[type |-> "range-request", from |-> from,
                                      count |-> AtMost(chunk, Len(hashes) - from)]>>))
    BY <1>6 DEF HeadersForBlocks, Ahead
  <2> DEFINE from == CommonLen(node[At(e)].blocks, hashes)
             count == AtMost(chunk, Len(hashes) - from)
             x == [type |-> "range-request", from |-> from, count |-> count]
  <2>2. Handled(e, Only(e, <<x>>)) /\ sock' = Heard(e, Len(hashes) - 1)  BY <2>1
  <2>3. hashes \in Seq(mined) /\ Len(hashes) \in Nat /\ Arrived(e, "headers") # {}
    BY GoodHeadersType
  <2>4. from \in Nat /\ from <= Len(hashes)  BY <2>3, CommonLenBound
  <2> HIDE DEF from
  <2>5. count \in Nat  BY <2>3, <2>4, Constants DEF AtMost
  <2> HIDE DEF count
  <2>6. x \in Sound /\ Plainly(x)  BY <2>4, <2>5 DEF Sound, Message, Plainly
  <2> HIDE DEF x
  <2>7. Believes(sock')  BY <2>2, HeadersReach, HeardBelieves
  <2> QED  BY <2>2, <2>3, <2>6, <2>7, PlainReaches, Answers
<1> QED  BY <1>1, <1>2, <1>3, <1>4, <1>5, <1>6

\* A range ends no higher than the chain it is taken from.
LEMMA RangeReaches ==
  ASSUME NEW n \in Node, NEW nd, NodeGood(n, nd), NEW from \in Nat, NEW count \in Nat
  PROVE  Reaches(RangeOf(nd, from, count), Height(nd))
<1> DEFINE first == IF from > nd.base THEN from - nd.base ELSE 0
           last == AtMost(Len(nd.blocks), first + count)
           s == SubSeq(nd.blocks, first + 1, last)
           x == RangeOf(nd, from, count)
           l == Len(nd.blocks)
<1>1. nd.blocks \in Seq(mined) /\ l \in Nat /\ nd.base \in Nat
  BY RunFacts DEF NodeGood
<1>2. first \in Nat /\ last \in Nat /\ last <= l  BY <1>1 DEF AtMost
<1>3. x.type = "range" /\ x.from = from /\ x.blocks = s  BY DEF RangeOf
<1>4. Height(nd) = nd.base + l - 1 /\ LastOf(x) = from + Len(s) - 1  BY <1>3 DEF Height, LastOf
<1>5. from <= nd.base + first  BY <1>1
<1>6. ASSUME s # <<>> PROVE Len(s) = last - first
  <2> DEFINE k == last - first
  <2>1. \A i \in (first + 1)..last : nd.blocks[i] \in mined  BY <1>1, <1>2, ElementOfSeq
  <2>2. first + 1 \in Int /\ last \in Int /\ last - (first + 1) + 1 = k  BY <1>2
  <2> HIDE DEF first, last, k
  <2>3. s \in Seq(mined) /\ Len(s) = IF first + 1 <= last THEN last - (first + 1) + 1 ELSE 0
    BY <2>1, <2>2, SubSeqProperties
  <2>4. Len(s) # 0  BY <1>6, <2>3, EmptySeq
  <2> HIDE DEF s
  <2>5. Len(s) = k  BY <2>2, <2>3, <2>4
  <2> QED  BY <2>5 DEF k
<1> HIDE DEF first, last, s, x, l
<1>7. ASSUME s # <<>> PROVE LastOf(x) <= Height(nd)  BY <1>1, <1>2, <1>4, <1>5, <1>6, <1>7
<1> QED  BY <1>3, <1>7 DEF Reaches, x

\* Ranges of blocks.
LEMMA RangesTrue ==
  ASSUME Inductive, Truthful, NEW e \in End,
         ServeRange(e) \/ IgnoreRange(e) \/ RefuseRange(e) \/ ApplyRange(e)
  PROVE  Believes(sock') /\ Tells
<1>0. sock \in [End -> SockRec] /\ wire \in [End -> Seq(Sound)]
      /\ At(e) \in Node /\ NodeGood(At(e), node[At(e)])
  BY NodeOf
<1>1. CASE ServeRange(e)
  <2>1. PICK m \in Arrived(e, "range-request") :
          Handled(e, Only(e, <<RangeOf(node[At(e)], m.from, m.count)>>))
    BY <1>1 DEF ServeRange
  <2> DEFINE x == RangeOf(node[At(e)], m.from, m.count)
  <2>2. m.from \in Nat /\ m.count \in Nat  BY <1>0, ArrivedGood, Contents
  <2>3. x \in Sound /\ Reaches(x, Height(node[At(e)]))  BY <1>0, <2>2, RangeGood, RangeReaches
  <2>4. sock' = sock /\ node' = node /\ Handled(e, Only(e, <<x>>)) /\ Arrived(e, "range-request") # {}
    BY <1>1, <2>1 DEF ServeRange
  <2>5. Believes(sock')  BY <2>4, BelievesSame
  <2> HIDE DEF x
  <2> QED  BY <2>3, <2>4, <2>5, Answers
<1>2. CASE IgnoreRange(e) \/ RefuseRange(e)
  <2>1. Arrived(e, "range") # {} /\ Handled(e, Silence) /\ sock' = sock
    BY <1>2 DEF IgnoreRange, RefuseRange, OwnersRange
  <2> QED  BY <2>1, BelievesSame, KeepsSilent
<1>3. CASE ApplyRange(e)
  <2>1. PICK range \in OwnersRange(e) : ApplyRange(e)!(range)  BY <1>3 DEF ApplyRange
  <2> DEFINE height == IF sock[e].height > LastOf(range) THEN sock[e].height ELSE LastOf(range)
             blocks == ToSet(range.blocks)
             x == [type |-> "headers-request"]
  <2>2. /\ sock' = [sock EXCEPT ![e].height = height, ![e].knows = @ \cup blocks]
        /\ Handled(e, Only(e, <<x>>))
    BY <2>1
  <2>3. range \in Arrived(e, "range") /\ range.blocks # <<>>  BY DEF OwnersRange
  <2>4. LastOf(range) <= FarHeight(e)
    <3>1. Reaches(range, FarHeight(e)) /\ range.type = "range"  BY <2>3, ArrivedReaches
    <3> QED  BY <2>3, <3>1 DEF Reaches
  <2>5. height <= FarHeight(e)  BY <2>4 DEF Truthful
  <2> HIDE DEF height, blocks
  <2>6. sock'[e].height = height /\ \A c \in End : c # e => sock'[c].height = sock[c].height
    BY <1>0, <2>2 DEF SockRec
  <2>7. Believes(sock')  BY <2>5, <2>6, BelievesOne
  <2>8. x \in Sound /\ Plainly(x)  BY DEF Sound, Message, Plainly
  <2> HIDE DEF x
  <2> QED  BY <2>2, <2>3, <2>7, <2>8, PlainReaches, Answers
<1> QED  BY <1>1, <1>2, <1>3

LEMMA CompactReaches ==
  ASSUME NEW n \in Node, NEW nd, NodeGood(n, nd), NEW b, Holds(nd, b)
  PROVE  Reaches(CompactOf(nd, b), Height(nd))
<1> DEFINE i == CHOOSE i \in DOMAIN nd.blocks : nd.blocks[i] = b
           x == CompactOf(nd, b)
<1>1. nd.blocks \in Seq(mined) /\ Len(nd.blocks) \in Nat /\ nd.base \in Nat  BY RunFacts DEF NodeGood
<1>2. \E j \in DOMAIN nd.blocks : nd.blocks[j] = b  BY DEF Holds, ToSet
<1>3. i \in DOMAIN nd.blocks  BY <1>2
<1>4. x.type = "compact" /\ x.height = i - 1  BY DEF CompactOf
<1> HIDE DEF i, x
<1>5. i \in 1..Len(nd.blocks)  BY <1>1, <1>3
<1>6. i - 1 <= Height(nd)  BY <1>1, <1>5 DEF Height
<1> QED  BY <1>4, <1>6 DEF Reaches, x

LEMMA AnnouncedHeights ==
  ASSUME NEW sk \in [End -> SockRec], NEW b, NEW ends
  PROVE  \A c \in End : Announced(sk, b, ends)[c].height = sk[c].height
BY DEF Announced, SockRec

\* New blocks.
LEMMA BlocksTrue ==
  ASSUME Inductive, Truthful, Rising, NEW e \in End,
         HandleInv(e) \/ ServeBlock(e) \/ RefuseBlock(e) \/ ConnectBlock(e)
  PROVE  Believes(sock') /\ Tells
<1>0. sock \in [End -> SockRec] /\ wire \in [End -> Seq(Sound)]
      /\ At(e) \in Node /\ NodeGood(At(e), node[At(e)]) /\ NodesGood
  BY NodeOf DEF Inductive
<1>1. CASE HandleInv(e)
  <2>1. PICK m \in Arrived(e, "inv") : HandleInv(e)!(m)  BY <1>1 DEF HandleInv
  <2> DEFINE wanted == ~ Holds(node[At(e)], m.hash) /\ m.hash \notin node[At(e)].recent
             x == [type |-> "get", hash |-> m.hash]
             out == IF wanted THEN Only(e, <<x>>) ELSE Silence
  <2>2. /\ sock' = [sock EXCEPT ![e].height = m.height, ![e].knows = @ \cup {m.hash}]
        /\ Handled(e, out)
    BY <2>1
  <2>3. Reaches(m, FarHeight(e)) /\ m.type = "inv" /\ m.hash \in mined
    BY <1>0, ArrivedReaches, ArrivedGood, Contents
  <2>4. m.height <= FarHeight(e)  BY <2>3 DEF Reaches
  <2>5. Believes(sock')
    <3>1. sock'[e].height = m.height /\ \A c \in End : c # e => sock'[c].height = sock[c].height
      BY <1>0, <2>2 DEF SockRec
    <3> QED  BY <2>4, <3>1, BelievesOne
  <2>6. x \in Sound /\ Plainly(x)  BY <2>3 DEF Sound, Message, Plainly
  <2> HIDE DEF x
  <2>7. CASE wanted
    <3>1. Handled(e, Only(e, <<x>>)) /\ Arrived(e, "inv") # {}  BY <2>2, <2>7
    <3> QED  BY <2>5, <2>6, <3>1, PlainReaches, Answers
  <2>8. CASE ~ wanted
    <3>1. Handled(e, Silence) /\ Arrived(e, "inv") # {}  BY <2>2, <2>8
    <3> QED  BY <2>5, <3>1, KeepsSilent
  <2> QED  BY <2>7, <2>8
<1>2. CASE ServeBlock(e)
  <2>1. PICK m \in Arrived(e, "get") : ServeBlock(e)!(m)  BY <1>2 DEF ServeBlock
  <2> DEFINE nd == node[At(e)]
             holds == Holds(nd, m.hash)
             x == CompactOf(nd, m.hash)
             out == IF holds THEN Only(e, <<x>>) ELSE Silence
  <2>2. /\ sock' = IF holds THEN [sock EXCEPT ![e].knows = @ \cup {m.hash}] ELSE sock
        /\ Handled(e, out) /\ node' = node
    BY <2>1
  <2>3. m.hash \in mined  BY <1>0, ArrivedGood, Contents
  <2>4. \A c \in End : sock'[c].height = sock[c].height  BY <1>0, <2>2 DEF SockRec
  <2>5. Believes(sock')  BY <2>4, BelievesSame
  <2>6. CASE holds
    <3>1. Handled(e, Only(e, <<x>>)) /\ Arrived(e, "get") # {}  BY <2>2, <2>6
    <3>2. x \in Sound /\ Reaches(x, Height(nd))  BY <1>0, <2>3, <2>6, CompactGood, CompactReaches
    <3> HIDE DEF x
    <3> QED  BY <2>2, <2>5, <3>1, <3>2, Answers
  <2>7. CASE ~ holds
    <3>1. Handled(e, Silence) /\ Arrived(e, "get") # {}  BY <2>2, <2>7
    <3> QED  BY <2>5, <3>1, KeepsSilent
  <2> QED  BY <2>6, <2>7
<1>3. ASSUME NEW m \in Arrived(e, "compact")
      PROVE  Noted(sock, e, m) \in [End -> SockRec] /\ Believes(Noted(sock, e, m))
  <2>1. Reaches(m, FarHeight(e)) /\ m.type = "compact"  BY ArrivedReaches
  <2>2. m.height <= FarHeight(e)  BY <2>1 DEF Reaches
  <2>3. Believes(Noted(sock, e, m))
    <3> DEFINE sk == Noted(sock, e, m)
    <3>1. sk[e].height = m.height /\ \A c \in End : c # e => sk[c].height = sock[c].height
      BY <1>0 DEF Noted, SockRec
    <3> HIDE DEF sk
    <3>2. Believes(sk)  BY <2>2, <3>1, BelievesOne
    <3> QED  BY <3>2 DEF sk
  <2> QED  BY <2>3, CompactFacts DEF Quiet
<1>4. CASE RefuseBlock(e)
  <2>1. PICK m \in Arrived(e, "compact") : sock' = Noted(sock, e, m)  BY <1>4 DEF RefuseBlock
  <2>2. Arrived(e, "compact") # {} /\ Handled(e, Silence)  BY <1>4, <2>1 DEF RefuseBlock
  <2> QED  BY <1>3, <2>1, <2>2, KeepsSilent
<1>5. CASE ConnectBlock(e)
  <2>1. PICK m \in Arrived(e, "compact") : ConnectBlock(e)!(m)  BY <1>5 DEF ConnectBlock
  <2> DEFINE n == At(e)
             nd == Extended(n, node[n], m.hash)
             ends == Uninformed(n, m.hash, sock) \ {e}
             done == [nd EXCEPT !.recent = @ \cup {m.hash}]
             sk == Noted(sock, e, m)
             out == Announcement(m.hash, Height(nd), ends)
  <2>2. /\ Connects(e, m) /\ sock' = Announced(sk, m.hash, ends)
        /\ node' = [node EXCEPT ![n] = done] /\ Handled(e, out)
    BY <2>1
  <2>3. m.hash \in mined /\ Follows(m.hash, Tip(node[n]))  BY <2>2, CompactFacts DEF Connects
  <2>4. NodeGood(n, nd) /\ Height(nd) \in Nat  BY <1>0, <2>3, ExtendedGood
  <2>5. ends \in SUBSET EndsOf(n)  BY DEF Uninformed
  <2>6. sk \in [End -> SockRec] /\ Believes(sk)  BY <1>3
  <2> HIDE DEF nd, ends, sk
  <2>7. Believes(sock')  BY <2>2, <2>6, AnnouncedHeights DEF Believes
  <2>8. Height(node'[n]) = Height(nd)
    <3>1. done.blocks = nd.blocks /\ done.base = nd.base  BY <2>4 DEF NodeGood
    <3> HIDE DEF done
    <3>2. node'[n] = done  BY <1>0, <2>2, NodeSet
    <3> QED  BY <3>1, <3>2 DEF Height
  <2>9. Sendable(out)  BY <2>3, <2>4, AnnouncementSendable
  <2>10. Honest(out)
    <3>1. Height(nd) <= Height(node'[n])  BY <2>4, <2>8
    <3> QED  BY <1>0, <2>5, <3>1, AnnouncementHonest
  <2>11. Arrived(e, "compact") # {}  OBVIOUS
  <2> HIDE DEF out
  <2> QED  BY <2>2, <2>7, <2>9, <2>10, <2>11, HandledTells
<1> QED  BY <1>1, <1>2, <1>4, <1>5

\* Snapshots.
LEMMA SnapshotsTrue ==
  ASSUME Inductive, Truthful, NEW e \in End, ServeMeta(e) \/ IgnoreMeta(e) \/ HandleMeta(e)
  PROVE  Believes(sock') /\ Tells
<1>0. sock \in [End -> SockRec] /\ wire \in [End -> Seq(Sound)]
      /\ At(e) \in Node /\ NodeGood(At(e), node[At(e)])
  BY NodeOf
<1>1. CASE ServeMeta(e)
  <2> DEFINE h == Height(node[At(e)])
             x == [type |-> "meta", height |-> h]
  <2>1. Arrived(e, "meta-request") # {} /\ Handled(e, Only(e, <<x>>)) /\ sock' = sock /\ node' = node
    BY <1>1 DEF ServeMeta, MetaOf
  <2>2. node[At(e)].base \in Nat /\ Len(node[At(e)].blocks) \in Nat /\ Len(node[At(e)].blocks) >= 1
    BY <1>0, RunFacts DEF NodeGood
  <2>3. h \in Nat  BY <2>2 DEF Height
  <2>4. Height(node'[At(e)]) = h  BY <2>1
  <2> HIDE DEF h
  <2>5. x \in Sound /\ Reaches(x, h)  BY <2>3 DEF Sound, Message, Reaches
  <2>6. Believes(sock')  BY <2>1, BelievesSame
  <2> HIDE DEF x
  <2> QED  BY <2>1, <2>4, <2>5, <2>6, Answers
<1>2. CASE IgnoreMeta(e)
  <2>1. Arrived(e, "meta") # {} /\ Handled(e, Silence) /\ sock' = sock  BY <1>2 DEF IgnoreMeta
  <2> QED  BY <2>1, BelievesSame, KeepsSilent
<1>3. CASE HandleMeta(e)
  <2> DEFINE n == At(e)
             with == [node[n] EXCEPT !.boot.meta = TRUE]
             next(height) == IF TrustsMeta(e, height) THEN Bootstrap(with, e, height)
                             ELSE [node |-> [node[n] EXCEPT !.boot = Idle], sends |-> <<>>]
  <2>1. PICK m \in Arrived(e, "meta") :
          sock' = Heard(e, m.height) /\ Handled(e, Only(e, next(m.height).sends))
    BY <1>3 DEF HandleMeta
  <2>2. Reaches(m, FarHeight(e)) /\ m.type = "meta"  BY ArrivedReaches
  <2>3. m.height <= FarHeight(e)  BY <2>2 DEF Reaches
  <2>4. Believes(sock')  BY <2>1, <2>3, HeardBelieves
  <2>5. next(m.height).sends = <<>>
    <3>1. with.boot.status = "waiting-meta"
      BY <1>0, <1>3 DEF HandleMeta, Expected, NodeGood, BootGood, Bootstrapping
    <3> HIDE DEF with
    <3>2. Bootstrap(with, e, m.height).sends = <<>>  BY <3>1 DEF Bootstrap, TriesSnapshot
    <3> QED  BY <3>2
  <2> HIDE DEF next
  <2>6. Handled(e, Only(e, <<>>)) /\ Arrived(e, "meta") # {} /\ Sendable(Only(e, <<>>))
    BY <2>1, <2>5, EmptySeq, OnlySendable
  <2> QED  BY <2>4, <2>6, SilenceHonest, HandledTells
<1> QED  BY <1>1, <1>2, <1>3

\* Connections, and what is not a handler of a message.
LEMMA GreetTrue ==
  ASSUME Inductive, Truthful, Rising, NEW e \in End, Greet(e)
  PROVE  Believes(sock') /\ Tells
<1> DEFINE sends == AskMeta(node[At(e)], e).sends
           first == <<[type |-> "headers-request"]>>
           f == Far(e)
<1>1. sock \in [End -> SockRec] /\ wire \in [End -> Seq(Sound)] /\ f \in End /\ At(f) \in Node
  BY Across DEF Inductive
<1>2. /\ sock' = [sock EXCEPT ![e] = Socket("open")]
      /\ wire' = [wire EXCEPT ![f] = (@ \o first) \o sends]
  BY DEF Greet
<1>3. \A m \in ToSet(first) : Plainly(m)
  BY DEF ToSet, Plainly
<1>4. \A m \in ToSet(sends) : Plainly(m)
  BY DEF ToSet, Plainly, AskMeta
<1>5. first \in Seq(Sound) /\ sends \in Seq(Sound)
  <2>1. [type |-> "headers-request"] \in Sound  BY DEF Sound, Message
  <2>2. NodeGood(At(e), node[At(e)]) /\ e \in EndsOf(At(e)) /\ At(e) \in Node  BY NodeOf
  <2> QED  BY <2>1, <2>2, OneMessage, AskMetaGood
<1> HIDE DEF first, sends, f
<1>6. Believes(sock')
  <2>1. FarHeight(e) \in Nat  BY Across DEF Rising, FarHeight
  <2>2. sock'[e].height = NoHeight /\ \A c \in End : c # e => sock'[c].height = sock[c].height
    BY <1>1, <1>2 DEF Socket
  <2>3. sock'[e].height <= FarHeight(e)  BY <2>1, <2>2 DEF NoHeight
  <2> QED  BY <2>2, <2>3, BelievesOne
<1>7. Tells
  <2> SUFFICES ASSUME NEW c \in End, NEW m \in ToSet(wire'[c])
               PROVE  m \in ToSet(wire[c]) \/ Plainly(m)
    BY PlainReaches DEF Tells
  <2>1. CASE c # f  BY <1>1, <1>2, <2>1
  <2>2. CASE c = f
    <3> DEFINE s == wire[f]
    <3>1. s \in Seq(Sound) /\ wire'[c] = (s \o first) \o sends  BY <1>1, <1>2, <2>2
    <3> HIDE DEF s
    <3>2. ToSet((s \o first) \o sends) = (ToSet(s) \cup ToSet(first)) \cup ToSet(sends)
      <4> DEFINE u == s \o first
      <4>1. u \in Seq(Sound)  BY <1>5, <3>1, ConcatProperties
      <4>2. ToSet(u) = ToSet(s) \cup ToSet(first)  BY <1>5, <3>1, JoinedSet
      <4> HIDE DEF u
      <4>3. ToSet(u \o sends) = ToSet(u) \cup ToSet(sends)  BY <1>5, <4>1, JoinedSet
      <4> QED  BY <4>2, <4>3 DEF u
    <3> QED  BY <1>3, <1>4, <2>2, <3>1, <3>2 DEF s
  <2> QED  BY <2>1, <2>2
<1> QED  BY <1>6, <1>7

LEMMA RemovedSet ==
  ASSUME NEW S, NEW s \in Seq(S), NEW i \in DOMAIN s
  PROVE  ToSet(RemoveAt(s, i)) \subseteq ToSet(s)
<1> DEFINE s1 == SubSeq(s, 1, i - 1)
           s2 == SubSeq(s, i + 1, Len(s))
<1>1. Len(s) \in Nat /\ i \in 1..Len(s)  OBVIOUS
<1>2. \A j \in 1..Len(s) : s[j] \in ToSet(s)  BY DEF ToSet
<1>3. s1 \in Seq(ToSet(s))
  <2>1. 1 \in Int /\ i - 1 \in Int /\ \A j \in 1..(i - 1) : s[j] \in ToSet(s)  BY <1>1, <1>2
  <2> QED  BY <2>1, SubSeqProperties
<1>4. s2 \in Seq(ToSet(s))
  <2>1. i + 1 \in Int /\ Len(s) \in Int /\ \A j \in (i + 1)..Len(s) : s[j] \in ToSet(s)  BY <1>1, <1>2
  <2> QED  BY <2>1, SubSeqProperties
<1> HIDE DEF s1, s2
<1>5. s1 \o s2 \in Seq(ToSet(s))  BY <1>3, <1>4, ConcatProperties
<1>6. RemoveAt(s, i) = s1 \o s2  BY DEF RemoveAt, s1, s2
<1> QED  BY <1>5, <1>6, Members

LEMMA OthersTrue ==
  ASSUME Inductive, Truthful, Rising,
         \/ \E e \in End : Close(e) \/ Drop(e)
         \/ \E l \in Link : Lifecycle(l)
         \/ \E l \in Fragile : Break(l)
         \/ \E n \in Node : Expire(n)
         \/ UNCHANGED vars
  PROVE  Believes(sock') /\ Tells
<1>0. sock \in [End -> SockRec] /\ wire \in [End -> Seq(Sound)]  BY DEF Inductive
<1>1. CASE UNCHANGED networkVars
  <2>1. sock' = sock /\ wire' = wire  BY <1>1 DEF networkVars
  <2> QED  BY <2>1, BelievesSame DEF Tells
<1>2. ASSUME NEW e \in End, Close(e) PROVE Believes(sock') /\ Tells
  <2>1. sock' = [sock EXCEPT ![e] = Socket("closed")] /\ wire' = [wire EXCEPT ![e] = <<>>]
    BY <1>2 DEF Close
  <2>2. sock'[e].height = NoHeight /\ \A c \in End : c # e => sock'[c].height = sock[c].height
    BY <1>0, <2>1 DEF Socket
  <2>3. FarHeight(e) \in Nat  BY Across DEF Rising, FarHeight
  <2>4. sock'[e].height <= FarHeight(e)  BY <2>2, <2>3 DEF NoHeight
  <2>5. \A c \in End : wire'[c] = wire[c] \/ wire'[c] = <<>>  BY <1>0, <2>1
  <2> QED  BY <2>2, <2>4, <2>5, BelievesOne, NoneIn DEF Tells
<1>3. ASSUME NEW e \in End, Drop(e) PROVE Believes(sock') /\ Tells
  <2>1. PICK i \in DOMAIN wire[e] : wire' = [wire EXCEPT ![e] = RemoveAt(@, i)]  BY <1>3 DEF Drop
  <2>2. sock' = sock  BY <1>3 DEF Drop
  <2>3. wire[e] \in Seq(Sound)  BY <1>0
  <2>4. ToSet(RemoveAt(wire[e], i)) \subseteq ToSet(wire[e])  BY <2>3, RemovedSet
  <2>5. \A c \in End : ToSet(wire'[c]) \subseteq ToSet(wire[c])  BY <1>0, <2>1, <2>4
  <2> QED  BY <2>2, <2>5, BelievesSame DEF Tells
<1>4. ASSUME NEW l \in Link, Lifecycle(l) PROVE Believes(sock') /\ Tells
  <2>1. Out(l) \in End /\ In(l) \in End  BY DEF Out, In, End
  <2>2. CASE Dial(l)
    <3>1. sock' = [sock EXCEPT ![Out(l)] = Socket("dialing")] /\ wire' = wire  BY <2>2 DEF Dial
    <3>2. sock'[Out(l)].height = NoHeight
          /\ \A c \in End : c # Out(l) => sock'[c].height = sock[c].height
      BY <1>0, <2>1, <3>1 DEF Socket
    <3>3. FarHeight(Out(l)) \in Nat  BY <2>1, Across DEF Rising, FarHeight
    <3>4. sock'[Out(l)].height <= FarHeight(Out(l))  BY <3>2, <3>3 DEF NoHeight
    <3> QED  BY <2>1, <3>1, <3>2, <3>4, BelievesOne DEF Tells
  <2>3. CASE Accept(l)  BY <2>1, <2>3, GreetTrue DEF Accept
  <2>4. CASE Open(l)  BY <2>1, <2>4, GreetTrue DEF Open
  <2> QED  BY <1>4, <2>2, <2>3, <2>4 DEF Lifecycle
<1>5. ASSUME NEW l \in Fragile, Break(l) PROVE Believes(sock') /\ Tells
  <2>1. \A c \in End : sock'[c].height = sock[c].height  BY <1>0, <1>5 DEF Break, SockRec
  <2>2. \A c \in End : wire'[c] = wire[c] \/ wire'[c] = <<>>  BY <1>0, <1>5 DEF Break
  <2> QED  BY <2>1, <2>2, BelievesSame, NoneIn DEF Tells
<1>6. ASSUME NEW n \in Node, Expire(n) PROVE Believes(sock') /\ Tells
  BY <1>1, <1>6 DEF Expire
<1>7. CASE UNCHANGED vars  BY <1>1, <1>7 DEF vars
<1> QED  BY <1>2, <1>3, <1>4, <1>5, <1>6, <1>7

LEMMA MineTrue ==
  ASSUME Inductive, Truthful, Rising, NEW n \in Node, Mine(n)
  PROVE  Believes(sock') /\ Tells
<1>1. PICK b \in Blk \ mined : Mine(n)!(b)  BY DEF Mine
<1>2. PICK old : old = node[n]  OBVIOUS
<1> DEFINE nd == Extended(n, old, b)
           ends == Uninformed(n, b, sock)
           done == [nd EXCEPT !.recent = @ \cup {b}]
           out == Announcement(b, Height(nd), ends)
<1>3. /\ Follows(b, Tip(old)) /\ mined' = mined \cup {b} /\ node' = [node EXCEPT ![n] = done]
      /\ sock' = Announced(sock, b, ends) /\ wire' = Sent(wire, out)
  BY <1>1, <1>2
<1>4. sock \in [End -> SockRec] /\ wire \in [End -> Seq(Sound)] /\ NodesGood /\ NodeGood(n, old)
  BY <1>2 DEF Inductive, NodesGood
<1>5. NodeGood(n, old)' /\ Sound \subseteq Sound' /\ b \in mined'  BY <1>3, <1>4, Grown
<1>6. NodeGood(n, nd)' /\ Height(nd) \in Nat  BY <1>3, <1>5, Afterwards DEF ExtendsWell
<1>7. ends \in SUBSET EndsOf(n)  BY DEF Uninformed
<1> HIDE DEF nd, ends
<1>8. Believes(sock')
  <2>1. \A c \in End : sock'[c].height = sock[c].height  BY <1>3, <1>4, AnnouncedHeights
  <2> QED  BY <2>1, BelievesSame
<1>9. Height(nd) <= Height(node'[n])
  <2>1. done.blocks = nd.blocks /\ done.base = nd.base  BY <1>6 DEF NodeGood
  <2> HIDE DEF done
  <2>2. node'[n] = done  BY <1>3, <1>4, NodeSet
  <2>3. Height(node'[n]) = Height(nd)  BY <2>1, <2>2 DEF Height
  <2> QED  BY <1>6, <2>3
<1>10. Honest(out)  BY <1>7, <1>9, AnnouncementHonest
<1>11. wire \in [End -> Seq(Sound')] /\ out \in [End -> Seq(Sound')]
  <2>1. Seq(Sound) \subseteq Seq(Sound')  BY <1>5, SeqMonotonic
  <2>2. [type |-> "inv", hash |-> b, height |-> Height(nd)] \in Sound'
    BY <1>5, <1>6 DEF Sound, Message
  <2>3. out \in [End -> Seq(Sound')]  BY <2>2, EmptySeq DEF Announcement
  <2> QED  BY <1>4, <2>1, <2>3
<1> HIDE DEF out
<1>12. Tells
  <2> SUFFICES ASSUME NEW c \in End, NEW m \in ToSet(wire'[c])
               PROVE  m \in ToSet(wire[c]) \/ Reaches(m, Height(node'[At(Far(c))]))
    BY DEF Tells
  <2>1. m \in ToSet(wire[c]) \/ m \in ToSet(out[Far(c)])  BY <1>3, <1>11, SentContents
  <2> QED  BY <1>10, <2>1, Across DEF Honest
<1> QED  BY <1>8, <1>12

-----------------------------------------------------------------------------
LEMMA TruthfulInit ==
  ASSUME Even, Init
  PROVE  Truthful
<1>1. Inductive /\ Rooted  BY InitGood, RootedInit
<1>2. sock = [e \in End |-> Socket("none")] /\ wire = [e \in End |-> <<>>]  BY DEF Init, NetworkInit
<1>3. ASSUME NEW e \in End PROVE sock[e].height <= FarHeight(e) /\ wire[e] = <<>>
  <2>1. At(Far(e)) \in Node  BY Across
  <2>2. Plain(node[At(Far(e))]) /\ Grounded(node[At(Far(e))])
    BY <1>1, <2>1, GoodPlain DEF Inductive, NodesGood, Rooted
  <2>3. FarHeight(e) \in Nat  BY <2>2, HeightLevel DEF FarHeight
  <2>4. sock[e].height = NoHeight /\ wire[e] = <<>>  BY <1>2 DEF Socket
  <2> QED  BY <2>3, <2>4 DEF NoHeight
<1> QED  BY <1>3, NoneIn DEF Truthful

LEMMA TruthfulStep ==
  ASSUME Even, Inductive, Rooted, Truthful, [Next]_vars
  PROVE  Truthful'
<1>1. Inductive' /\ Rising  BY StepGood, HeightsRise
<1>2. ASSUME NEW e \in End, Handle(e) PROVE Believes(sock') /\ Tells
  BY <1>1, <1>2, HeadersTrue, RangesTrue, BlocksTrue, SnapshotsTrue DEF Handle
<1>3. Believes(sock') /\ Tells
  BY <1>1, <1>2, OthersTrue, MineTrue DEF Next
<1> QED  BY <1>1, <1>3, StaysTrue

(* What a node of network.ts believes of a peer's height, from whatever     *)
(* message and however late it came, is never more than the peer has, for   *)
(* any network, any chains of equally difficult blocks and any pruning:     *)
(* a pruned peer, whose headers are counted from its anchor on, is only     *)
(* ever thought lower than it is.                                           *)
THEOREM SyncHeightsReal ==
  ASSUME NEW CONSTANT high, EquallyDifficult(high)
  PROVE  Spec => []HeightsReal
<1>1. Even  BY DEF Even, Level
<1>2. Init => Inductive /\ Rooted /\ Truthful
  BY <1>1, InitGood, RootedInit, TruthfulInit
<1>3. (Inductive /\ Rooted /\ Truthful) /\ [Next]_vars => (Inductive /\ Rooted /\ Truthful)'
  BY <1>1, StepGood, RootedStep, TruthfulStep
<1>4. Truthful => HeightsReal  BY DEF Truthful, HeightsReal, FarHeight
<1> QED  BY <1>2, <1>3, <1>4, PTL DEF Spec

-----------------------------------------------------------------------------
(* Where nothing is dropped: what is on the wires between two nodes, and    *)
(* the turn of an owner of the sync.                                        *)

Types(s) == {m.type : m \in ToSet(s)}

\* What has the first type comes before what has the second.
InOrder(s, first, second) ==
  \A i, j \in DOMAIN s : s[i].type = second /\ s[j].type = first => ~ (i < j)

LEMMA TypesOf ==
  ASSUME NEW s
  PROVE  /\ \A i \in DOMAIN s : s[i].type \in Types(s)
         /\ \A type \in Types(s) : \E i \in DOMAIN s : s[i].type = type
BY DEF Types, ToSet

LEMMA TypesFew ==
  /\ Types(<<>>) = {}
  /\ \A y : Types(<<y>>) = {y.type}
BY NoneIn, OneIn DEF Types

LEMMA TypesJoined ==
  ASSUME NEW S, NEW s \in Seq(S), NEW t \in Seq(S)
  PROVE  Types(s \o t) = Types(s) \cup Types(t)
<1>1. ToSet(s \o t) = ToSet(s) \cup ToSet(t)  BY JoinedSet
<1> QED  BY <1>1 DEF Types

LEMMA TailOf ==
  ASSUME NEW S, NEW s \in Seq(S), s # <<>>
  PROVE  /\ Tail(s) \in Seq(S) /\ Head(s) = s[1] /\ 1 \in DOMAIN s
         /\ \A i \in DOMAIN Tail(s) : i \in Nat /\ i >= 1 /\ i + 1 \in DOMAIN s /\ Tail(s)[i] = s[i + 1]
         /\ \A j \in DOMAIN s : j = 1 \/ (j - 1 \in DOMAIN Tail(s) /\ Tail(s)[j - 1] = s[j])
<1>1. /\ Tail(s) \in Seq(S) /\ Len(s) \in Nat /\ Len(Tail(s)) = Len(s) - 1 /\ Head(s) = s[1]
      /\ \A i \in 1..Len(Tail(s)) : Tail(s)[i] = s[i + 1]
  BY HeadTailProperties
<1>2. DOMAIN s = 1..Len(s) /\ DOMAIN Tail(s) = 1..(Len(s) - 1)  BY <1>1
<1>3. Len(s) # 0  BY EmptySeq
<1>4. ASSUME NEW j \in DOMAIN s, j # 1 PROVE j - 1 \in DOMAIN Tail(s) /\ Tail(s)[j - 1] = s[j]
  <2>1. j - 1 \in 1..(Len(s) - 1) /\ (j - 1) + 1 = j  BY <1>1, <1>2, <1>4
  <2> QED  BY <1>1, <1>2, <2>1
<1>5. ASSUME NEW i \in DOMAIN Tail(s)
      PROVE  i \in Nat /\ i >= 1 /\ i + 1 \in DOMAIN s /\ Tail(s)[i] = s[i + 1]
  BY <1>1, <1>2
<1> QED  BY <1>1, <1>2, <1>3, <1>4, <1>5

LEMMA TailSet ==
  ASSUME NEW S, NEW s \in Seq(S), s # <<>>
  PROVE  ToSet(Tail(s)) \subseteq ToSet(s)
<1>1. \A i \in DOMAIN Tail(s) : i + 1 \in DOMAIN s /\ Tail(s)[i] = s[i + 1]  BY TailOf
<1> QED  BY <1>1 DEF ToSet

LEMMA TypesTail ==
  ASSUME NEW S, NEW s \in Seq(S), s # <<>>
  PROVE  /\ Types(Tail(s)) \subseteq Types(s)
         /\ \A type \in Types(s) : type = Head(s).type \/ type \in Types(Tail(s))
<1>1. ASSUME NEW type \in Types(Tail(s)) PROVE type \in Types(s)
  <2>1. PICK i \in DOMAIN Tail(s) : Tail(s)[i].type = type  BY TypesOf
  <2> QED  BY <2>1, TailOf, TypesOf
<1>2. ASSUME NEW type \in Types(s) PROVE type = Head(s).type \/ type \in Types(Tail(s))
  <2>1. PICK j \in DOMAIN s : s[j].type = type  BY TypesOf
  <2>2. j = 1 \/ (j - 1 \in DOMAIN Tail(s) /\ Tail(s)[j - 1] = s[j])  BY TailOf
  <2>3. CASE j = 1  BY <2>1, <2>3, TailOf
  <2>4. CASE j - 1 \in DOMAIN Tail(s) /\ Tail(s)[j - 1] = s[j]
    <3>1. Tail(s)[j - 1].type \in Types(Tail(s))  BY <2>4, TypesOf
    <3> QED  BY <2>1, <2>4, <3>1
  <2> QED  BY <2>2, <2>3, <2>4
<1> QED  BY <1>1, <1>2

LEMMA OrderTail ==
  ASSUME NEW S, NEW s \in Seq(S), s # <<>>, NEW first, NEW second, InOrder(s, first, second)
  PROVE  /\ InOrder(Tail(s), first, second)
         /\ Head(s).type = second => first \notin Types(Tail(s))
<1>1. ASSUME NEW i \in DOMAIN Tail(s), NEW j \in DOMAIN Tail(s),
             Tail(s)[i].type = second, Tail(s)[j].type = first, i < j
      PROVE  FALSE
  <2>1. /\ i \in Nat /\ i + 1 \in DOMAIN s /\ s[i + 1].type = second
        /\ j \in Nat /\ j + 1 \in DOMAIN s /\ s[j + 1].type = first
    BY <1>1, TailOf
  <2>2. i + 1 < j + 1  BY <1>1, <2>1
  <2> QED  BY <2>1, <2>2 DEF InOrder
<1>2. ASSUME Head(s).type = second, first \in Types(Tail(s)) PROVE FALSE
  <2>1. PICK j \in DOMAIN Tail(s) : Tail(s)[j].type = first  BY <1>2, TypesOf
  <2>2. /\ j \in Nat /\ j >= 1 /\ j + 1 \in DOMAIN s /\ s[j + 1].type = first
        /\ 1 \in DOMAIN s /\ s[1].type = second
    BY <1>2, <2>1, TailOf
  <2>3. 1 < j + 1  BY <2>2
  <2> QED  BY <2>2, <2>3 DEF InOrder
<1> QED  BY <1>1, <1>2 DEF InOrder

LEMMA OrderJoined ==
  ASSUME NEW S, NEW s \in Seq(S), NEW t \in Seq(S), NEW first, NEW second,
         InOrder(s, first, second), InOrder(t, first, second),
         second \notin Types(s) \/ first \notin Types(t)
  PROVE  InOrder(s \o t, first, second)
<1> DEFINE u == s \o t
<1>1. /\ Len(s) \in Nat /\ Len(t) \in Nat /\ DOMAIN u = 1..(Len(s) + Len(t))
      /\ DOMAIN s = 1..Len(s) /\ DOMAIN t = 1..Len(t)
      /\ \A i \in 1..(Len(s) + Len(t)) : u[i] = IF i <= Len(s) THEN s[i] ELSE t[i - Len(s)]
  BY ConcatProperties
<1> HIDE DEF u
<1>2. ASSUME NEW i \in DOMAIN u, NEW j \in DOMAIN u, u[i].type = second, u[j].type = first, i < j
      PROVE  FALSE
  <2>0. i \in Nat /\ j \in Nat /\ i >= 1 /\ j >= 1 /\ i <= Len(s) + Len(t) /\ j <= Len(s) + Len(t)  BY <1>1
  <2>1. CASE j <= Len(s)
    <3>1. i \in DOMAIN s /\ j \in DOMAIN s  BY <1>1, <1>2, <2>0, <2>1
    <3>2. u[i] = s[i] /\ u[j] = s[j]  BY <1>1, <1>2, <2>0, <2>1
    <3> QED  BY <1>2, <3>1, <3>2 DEF InOrder
  <2>2. CASE i <= Len(s) /\ ~ (j <= Len(s))
    <3>1. i \in DOMAIN s /\ j - Len(s) \in DOMAIN t  BY <1>1, <2>0, <2>2
    <3>2. u[i] = s[i] /\ u[j] = t[j - Len(s)]  BY <1>1, <2>0, <2>2
    <3> QED  BY <1>2, <3>1, <3>2, TypesOf
  <2>3. CASE ~ (i <= Len(s))
    <3>1. i - Len(s) \in DOMAIN t /\ j - Len(s) \in DOMAIN t  BY <1>1, <1>2, <2>0, <2>3
    <3>2. u[i] = t[i - Len(s)] /\ u[j] = t[j - Len(s)]  BY <1>1, <1>2, <2>0, <2>3
    <3>3. i - Len(s) < j - Len(s)  BY <1>1, <1>2, <2>0
    <3> QED  BY <1>2, <3>1, <3>2, <3>3 DEF InOrder
  <2> QED  BY <2>1, <2>2, <2>3
<1> QED  BY <1>2 DEF InOrder, u

LEMMA OrderFew ==
  /\ \A first, second : InOrder(<<>>, first, second)
  /\ \A y, first, second : InOrder(<<y>>, first, second)
BY DEF InOrder

-----------------------------------------------------------------------------
(* Closing: an end that is not open yet has sent nothing, only one that is  *)
(* not open any more has said "close", and one whose other side has left    *)
(* hears of it.                                                             *)

LinkGood(e) ==
  /\ sock[e].state \in {"none", "dialing"} =>
       wire[Far(e)] = <<>> /\ "headers" \notin Types(wire[e]) /\ "meta" \notin Types(wire[e])
  /\ "close" \in Types(wire[e]) => sock[Far(e)].state \in {"closing", "closed"}
  /\ sock[e].state = "open" /\ sock[Far(e)].state \in {"closing", "closed"} =>
       "close" \in Types(wire[e])

LinksGood == \A e \in End : LinkGood(e)

LEMMA TwoEnds ==
  ASSUME NEW e \in End
  PROVE  Far(e) \in End /\ Far(e) # e /\ Far(Far(e)) = e /\ At(Far(e)) # At(e)
<1>1. PICK l \in Link : e = Out(l) \/ e = In(l)  BY DEF End, Out, In
<1>2. Dialer[l] # Acceptor[l]  BY NetworkAssumption
<1> QED  BY <1>1, <1>2 DEF End, Far, Out, In, At

\* What is sent where nothing is lost.
Reply(x, msgs) == IF sock[x].state = "open" /\ sock[Far(x)].state # "closed" THEN msgs ELSE <<>>

(* The end takes a message of this type and answers with at most one: what  *)
(* the handlers of headers, ranges, metadata and closing have in common.    *)
Exchange(x, type, msgs) ==
  /\ Connected(x) /\ wire[x] # <<>> /\ Head(wire[x]).type = type
  /\ msgs \in Seq(Sound) /\ (msgs = <<>> \/ \E y : msgs = <<y>>)
  /\ Handled(x, Only(x, msgs))
  /\ \A c \in End : sock'[c].state = sock[c].state \/ (c = x /\ sock'[c].state = "closing")
  /\ type = "close" \/ "close" \in Types(msgs) => sock'[x].state = "closing"
  /\ sock'[x].state # sock[x].state => type = "close" \/ "close" \in Types(msgs)
  /\ "headers" \in Types(msgs) <=> type = "headers-request"
  /\ "meta" \in Types(msgs) => type = "meta-request"
  /\ type = "range-request" => "range" \in Types(msgs)
  /\ \A n \in Node : n # At(x) => node'[n] = node[n]

LEMMA Silent == \A x \in End : Only(x, <<>>) = Silence
BY DEF Only, Silence

LEMMA ExchangeWires ==
  ASSUME wire \in [End -> Seq(Sound)], NEW x \in End, NEW type, NEW msgs, Exchange(x, type, msgs)
  PROVE  /\ wire'[x] = Tail(wire[x]) /\ wire'[Far(x)] = wire[Far(x)] \o Reply(x, msgs)
         /\ \A c \in End : c # x /\ c # Far(x) => wire'[c] = wire[c]
         /\ Types(wire'[x]) \subseteq Types(wire[x])
         /\ \A t \in Types(wire[x]) : t = type \/ t \in Types(wire'[x])
         /\ Types(wire'[Far(x)]) = Types(wire[Far(x)]) \cup Types(Reply(x, msgs))
<1> DEFINE w == [wire EXCEPT ![x] = Tail(@)]
           out == Only(x, msgs)
<1>1. Far(x) \in End /\ Far(x) # x /\ Far(Far(x)) = x  BY TwoEnds
<1>2. wire' = Sent(w, out) /\ wire[x] # <<>> /\ msgs \in Seq(Sound)  BY DEF Exchange, Handled
<1>3. out[x] = msgs /\ \A c \in End : c # x => out[c] = <<>>  BY DEF Only, Silence
<1>4. Tail(wire[x]) \in Seq(Sound)  BY <1>2, TailOf
<1>5. w \in [End -> Seq(Sound)] /\ w[x] = Tail(wire[x]) /\ \A c \in End : c # x => w[c] = wire[c]
  BY <1>4
<1> HIDE DEF w, out
<1>6. \A c \in End : wire'[c] = IF sock[Far(c)].state = "open" /\ sock[c].state # "closed"
                                THEN w[c] \o out[Far(c)] ELSE w[c]
  BY <1>2 DEF Sent
<1>7. ASSUME NEW c \in End, c # Far(x) PROVE wire'[c] = w[c]
  <2>1. Far(c) \in End /\ Far(c) # x  BY <1>1, <1>7, TwoEnds
  <2>2. out[Far(c)] = <<>> /\ w[c] \in Seq(Sound)  BY <1>3, <1>5, <2>1
  <2> QED  BY <1>6, <2>2, ConcatEmptySeq
<1>8. wire'[Far(x)] = wire[Far(x)] \o Reply(x, msgs)
  <2>1. w[Far(x)] = wire[Far(x)] /\ w[Far(x)] \in Seq(Sound)  BY <1>1, <1>5
  <2> QED  BY <1>1, <1>3, <1>6, <2>1, ConcatEmptySeq DEF Reply
<1>9. Types(wire'[Far(x)]) = Types(wire[Far(x)]) \cup Types(Reply(x, msgs))
  <2>1. wire[Far(x)] \in Seq(Sound) /\ Reply(x, msgs) \in Seq(Sound)  BY <1>1, <1>2, EmptySeq DEF Reply
  <2> QED  BY <1>8, <2>1, TypesJoined
<1>10. /\ Types(Tail(wire[x])) \subseteq Types(wire[x])
       /\ \A t \in Types(wire[x]) : t = type \/ t \in Types(Tail(wire[x]))
  BY <1>2, TypesTail DEF Exchange
<1> QED  BY <1>1, <1>5, <1>7, <1>8, <1>9, <1>10

LEMMA LinksExchange ==
  ASSUME Inductive, LinksGood, NEW x \in End, NEW type, NEW msgs, Exchange(x, type, msgs)
  PROVE  LinksGood'
<1> DEFINE f == Far(x)
<1>1. wire \in [End -> Seq(Sound)]  BY DEF Inductive
<1>2. f \in End /\ f # x /\ Far(f) = x  BY TwoEnds
<1>3. /\ wire'[x] = Tail(wire[x]) /\ wire'[f] = wire[f] \o Reply(x, msgs)
      /\ \A c \in End : c # x /\ c # f => wire'[c] = wire[c]
      /\ Types(wire'[x]) \subseteq Types(wire[x])
      /\ \A t \in Types(wire[x]) : t = type \/ t \in Types(wire'[x])
      /\ Types(wire'[f]) = Types(wire[f]) \cup Types(Reply(x, msgs))
  BY <1>1, ExchangeWires
<1> DEFINE says(t) == t \in Types(msgs)
<1>4. /\ wire[x] # <<>> /\ Connected(x)
      /\ \A c \in End : sock'[c].state = sock[c].state \/ (c = x /\ sock'[c].state = "closing")
      /\ type = "close" \/ says("close") => sock'[x].state = "closing"
      /\ sock'[x].state # sock[x].state => type = "close" \/ says("close")
  BY DEF Exchange
<1>5. type \in Types(wire[x])
  <2>1. 1 \in DOMAIN wire[x] /\ Head(wire[x]) = wire[x][1] /\ Head(wire[x]).type = type
    BY <1>1, <1>4, TailOf DEF Exchange
  <2> QED  BY <2>1, TypesOf
<1>6. \A t : t \in Types(Reply(x, msgs)) => says(t)  BY TypesFew DEF Reply
<1> HIDE DEF f
<1>7. LinkGood(x) /\ LinkGood(f)  BY <1>2 DEF LinksGood
<1>8. LinkGood(x)'
  <2>1. sock'[x].state \in {"open", "closing"} /\ sock'[f].state = sock[f].state
    BY <1>2, <1>4 DEF Connected
  <2>2. sock'[x].state = "open" => sock[x].state = "open" /\ type # "close"  BY <1>2, <1>4
  <2> QED  BY <1>2, <1>3, <1>7, <2>1, <2>2 DEF LinkGood, f
<1>9. LinkGood(f)'
  <2>0. sock'[f].state = sock[f].state  BY <1>2, <1>4
  <2>1. sock[f].state \notin {"none", "dialing"}  BY <1>2, <1>4, <1>7 DEF LinkGood
  <2>2. ASSUME "close" \in Types(wire'[f]) PROVE sock'[x].state \in {"closing", "closed"}
    <3>1. CASE "close" \in Types(wire[f])  BY <1>2, <1>4, <1>7, <3>1 DEF LinkGood
    <3>2. CASE says("close")  BY <1>4, <3>2
    <3> QED  BY <1>3, <1>6, <2>2, <3>1, <3>2
  <2>3. ASSUME sock'[f].state = "open", sock'[x].state \in {"closing", "closed"}
        PROVE  "close" \in Types(wire'[f])
    <3>1. sock[f].state = "open"  BY <2>0, <2>3
    <3>2. CASE sock[x].state \in {"closing", "closed"}  BY <1>2, <1>3, <1>7, <3>1, <3>2 DEF LinkGood
    <3>3. CASE sock[x].state \notin {"closing", "closed"}
      <4>1. sock[x].state = "open" /\ sock'[x].state # sock[x].state  BY <1>4, <2>3, <3>3 DEF Connected
      <4>2. type # "close"  BY <1>2, <1>5, <1>7, <3>1 DEF LinkGood, f
      <4>3. says("close")  BY <1>4, <4>1, <4>2
      <4>4. Reply(x, msgs) = msgs  BY <3>1, <4>1 DEF Reply, f
      <4> QED  BY <1>3, <4>3, <4>4
    <3> QED  BY <3>2, <3>3
  <2> QED  BY <1>2, <2>0, <2>1, <2>2, <2>3 DEF LinkGood
<1>10. ASSUME NEW c \in End, c # x, c # f PROVE LinkGood(c)'
  <2>1. Far(c) \in End /\ Far(c) # x /\ Far(c) # f  BY <1>2, <1>10, TwoEnds
  <2>2. wire'[c] = wire[c] /\ wire'[Far(c)] = wire[Far(c)]
        /\ sock'[c].state = sock[c].state /\ sock'[Far(c)].state = sock[Far(c)].state
    BY <1>3, <1>4, <1>10, <2>1
  <2>3. LinkGood(c)  BY DEF LinksGood
  <2> QED  BY <2>2, <2>3 DEF LinkGood
<1> QED  BY <1>8, <1>9, <1>10 DEF LinksGood

\* What tells of blocks; a turn does not depend on it.
Chat == {"inv", "get", "compact"}

(* Nothing but what tells of blocks has come or gone, and no end or owner   *)
(* has changed.                                                             *)
Calm ==
  /\ \A c \in End :
       /\ sock'[c].state = sock[c].state
       /\ \A m \in ToSet(wire'[c]) : m \in ToSet(wire[c]) \/ m.type \in Chat
       /\ \A t : t \notin Chat => (t \in Types(wire'[c]) <=> t \in Types(wire[c]))
       /\ \A t, u : t \notin Chat /\ u \notin Chat /\ InOrder(wire[c], t, u) => InOrder(wire'[c], t, u)
       /\ wire[c] = <<>> /\ sock[Far(c)].state # "open" => wire'[c] = <<>>
  /\ \A n \in Node : node'[n].owner = node[n].owner /\ node'[n].boot = node[n].boot

\* A wire, perhaps without its first message.
Shorter(s, old) == s = old \/ (old # <<>> /\ Head(old).type \in Chat /\ s = Tail(old))

LEMMA ChatSent ==
  ASSUME NEW S, NEW w \in [End -> Seq(S)], NEW out \in [End -> Seq(S)], wire \in [End -> Seq(S)],
         \A c \in End : Shorter(w[c], wire[c]), \A c \in End : Types(out[c]) \subseteq Chat,
         wire' = Sent(w, out), \A c \in End : sock'[c].state = sock[c].state,
         \A n \in Node : node'[n].owner = node[n].owner /\ node'[n].boot = node[n].boot
  PROVE  Calm
<1> SUFFICES ASSUME NEW c \in End
             PROVE  /\ \A m \in ToSet(wire'[c]) : m \in ToSet(wire[c]) \/ m.type \in Chat
                    /\ \A t : t \notin Chat => (t \in Types(wire'[c]) <=> t \in Types(wire[c]))
                    /\ \A t, u : t \notin Chat /\ u \notin Chat /\ InOrder(wire[c], t, u)
                                   => InOrder(wire'[c], t, u)
                    /\ wire[c] = <<>> /\ sock[Far(c)].state # "open" => wire'[c] = <<>>
  BY DEF Calm
<1> DEFINE r == IF sock[Far(c)].state = "open" /\ sock[c].state # "closed" THEN out[Far(c)] ELSE <<>>
<1>1. Far(c) \in End  BY TwoEnds
<1>2. w[c] \in Seq(S) /\ wire[c] \in Seq(S) /\ Shorter(w[c], wire[c])  OBVIOUS
<1>3. r \in Seq(S) /\ Types(r) \subseteq Chat  BY <1>1, EmptySeq, TypesFew
<1>4. wire'[c] = w[c] \o r
  <2>1. wire'[c] = IF sock[Far(c)].state = "open" /\ sock[c].state # "closed"
                   THEN w[c] \o out[Far(c)] ELSE w[c]
    BY DEF Sent
  <2> QED  BY <1>2, <2>1, ConcatEmptySeq
<1>5. sock[Far(c)].state # "open" => r = <<>>  OBVIOUS
<1> HIDE DEF r
<1>6. ASSUME NEW t, t \notin Chat PROVE t \in Types(w[c]) <=> t \in Types(wire[c])
  BY <1>2, <1>6, TypesTail DEF Shorter
<1>7. ASSUME NEW t, NEW u, t \notin Chat, u \notin Chat, InOrder(wire[c], t, u)
      PROVE  InOrder(wire'[c], t, u)
  <2>1. InOrder(w[c], t, u)
    <3>1. CASE w[c] = wire[c]  BY <1>7, <3>1
    <3>2. CASE wire[c] # <<>> /\ w[c] = Tail(wire[c])
      <4>1. InOrder(Tail(wire[c]), t, u)  BY <1>2, <1>7, <3>2, OrderTail
      <4> QED  BY <3>2, <4>1
    <3> QED  BY <1>2, <3>1, <3>2 DEF Shorter
  <2>2. t \notin Types(r)  BY <1>3, <1>7
  <2>3. InOrder(r, t, u)  BY <2>2, TypesOf DEF InOrder
  <2> QED  BY <1>2, <1>3, <1>4, <2>1, <2>2, <2>3, OrderJoined
<1>8. Types(wire'[c]) = Types(w[c]) \cup Types(r)  BY <1>2, <1>3, <1>4, TypesJoined
<1>9. ASSUME wire[c] = <<>>, sock[Far(c)].state # "open" PROVE wire'[c] = <<>>
  <2>1. w[c] = <<>> /\ r = <<>>  BY <1>2, <1>5, <1>9 DEF Shorter
  <2> QED  BY <1>2, <1>4, <2>1, ConcatEmptySeq
<1>10. ASSUME NEW m \in ToSet(wire'[c]) PROVE m \in ToSet(wire[c]) \/ m.type \in Chat
  <2>1. ToSet(wire'[c]) = ToSet(w[c]) \cup ToSet(r)  BY <1>2, <1>3, <1>4, JoinedSet
  <2>2. CASE m \in ToSet(w[c])  BY <1>2, <2>2, TailSet DEF Shorter
  <2>3. CASE m \in ToSet(r)  BY <1>3, <2>3 DEF Types
  <2> QED  BY <2>1, <2>2, <2>3
<1> QED  BY <1>3, <1>6, <1>7, <1>8, <1>9, <1>10

LEMMA CalmStill ==
  ASSUME wire' = wire, \A c \in End : sock'[c].state = sock[c].state,
         \A n \in Node : node'[n].owner = node[n].owner /\ node'[n].boot = node[n].boot
  PROVE  Calm
BY DEF Calm

LEMMA LinksCalm ==
  ASSUME LinksGood, Calm
  PROVE  LinksGood'
<1> SUFFICES ASSUME NEW e \in End PROVE LinkGood(e)'  BY DEF LinksGood
<1>1. Far(e) \in End /\ Far(Far(e)) = e  BY TwoEnds
<1>2. LinkGood(e)  BY DEF LinksGood
<1>3. {"headers", "meta", "close"} \cap Chat = {}  BY DEF Chat
<1>4. /\ sock'[e].state = sock[e].state /\ sock'[Far(e)].state = sock[Far(e)].state
      /\ \A t \in {"headers", "meta", "close"} : t \in Types(wire'[e]) <=> t \in Types(wire[e])
  BY <1>1, <1>3 DEF Calm
<1>5. wire[Far(e)] = <<>> /\ sock[e].state # "open" => wire'[Far(e)] = <<>>  BY <1>1 DEF Calm
<1> QED  BY <1>2, <1>4, <1>5 DEF LinkGood

\* The two ends of the link that changes, and the others.
LEMMA LinksAt ==
  ASSUME LinksGood, NEW x \in End, LinkGood(x)', LinkGood(Far(x))',
         \A c \in End : c # x /\ c # Far(x) =>
           wire'[c] = wire[c] /\ sock'[c].state = sock[c].state
  PROVE  LinksGood'
<1> SUFFICES ASSUME NEW c \in End, c # x, c # Far(x) PROVE LinkGood(c)'  BY DEF LinksGood
<1>1. Far(c) \in End /\ Far(c) # x /\ Far(c) # Far(x)  BY TwoEnds
<1>2. wire'[c] = wire[c] /\ wire'[Far(c)] = wire[Far(c)]
      /\ sock'[c].state = sock[c].state /\ sock'[Far(c)].state = sock[Far(c)].state
  BY <1>1
<1> QED  BY <1>2 DEF LinksGood, LinkGood

LEMMA LinksClose ==
  ASSUME Inductive, LinksGood, NEW x \in End, Close(x)
  PROVE  LinksGood'
<1>0. sock \in [End -> SockRec] /\ wire \in [End -> Seq(Sound)]  BY DEF Inductive
<1>1. Far(x) \in End /\ Far(x) # x /\ Far(Far(x)) = x  BY TwoEnds
<1>2. sock[x].state = "closing" /\ sock' = [sock EXCEPT ![x] = Socket("closed")]
      /\ wire' = [wire EXCEPT ![x] = <<>>]
  BY DEF Close
<1>3. /\ sock'[x].state = "closed" /\ wire'[x] = <<>>
      /\ \A c \in End : c # x => sock'[c] = sock[c] /\ wire'[c] = wire[c]
  BY <1>0, <1>2 DEF Socket
<1>4. LinkGood(Far(x))  BY <1>1 DEF LinksGood
<1>5. LinkGood(x)'  BY <1>3, TypesFew DEF LinkGood
<1>6. LinkGood(Far(x))'
  <2>1. wire'[Far(x)] = wire[Far(x)] /\ sock'[Far(x)] = sock[Far(x)]  BY <1>1, <1>3
  <2> QED  BY <1>1, <1>2, <1>3, <1>4, <2>1 DEF LinkGood
<1> QED  BY <1>3, <1>5, <1>6, LinksAt

\* What an end says first.
LEMMA GreetWires ==
  ASSUME Inductive, LinksGood, NEW x \in End, sock[x].state \in {"none", "dialing"}, Greet(x)
  PROVE  /\ sock'[x].state = "open" /\ \A c \in End : c # x => sock'[c] = sock[c]
         /\ \A c \in End : c # Far(x) => wire'[c] = wire[c]
         /\ wire[Far(x)] = <<>> /\ wire'[Far(x)] \in Seq(Sound)
         /\ "headers-request" \in Types(wire'[Far(x)])
         /\ Types(wire'[Far(x)]) \subseteq {"headers-request", "meta-request"}
         /\ InOrder(wire'[Far(x)], "headers-request", "meta-request")
         /\ node' = [node EXCEPT ![At(x)] = AskMeta(node[At(x)], x).node]
<1> DEFINE sends == AskMeta(node[At(x)], x).sends
           first == <<[type |-> "headers-request"]>>
           f == Far(x)
<1>0. sock \in [End -> SockRec] /\ wire \in [End -> Seq(Sound)] /\ f \in End  BY TwoEnds DEF Inductive
<1>1. /\ sock' = [sock EXCEPT ![x] = Socket("open")]
      /\ wire' = [wire EXCEPT ![f] = (@ \o first) \o sends]
      /\ node' = [node EXCEPT ![At(x)] = AskMeta(node[At(x)], x).node]
  BY DEF Greet
<1>2. first \in Seq(Sound) /\ sends \in Seq(Sound)
  <2>1. [type |-> "headers-request"] \in Sound  BY DEF Sound, Message
  <2>2. NodeGood(At(x), node[At(x)]) /\ x \in EndsOf(At(x)) /\ At(x) \in Node  BY NodeOf
  <2> QED  BY <2>1, <2>2, OneMessage, AskMetaGood
<1>3. Types(first) = {"headers-request"} /\ Types(sends) \subseteq {"meta-request"}
      /\ InOrder(first, "headers-request", "meta-request")
  BY TypesFew, OrderFew DEF AskMeta
<1>4. InOrder(sends, "headers-request", "meta-request")
  <2>1. "headers-request" \notin Types(sends)  BY <1>3
  <2> QED  BY <2>1, TypesOf DEF InOrder
<1>5. wire[f] = <<>>  BY DEF LinksGood, LinkGood
<1> HIDE DEF first, sends, f
<1>6. wire'[f] = first \o sends  BY <1>0, <1>1, <1>2, <1>5, ConcatEmptySeq
<1>7. Types(wire'[f]) = Types(first) \cup Types(sends)  BY <1>2, <1>6, TypesJoined
<1>8. InOrder(wire'[f], "headers-request", "meta-request")
  <2>1. "meta-request" \notin Types(first)  BY <1>3
  <2> QED  BY <1>2, <1>3, <1>4, <1>6, <2>1, OrderJoined
<1>9. wire'[f] \in Seq(Sound)  BY <1>2, <1>6, ConcatProperties
<1>10. sock'[x].state = "open" /\ \A c \in End : c # x => sock'[c] = sock[c]
  BY <1>0, <1>1 DEF Socket
<1> QED  BY <1>0, <1>1, <1>3, <1>5, <1>7, <1>8, <1>9, <1>10 DEF f

LEMMA LinksGreet ==
  ASSUME Inductive, LinksGood, NEW x \in End, sock[x].state \in {"none", "dialing"},
         sock[Far(x)].state \in {"dialing", "open"}, Greet(x)
  PROVE  LinksGood'
<1>1. Far(x) \in End /\ Far(x) # x /\ Far(Far(x)) = x  BY TwoEnds
<1>2. LinkGood(x) /\ LinkGood(Far(x))  BY <1>1 DEF LinksGood
<1>3. /\ sock'[x].state = "open" /\ sock'[Far(x)] = sock[Far(x)] /\ wire'[x] = wire[x]
      /\ Types(wire'[Far(x)]) \subseteq {"headers-request", "meta-request"}
      /\ \A c \in End : c # x /\ c # Far(x) => wire'[c] = wire[c] /\ sock'[c].state = sock[c].state
  BY <1>1, GreetWires
<1>4. LinkGood(x)'  BY <1>2, <1>3 DEF LinkGood
<1>5. LinkGood(Far(x))'  BY <1>1, <1>2, <1>3 DEF LinkGood
<1> QED  BY <1>3, <1>4, <1>5, LinksAt

LEMMA LinksDial ==
  ASSUME Inductive, LinksGood, NEW l \in Link, Dial(l)
  PROVE  LinksGood'
<1> DEFINE x == Out(l)
<1>0. x \in End /\ sock \in [End -> SockRec]  BY DEF Out, End, Inductive
<1>1. Far(x) \in End /\ Far(x) # x /\ Far(Far(x)) = x  BY <1>0, TwoEnds
<1>2. sock[x].state = "none" /\ sock' = [sock EXCEPT ![x] = Socket("dialing")] /\ wire' = wire
  BY DEF Dial
<1>3. sock'[x].state = "dialing" /\ \A c \in End : c # x => sock'[c] = sock[c]
  BY <1>0, <1>2 DEF Socket
<1> HIDE DEF x
<1>4. LinkGood(x) /\ LinkGood(Far(x))  BY <1>0, <1>1 DEF LinksGood
<1>5. LinkGood(x)'  BY <1>1, <1>2, <1>3, <1>4 DEF LinkGood
<1>6. LinkGood(Far(x))'
  <2>1. sock'[Far(x)] = sock[Far(x)]  BY <1>1, <1>3
  <2> QED  BY <1>1, <1>2, <1>3, <1>4, <2>1 DEF LinkGood
<1> QED  BY <1>0, <1>2, <1>3, <1>5, <1>6, LinksAt

LEMMA BreakEnds ==
  ASSUME Inductive, NEW l \in Link, Break(l)
  PROVE  LET x == Out(l)
             y == In(l)
         IN /\ x \in End /\ y \in End /\ Far(x) = y /\ Far(y) = x
            /\ wire'[x] = <<>> /\ wire'[y] = <<>>
            /\ sock'[x].state = IF sock[x].state = "dialing" THEN "closed"
                                ELSE IF sock[x].state = "open" THEN "closing" ELSE sock[x].state
            /\ sock'[y].state = IF sock[y].state = "none" THEN "closed"
                                ELSE IF sock[y].state = "open" THEN "closing" ELSE sock[y].state
            /\ \A c \in End : c # x /\ c # y => wire'[c] = wire[c] /\ sock'[c] = sock[c]
<1> DEFINE x == Out(l)
           y == In(l)
<1>0. x \in End /\ y \in End /\ x # y /\ Far(x) = y /\ Far(y) = x
      /\ sock \in [End -> SockRec] /\ wire \in [End -> Seq(Sound)]
  BY DEF Out, In, Far, End, Inductive
<1>1. /\ wire' = [wire EXCEPT ![x] = <<>>, ![y] = <<>>]
      /\ sock' = [sock EXCEPT
           ![x].state = IF @ = "dialing" THEN "closed" ELSE IF @ = "open" THEN "closing" ELSE @,
           ![y].state = IF @ = "none" THEN "closed" ELSE IF @ = "open" THEN "closing" ELSE @]
  BY DEF Break
<1> HIDE DEF x, y
<1>2. wire'[x] = <<>> /\ wire'[y] = <<>> /\ \A c \in End : c # x /\ c # y => wire'[c] = wire[c]
  BY <1>0, <1>1
<1>3. sock'[x].state = IF sock[x].state = "dialing" THEN "closed"
                       ELSE IF sock[x].state = "open" THEN "closing" ELSE sock[x].state
  BY <1>0, <1>1 DEF SockRec
<1>4. sock'[y].state = IF sock[y].state = "none" THEN "closed"
                       ELSE IF sock[y].state = "open" THEN "closing" ELSE sock[y].state
  BY <1>0, <1>1 DEF SockRec
<1>5. \A c \in End : c # x /\ c # y => sock'[c] = sock[c]  BY <1>0, <1>1
<1> QED  BY <1>0, <1>2, <1>3, <1>4, <1>5 DEF x, y

LEMMA LinksBreak ==
  ASSUME Inductive, LinksGood, NEW l \in Link, Break(l)
  PROVE  LinksGood'
<1> DEFINE x == Out(l)
           y == In(l)
<1>1. /\ x \in End /\ y \in End /\ Far(x) = y /\ Far(y) = x
      /\ wire'[x] = <<>> /\ wire'[y] = <<>>
      /\ sock'[x].state # "open" /\ sock'[y].state # "open"
      /\ \A c \in End : c # x /\ c # y => wire'[c] = wire[c] /\ sock'[c] = sock[c]
  BY BreakEnds
<1> HIDE DEF x, y
<1>2. LinkGood(x)' /\ LinkGood(y)'  BY <1>1, TypesFew DEF LinkGood
<1> QED  BY <1>1, <1>2, LinksAt

-----------------------------------------------------------------------------
(* The turn of a node's only peer.                                          *)

(* While a node has nothing but genesis it asks for a snapshot too, and     *)
(* tries it if headers find the bootstrap idle: then nobody is asked for    *)
(* blocks.  To the only peer the headers are asked for first, so they are   *)
(* answered first, and the metadata is waited for until then.               *)
HeadersFirst(e) ==
  /\ InOrder(wire[e], "headers", "meta")
  /\ InOrder(wire[Far(e)], "headers-request", "meta-request")
  /\ "meta" \in Types(wire[e]) => "headers-request" \notin Types(wire[Far(e)])
  /\ "headers" \in Types(wire[e]) \/ "headers-request" \in Types(wire[Far(e)])
       => node[At(e)].boot.status # "idle"

TurnGood(e) ==
  OnlyPeer(e) =>
    /\ sock[e].state \in {"none", "dialing"} => node[At(e)].owner = NoPeer
    /\ Eligible(node[At(e)]) => HeadersFirst(e)
    /\ IsOwner(e) => Answering(e) \/ sock[e].state = "closing"

TurnsGood == \A e \in End : TurnGood(e)

LEMMA AnsweringTypes ==
  ASSUME NEW e \in End
  PROVE  Answering(e) <=> \/ {"headers", "range", "close"} \cap Types(wire[e]) # {}
                          \/ {"headers-request", "range-request"} \cap Types(wire[Far(e)]) # {}
BY DEF Answering, Types

LEMMA AnsweringTypesNext ==
  ASSUME NEW e \in End
  PROVE  Answering(e)' <=> \/ {"headers", "range", "close"} \cap Types(wire'[e]) # {}
                           \/ {"headers-request", "range-request"} \cap Types(wire'[Far(e)]) # {}
BY DEF Answering, Types

\* No end goes back to where it has not been dialled, or is opened again.
Onward == \A c \in End : /\ sock'[c].state = "none" => sock[c].state = "none"
                         /\ sock[c].state = "closed" => sock'[c].state = "closed"

\* Chains do not get lower.
StillLow == \A n \in Node : Eligible(node'[n]) => Eligible(node[n])

LEMMA LowBefore ==
  ASSUME Inductive, Rising
  PROVE  StillLow
<1> SUFFICES ASSUME NEW n \in Node, Eligible(node'[n]) PROVE Eligible(node[n])  BY DEF StillLow
<1>1. NodeGood(n, node[n])  BY DEF Inductive, NodesGood
<1>2. node[n].base \in Nat /\ Len(node[n].blocks) \in Nat /\ Len(node[n].blocks) >= 1
  BY <1>1, RunFacts DEF NodeGood
<1>3. Height(node[n]) \in Nat /\ Height(node'[n]) \in Nat /\ Height(node[n]) <= Height(node'[n])
      /\ Height(node'[n]) <= 0
  BY DEF Rising, Eligible
<1>4. Height(node[n]) <= 0  BY <1>3
<1>5. node[n].base <= Height(node[n])  BY <1>2 DEF Height
<1> QED  BY <1>2, <1>3, <1>4, <1>5 DEF Eligible

LEMMA OnlyBefore ==
  ASSUME Onward, NEW e \in End, OnlyPeer(e)'
  PROVE  OnlyPeer(e) /\ sock[e].state # "closed" /\ \A x \in EndsOf(At(e)) : x # e => sock[x].state = "none"
BY DEF Onward, OnlyPeer, EndsOf

\* The step does not touch the link, but for the end's state, nor the node.
LEMMA TurnStill ==
  ASSUME TurnsGood, Onward, NEW e \in End,
         wire'[e] = wire[e], wire'[Far(e)] = wire[Far(e)],
         sock'[e].state \in {"none", "dialing"} => sock[e].state \in {"none", "dialing"},
         sock[e].state = "closing" => sock'[e].state \in {"closing", "closed"},
         OnlyPeer(e)' => node'[At(e)] = node[At(e)]
  PROVE  TurnGood(e)'
<1> SUFFICES ASSUME OnlyPeer(e)'
             PROVE  /\ sock'[e].state \in {"none", "dialing"} => node'[At(e)].owner = NoPeer
                    /\ Eligible(node'[At(e)]) => HeadersFirst(e)'
                    /\ IsOwner(e)' => Answering(e)' \/ sock'[e].state = "closing"
  BY DEF TurnGood
<1>1. OnlyPeer(e) /\ TurnGood(e) /\ sock'[e].state # "closed"  BY OnlyBefore DEF TurnsGood, OnlyPeer
<1>2. node'[At(e)] = node[At(e)]  OBVIOUS
<1>3. HeadersFirst(e) => HeadersFirst(e)'  BY <1>2 DEF HeadersFirst
<1>4. IsOwner(e)' => IsOwner(e)  BY <1>2 DEF IsOwner
<1>5. Answering(e) => Answering(e)'  BY AnsweringTypes, AnsweringTypesNext
<1> QED  BY <1>1, <1>2, <1>3, <1>4, <1>5 DEF TurnGood

LEMMA TurnsCalm ==
  ASSUME TurnsGood, Calm, StillLow
  PROVE  TurnsGood'
<1> SUFFICES ASSUME NEW e \in End, OnlyPeer(e)'
             PROVE  /\ sock'[e].state \in {"none", "dialing"} => node'[At(e)].owner = NoPeer
                    /\ Eligible(node'[At(e)]) => HeadersFirst(e)'
                    /\ IsOwner(e)' => Answering(e)' \/ sock'[e].state = "closing"
  BY DEF TurnsGood, TurnGood
<1>1. Onward  BY DEF Calm, Onward
<1>2. OnlyPeer(e) /\ TurnGood(e) /\ Far(e) \in End /\ At(e) \in Node
  BY <1>1, OnlyBefore, Across DEF TurnsGood
<1>3. node'[At(e)].owner = node[At(e)].owner /\ node'[At(e)].boot = node[At(e)].boot
      /\ sock'[e].state = sock[e].state
  BY <1>2 DEF Calm
<1>4. \A t \in {"headers", "range", "close", "meta", "headers-request", "range-request", "meta-request"} :
        t \notin Chat
  BY DEF Chat
<1>5. \A c \in {e, Far(e)} : \A t : t \notin Chat => (t \in Types(wire'[c]) <=> t \in Types(wire[c]))
  BY <1>2 DEF Calm
<1>6. \A c \in {e, Far(e)} : \A t, u :
        t \notin Chat /\ u \notin Chat /\ InOrder(wire[c], t, u) => InOrder(wire'[c], t, u)
  BY <1>2 DEF Calm
<1>7. Eligible(node'[At(e)]) => HeadersFirst(e)'
  BY <1>2, <1>3, <1>4, <1>5, <1>6 DEF StillLow, TurnGood, HeadersFirst
<1>8. IsOwner(e)' => Answering(e)' \/ sock'[e].state = "closing"
  BY <1>2, <1>3, <1>4, <1>5, AnsweringTypes, AnsweringTypesNext DEF TurnGood, IsOwner
<1> QED  BY <1>2, <1>3, <1>7, <1>8 DEF TurnGood

(* What an exchange with the only peer does to its turn and to the node's   *)
(* bootstrap.                                                               *)
Renewed(x, type, msgs) ==
  OnlyPeer(x) =>
    /\ node'[At(x)].owner = Label(x) /\ (~ IsOwner(x) \/ type \in {"headers", "range", "close"})
         => sock'[x].state = "closing" \/ {"headers-request", "range-request"} \cap Types(msgs) # {}
    /\ "headers-request" \in Types(msgs) => ~ Eligible(node'[At(x)])
    /\ "meta-request" \notin Types(msgs)
    /\ node'[At(x)].boot = node[At(x)].boot \/ type = "meta"

\* Its own end has taken the message.
LEMMA TurnHere ==
  ASSUME Inductive, LinksGood, TurnsGood, StillLow, NEW x \in End, NEW type, NEW msgs,
         Exchange(x, type, msgs), Renewed(x, type, msgs), Onward
  PROVE  TurnGood(x)'
<1> SUFFICES ASSUME OnlyPeer(x)'
             PROVE  /\ sock'[x].state \in {"none", "dialing"} => node'[At(x)].owner = NoPeer
                    /\ Eligible(node'[At(x)]) => HeadersFirst(x)'
                    /\ IsOwner(x)' => Answering(x)' \/ sock'[x].state = "closing"
  BY DEF TurnGood
<1> DEFINE f == Far(x)
<1>0. wire \in [End -> Seq(Sound)]  BY DEF Inductive
<1>1. OnlyPeer(x) /\ TurnGood(x) /\ sock'[x].state # "closed" /\ f \in End /\ At(x) \in Node
  BY OnlyBefore, Across DEF TurnsGood, OnlyPeer
<1>2. /\ wire'[x] = Tail(wire[x]) /\ wire'[f] = wire[f] \o Reply(x, msgs)
      /\ Types(wire'[x]) \subseteq Types(wire[x])
      /\ \A t \in Types(wire[x]) : t = type \/ t \in Types(wire'[x])
      /\ Types(wire'[f]) = Types(wire[f]) \cup Types(Reply(x, msgs))
  BY <1>0, ExchangeWires
<1>3. /\ wire[x] # <<>> /\ Head(wire[x]).type = type /\ sock[x].state \in {"open", "closing"}
      /\ sock'[x].state \in {sock[x].state, "closing"}
      /\ type = "close" => sock'[x].state = "closing"
      /\ wire[x] \in Seq(Sound) /\ wire[f] \in Seq(Sound) /\ Reply(x, msgs) \in Seq(Sound)
      /\ (Reply(x, msgs) = <<>> \/ \E y : Reply(x, msgs) = <<y>>)
  BY <1>0, <1>1, EmptySeq DEF Exchange, Connected, Reply
<1>4. Types(Reply(x, msgs)) \subseteq Types(msgs)  BY TypesFew DEF Reply
<1>5. ASSUME Eligible(node'[At(x)]) PROVE HeadersFirst(x)'
  <2>1. HeadersFirst(x)  BY <1>1, <1>5 DEF StillLow, TurnGood
  <2>2. "headers-request" \notin Types(Reply(x, msgs)) /\ "meta-request" \notin Types(Reply(x, msgs))
    BY <1>1, <1>4, <1>5 DEF Renewed
  <2>3. InOrder(wire'[x], "headers", "meta") /\ (type = "meta" => "headers" \notin Types(wire'[x]))
    <3>1. InOrder(wire[x], "headers", "meta")  BY <2>1 DEF HeadersFirst
    <3>2. /\ InOrder(Tail(wire[x]), "headers", "meta")
          /\ Head(wire[x]).type = "meta" => "headers" \notin Types(Tail(wire[x]))
      BY <1>3, <3>1, OrderTail
    <3> QED  BY <1>2, <1>3, <3>2
  <2>4. InOrder(wire'[f], "headers-request", "meta-request")
    <3>1. InOrder(wire[f], "headers-request", "meta-request")  BY <2>1 DEF HeadersFirst
    <3>2. InOrder(Reply(x, msgs), "headers-request", "meta-request")  BY <1>3, OrderFew
    <3>3. InOrder(wire[f] \o Reply(x, msgs), "headers-request", "meta-request")
      BY <1>3, <2>2, <3>1, <3>2, OrderJoined
    <3> QED  BY <1>2, <3>3
  <2>5. "headers-request" \in Types(wire'[f]) => "headers-request" \in Types(wire[f])  BY <1>2, <2>2
  <2>6. type = "meta" => "headers-request" \notin Types(wire'[f])
    <3>1. type \in Types(wire[x])
      <4>1. 1 \in DOMAIN wire[x] /\ wire[x][1].type = type  BY <1>3, TailOf
      <4> QED  BY <4>1, TypesOf
    <3> QED  BY <2>1, <2>5, <3>1 DEF HeadersFirst
  <2>7. node'[At(x)].boot = node[At(x)].boot \/ type = "meta"  BY <1>1 DEF Renewed
  <2> HIDE DEF f
  <2> QED  BY <1>2, <2>1, <2>3, <2>4, <2>5, <2>6, <2>7 DEF HeadersFirst, f
<1>6. ASSUME IsOwner(x)' PROVE Answering(x)' \/ sock'[x].state = "closing"
  <2>1. node'[At(x)].owner = Label(x)  BY <1>6 DEF IsOwner
  <2>2. CASE IsOwner(x) /\ type \notin {"headers", "range", "close"}
    <3>1. Answering(x) \/ sock[x].state = "closing"  BY <1>1, <2>2 DEF TurnGood
    <3>2. Answering(x) => Answering(x)'
      BY <1>2, <2>2, AnsweringTypes, AnsweringTypesNext
    <3> QED  BY <1>3, <3>1, <3>2
  <2>3. CASE ~ (IsOwner(x) /\ type \notin {"headers", "range", "close"})
    <3>1. sock'[x].state = "closing" \/ {"headers-request", "range-request"} \cap Types(msgs) # {}
      BY <1>1, <2>1, <2>3 DEF Renewed
    <3>2. CASE Reply(x, msgs) = msgs
      BY <1>2, <3>1, <3>2, AnsweringTypesNext
    <3>3. CASE sock[x].state = "closing"  BY <1>3, <3>3
    <3>4. CASE sock[x].state = "open" /\ sock[f].state = "closed"
      <4>1. "close" \in Types(wire[x])  BY <3>4 DEF LinksGood, LinkGood
      <4>2. type = "close" \/ "close" \in Types(wire'[x])  BY <1>2, <4>1
      <4> QED  BY <1>3, <4>2, AnsweringTypesNext
    <3> QED  BY <1>3, <3>2, <3>3, <3>4 DEF Reply
  <2> QED  BY <2>2, <2>3
<1>7. sock'[x].state \notin {"none", "dialing"}  BY <1>3
<1> QED  BY <1>5, <1>6, <1>7

\* What a closing peer has been told, or its owner is about to be.
LEMMA Leaving ==
  ASSUME LinksGood, TurnsGood, NEW e \in End, OnlyPeer(e), IsOwner(e),
         sock[Far(e)].state \in {"closing", "closed"},
         sock[e].state \in {"none", "dialing", "open", "closing", "closed"}
  PROVE  sock[e].state = "closing" \/ (sock[e].state = "open" /\ "close" \in Types(wire[e]))
<1>1. sock[e].state # "closed" /\ sock[e].state \notin {"none", "dialing"}
  BY Ends DEF OnlyPeer, TurnsGood, TurnGood, IsOwner
<1>2. sock[e].state = "open" => "close" \in Types(wire[e])  BY DEF LinksGood, LinkGood
<1> QED  BY <1>1, <1>2

LEMMA StateOf ==
  ASSUME Inductive, NEW e \in End
  PROVE  sock[e].state \in {"none", "dialing", "open", "closing", "closed"}
BY DEF Inductive, SockRec

\* The other end has taken a message, and answers it.
LEMMA TurnThere ==
  ASSUME Inductive, LinksGood, TurnsGood, StillLow, NEW e \in End, NEW type, NEW msgs,
         Exchange(Far(e), type, msgs), Onward
  PROVE  TurnGood(e)'
<1> SUFFICES ASSUME OnlyPeer(e)'
             PROVE  /\ sock'[e].state \in {"none", "dialing"} => node'[At(e)].owner = NoPeer
                    /\ Eligible(node'[At(e)]) => HeadersFirst(e)'
                    /\ IsOwner(e)' => Answering(e)' \/ sock'[e].state = "closing"
  BY DEF TurnGood
<1> DEFINE f == Far(e)
<1>0. wire \in [End -> Seq(Sound)]  BY DEF Inductive
<1>1. OnlyPeer(e) /\ TurnGood(e) /\ sock[e].state # "closed" /\ At(e) \in Node
      /\ f \in End /\ f # e /\ Far(f) = e /\ At(f) # At(e)
  BY OnlyBefore, Across, TwoEnds DEF TurnsGood
<1>2. /\ wire'[f] = Tail(wire[f]) /\ wire'[e] = wire[e] \o Reply(f, msgs)
      /\ Types(wire'[f]) \subseteq Types(wire[f])
      /\ \A t \in Types(wire[f]) : t = type \/ t \in Types(wire'[f])
      /\ Types(wire'[e]) = Types(wire[e]) \cup Types(Reply(f, msgs))
  BY <1>0, <1>1, ExchangeWires
<1>3. /\ wire[f] # <<>> /\ Head(wire[f]).type = type /\ sock[f].state \in {"open", "closing"}
      /\ sock'[e].state = sock[e].state /\ node'[At(e)] = node[At(e)]
      /\ wire[f] \in Seq(Sound) /\ wire[e] \in Seq(Sound) /\ Reply(f, msgs) \in Seq(Sound)
      /\ (Reply(f, msgs) = <<>> \/ \E y : Reply(f, msgs) = <<y>>)
      /\ "headers" \in Types(msgs) <=> type = "headers-request"
      /\ "meta" \in Types(msgs) => type = "meta-request"
      /\ type = "range-request" => "range" \in Types(msgs)
  BY <1>0, <1>1, EmptySeq DEF Exchange, Connected, Reply
<1>4. Types(Reply(f, msgs)) \subseteq Types(msgs)  BY TypesFew DEF Reply
<1>5. type \in Types(wire[f])
  <2>1. 1 \in DOMAIN wire[f] /\ wire[f][1].type = type  BY <1>3, TailOf
  <2> QED  BY <2>1, TypesOf
<1> HIDE DEF f
<1>6. ASSUME Eligible(node'[At(e)]) PROVE HeadersFirst(e)'
  <2>1. HeadersFirst(e)  BY <1>1, <1>6 DEF StillLow, TurnGood
  <2>2. /\ InOrder(wire[e], "headers", "meta") /\ InOrder(wire[f], "headers-request", "meta-request")
        /\ "meta" \in Types(wire[e]) => "headers-request" \notin Types(wire[f])
        /\ "headers" \in Types(wire[e]) \/ "headers-request" \in Types(wire[f])
             => node[At(e)].boot.status # "idle"
    BY <2>1 DEF HeadersFirst, f
  <2>3. /\ InOrder(Tail(wire[f]), "headers-request", "meta-request")
        /\ type = "meta-request" => "headers-request" \notin Types(Tail(wire[f]))
    BY <1>3, <2>2, OrderTail
  <2>4. InOrder(wire'[e], "headers", "meta")
    <3>1. InOrder(Reply(f, msgs), "headers", "meta")  BY <1>3, OrderFew
    <3>2. "meta" \notin Types(wire[e]) \/ "headers" \notin Types(Reply(f, msgs))
      BY <1>3, <1>4, <1>5, <2>2
    <3>3. InOrder(wire[e] \o Reply(f, msgs), "headers", "meta")
      BY <1>3, <2>2, <3>1, <3>2, OrderJoined
    <3> QED  BY <1>2, <3>3
  <2>5. "meta" \in Types(wire'[e]) => "headers-request" \notin Types(wire'[f])
    BY <1>2, <1>3, <1>4, <2>2, <2>3
  <2>6. "headers" \in Types(wire'[e]) \/ "headers-request" \in Types(wire'[f])
          => node[At(e)].boot.status # "idle"
    BY <1>2, <1>3, <1>4, <1>5, <2>2
  <2> QED  BY <1>2, <1>3, <2>3, <2>4, <2>5, <2>6 DEF HeadersFirst, f
<1>7. ASSUME IsOwner(e)' PROVE Answering(e)' \/ sock'[e].state = "closing"
  <2>1. IsOwner(e)  BY <1>3, <1>7 DEF IsOwner
  <2>2. Answering(e) \/ sock[e].state = "closing"  BY <1>1, <2>1 DEF TurnGood
  <2>3. CASE type \notin {"headers-request", "range-request"}
    <3>1. Answering(e) => Answering(e)'
      BY <1>2, <2>3, AnsweringTypes, AnsweringTypesNext DEF f
    <3> QED  BY <1>3, <2>2, <3>1
  <2>4. CASE type \in {"headers-request", "range-request"} /\ Reply(f, msgs) = msgs
    <3>1. {"headers", "range", "close"} \cap Types(wire'[e]) # {}  BY <1>2, <1>3, <2>4
    <3> QED  BY <3>1, AnsweringTypesNext
  <2>5. CASE sock[f].state = "closing"
    <3>1. sock[e].state = "closing" \/ "close" \in Types(wire[e])
      BY <1>1, <2>1, <2>5, Leaving, StateOf DEF f
    <3> QED  BY <1>2, <1>3, <3>1, AnsweringTypesNext
  <2>6. sock[f].state = "open" => Reply(f, msgs) = msgs  BY <1>1 DEF Reply
  <2> QED  BY <1>3, <2>3, <2>4, <2>5, <2>6
<1> QED  BY <1>1, <1>3, <1>6, <1>7 DEF TurnGood

LEMMA TurnsExchange ==
  ASSUME Inductive, LinksGood, TurnsGood, StillLow, NEW x \in End, NEW type, NEW msgs,
         Exchange(x, type, msgs), Renewed(x, type, msgs)
  PROVE  TurnsGood'
<1>1. wire \in [End -> Seq(Sound)]  BY DEF Inductive
<1>2. Onward  BY DEF Onward, Exchange, Connected
<1> SUFFICES ASSUME NEW e \in End PROVE TurnGood(e)'  BY DEF TurnsGood
<1>3. CASE e = x  BY <1>2, <1>3, TurnHere
<1>4. CASE x = Far(e)  BY <1>2, <1>4, TurnThere
<1>5. CASE e # x /\ x # Far(e)
  <2>1. Far(e) \in End /\ e # Far(x) /\ Far(e) # Far(x)  BY <1>5, TwoEnds
  <2>2. wire'[e] = wire[e] /\ wire'[Far(e)] = wire[Far(e)]  BY <1>1, <1>5, <2>1, ExchangeWires
  <2>3. sock'[e].state = sock[e].state  BY <1>5 DEF Exchange
  <2>4. OnlyPeer(e)' => node'[At(e)] = node[At(e)]
    <3> HAVE OnlyPeer(e)'
    <3>1. OnlyPeer(e)  BY <1>2, OnlyBefore
    <3>2. At(x) # At(e)  BY <1>5, <3>1 DEF OnlyPeer, EndsOf, Exchange, Connected
    <3> QED  BY <3>2, Across DEF Exchange
  <2> QED  BY <1>2, <2>2, <2>3, <2>4, TurnStill
<1> QED  BY <1>3, <1>4, <1>5

LEMMA TurnsClose ==
  ASSUME Inductive, LinksGood, TurnsGood, StillLow, NEW x \in End, Close(x)
  PROVE  TurnsGood'
<1>0. sock \in [End -> SockRec] /\ wire \in [End -> Seq(Sound)] /\ NodesGood  BY DEF Inductive
<1>1. sock[x].state = "closing" /\ sock' = [sock EXCEPT ![x] = Socket("closed")]
      /\ wire' = [wire EXCEPT ![x] = <<>>]
      /\ (node' = node \/ node' = [node EXCEPT ![At(x)] = Released(@, x)])
  BY DEF Close
<1>2. /\ sock'[x].state = "closed" /\ wire'[x] = <<>>
      /\ \A c \in End : c # x => sock'[c] = sock[c] /\ wire'[c] = wire[c]
      /\ \A n \in Node : n # At(x) => node'[n] = node[n]
  BY <1>0, <1>1 DEF Socket, NodesGood
<1>3. Onward  BY <1>1, <1>2 DEF Onward
<1> SUFFICES ASSUME NEW e \in End PROVE TurnGood(e)'  BY DEF TurnsGood
<1>4. OnlyPeer(e)' => e # x /\ At(x) # At(e) /\ node'[At(e)] = node[At(e)]
  <2> HAVE OnlyPeer(e)'
  <2>1. e # x /\ OnlyPeer(e)  BY <1>2, <1>3, OnlyBefore DEF OnlyPeer
  <2>2. At(x) # At(e)  BY <1>1, <2>1 DEF OnlyPeer, EndsOf
  <2> QED  BY <1>2, <2>1, <2>2, Across
<1>5. CASE x = e  BY <1>4, <1>5 DEF TurnGood
<1>6. CASE x # e /\ x # Far(e)
  <2>1. sock'[e] = sock[e] /\ wire'[e] = wire[e] /\ wire'[Far(e)] = wire[Far(e)]
    BY <1>2, <1>6, TwoEnds
  <2> QED  BY <1>3, <1>4, <2>1, TurnStill
<1>7. CASE x = Far(e)
  <2> SUFFICES ASSUME OnlyPeer(e)'
               PROVE  /\ sock'[e].state \in {"none", "dialing"} => node'[At(e)].owner = NoPeer
                      /\ Eligible(node'[At(e)]) => HeadersFirst(e)'
                      /\ IsOwner(e)' => Answering(e)' \/ sock'[e].state = "closing"
    BY DEF TurnGood
  <2>1. e # x /\ OnlyPeer(e) /\ TurnGood(e) /\ node'[At(e)] = node[At(e)]
        /\ sock'[e] = sock[e] /\ wire'[e] = wire[e] /\ wire'[Far(e)] = <<>>
    BY <1>2, <1>3, <1>4, <1>7, OnlyBefore DEF TurnsGood
  <2>2. HeadersFirst(e) => HeadersFirst(e)'  BY <2>1, TypesFew, OrderFew DEF HeadersFirst
  <2>3. ASSUME IsOwner(e)' PROVE Answering(e)' \/ sock'[e].state = "closing"
    <3>1. IsOwner(e)  BY <2>1, <2>3 DEF IsOwner
    <3>2. sock[e].state = "closing" \/ "close" \in Types(wire[e])
      BY <1>1, <1>7, <2>1, <3>1, Leaving, StateOf
    <3> QED  BY <2>1, <3>2, AnsweringTypesNext
  <2> QED  BY <2>1, <2>2, <2>3 DEF TurnGood
<1> QED  BY <1>5, <1>6, <1>7

LEMMA TurnsGreet ==
  ASSUME Inductive, LinksGood, TurnsGood, StillLow, NEW x \in End,
         sock[x].state \in {"none", "dialing"}, Greet(x)
  PROVE  TurnsGood'
<1>1. /\ sock'[x].state = "open" /\ \A c \in End : c # x => sock'[c] = sock[c]
      /\ \A c \in End : c # Far(x) => wire'[c] = wire[c]
      /\ wire[Far(x)] = <<>>
      /\ "headers-request" \in Types(wire'[Far(x)])
      /\ Types(wire'[Far(x)]) \subseteq {"headers-request", "meta-request"}
      /\ InOrder(wire'[Far(x)], "headers-request", "meta-request")
      /\ node' = [node EXCEPT ![At(x)] = AskMeta(node[At(x)], x).node]
  BY GreetWires
<1>2. node'[At(x)] = AskMeta(node[At(x)], x).node /\ \A n \in Node : n # At(x) => node'[n] = node[n]
  <2>1. NodesGood /\ At(x) \in Node  BY NodeOf DEF Inductive
  <2> QED  BY <1>1, <2>1, NodeSet
<1>3. Onward  BY <1>1 DEF Onward
<1> SUFFICES ASSUME NEW e \in End PROVE TurnGood(e)'  BY DEF TurnsGood
<1>4. OnlyPeer(e)' /\ e # x => At(x) # At(e) /\ node'[At(e)] = node[At(e)]
  <2> HAVE OnlyPeer(e)' /\ e # x
  <2>1. At(x) # At(e)  BY <1>1 DEF OnlyPeer, EndsOf
  <2> QED  BY <1>2, <2>1, Across
<1>5. CASE e # x /\ e # Far(x)
  <2>1. Far(e) \in End /\ Far(e) # Far(x)  BY <1>5, TwoEnds
  <2>2. wire'[e] = wire[e] /\ wire'[Far(e)] = wire[Far(e)] /\ sock'[e] = sock[e]  BY <1>1, <1>5, <2>1
  <2> QED  BY <1>3, <1>4, <1>5, <2>2, TurnStill
<1>6. CASE e = x
  <2> SUFFICES ASSUME OnlyPeer(e)'
               PROVE  /\ sock'[e].state \in {"none", "dialing"} => node'[At(e)].owner = NoPeer
                      /\ Eligible(node'[At(e)]) => HeadersFirst(e)'
                      /\ IsOwner(e)' => Answering(e)' \/ sock'[e].state = "closing"
    BY DEF TurnGood
  <2>1. OnlyPeer(e) /\ TurnGood(e)  BY <1>3, OnlyBefore DEF TurnsGood
  <2>2. node[At(e)].owner = NoPeer  BY <1>6, <2>1 DEF TurnGood
  <2>3. NodeGood(At(e), node[At(e)]) /\ e \in EndsOf(At(e)) /\ At(e) \in Node /\ Label(e) # NoPeer
    BY NodeOf, Ends
  <2>4. node'[At(e)].owner = NoPeer  BY <1>2, <1>6, <2>2, <2>3, AskMetaGood
  <2>5. ASSUME Eligible(node'[At(e)]) PROVE HeadersFirst(e)'
    <3>1. Eligible(node[At(e)])  BY <2>3, <2>5 DEF StillLow
    <3>2. node'[At(e)].boot.status = "waiting-meta"
      BY <1>2, <1>6, <2>3, <3>1 DEF AskMeta, NodeGood
    <3>3. "headers" \notin Types(wire[e]) /\ "meta" \notin Types(wire[e])  BY <1>6 DEF LinksGood, LinkGood
    <3>4. wire'[e] = wire[e]  BY <1>1, <1>6, TwoEnds
    <3>5. InOrder(wire'[e], "headers", "meta")  BY <3>3, <3>4, TypesOf DEF InOrder
    <3> QED  BY <1>1, <1>6, <3>2, <3>3, <3>4, <3>5 DEF HeadersFirst
  <2>6. ~ IsOwner(e)'  BY <2>3, <2>4 DEF IsOwner
  <2> QED  BY <2>4, <2>5, <2>6
<1>7. CASE e = Far(x) /\ e # x
  <2> SUFFICES ASSUME OnlyPeer(e)'
               PROVE  /\ sock'[e].state \in {"none", "dialing"} => node'[At(e)].owner = NoPeer
                      /\ Eligible(node'[At(e)]) => HeadersFirst(e)'
                      /\ IsOwner(e)' => Answering(e)' \/ sock'[e].state = "closing"
    BY DEF TurnGood
  <2>1. OnlyPeer(e) /\ TurnGood(e) /\ Far(e) = x /\ node'[At(e)] = node[At(e)]
    BY <1>3, <1>4, <1>7, OnlyBefore, TwoEnds DEF TurnsGood
  <2>2. /\ wire'[x] = wire[x] /\ sock'[e] = sock[e] /\ wire[e] = <<>>
        /\ Types(wire'[e]) \subseteq {"headers-request", "meta-request"}
    BY <1>1, <1>7
  <2>3. HeadersFirst(e) => HeadersFirst(e)'
    <3> HAVE HeadersFirst(e)
    <3>1. "headers" \notin Types(wire'[e]) /\ "meta" \notin Types(wire'[e])  BY <2>2
    <3>2. InOrder(wire'[e], "headers", "meta")  BY <3>1, TypesOf DEF InOrder
    <3> QED  BY <2>1, <2>2, <3>1, <3>2 DEF HeadersFirst
  <2>4. Answering(e) => Answering(e)'  BY <2>1, <2>2, TypesFew, AnsweringTypes, AnsweringTypesNext
  <2> QED  BY <2>1, <2>2, <2>3, <2>4 DEF TurnGood, IsOwner
<1> QED  BY <1>5, <1>6, <1>7

LEMMA TurnsDial ==
  ASSUME Inductive, TurnsGood, NEW l \in Link, Dial(l), node' = node
  PROVE  TurnsGood'
<1> DEFINE x == Out(l)
<1>0. x \in End /\ sock \in [End -> SockRec]  BY DEF Out, End, Inductive
<1>1. sock[x].state = "none" /\ sock' = [sock EXCEPT ![x] = Socket("dialing")] /\ wire' = wire
  BY DEF Dial
<1>2. sock'[x].state = "dialing" /\ \A c \in End : c # x => sock'[c] = sock[c]
  BY <1>0, <1>1 DEF Socket
<1> HIDE DEF x
<1>3. Onward  BY <1>1, <1>2 DEF Onward
<1>4. ASSUME NEW e \in End PROVE TurnGood(e)'
  BY <1>1, <1>2, <1>3, TurnStill
<1> QED  BY <1>4 DEF TurnsGood

LEMMA TurnsBreak ==
  ASSUME Inductive, LinksGood, TurnsGood, NEW l \in Link, Break(l), node' = node
  PROVE  TurnsGood'
<1> DEFINE x == Out(l)
           y == In(l)
<1>1. /\ x \in End /\ y \in End /\ Far(x) = y /\ Far(y) = x
      /\ wire'[x] = <<>> /\ wire'[y] = <<>>
      /\ sock'[x].state = IF sock[x].state = "dialing" THEN "closed"
                          ELSE IF sock[x].state = "open" THEN "closing" ELSE sock[x].state
      /\ sock'[y].state = IF sock[y].state = "none" THEN "closed"
                          ELSE IF sock[y].state = "open" THEN "closing" ELSE sock[y].state
      /\ \A c \in End : c # x /\ c # y => wire'[c] = wire[c] /\ sock'[c] = sock[c]
  BY BreakEnds
<1> HIDE DEF x, y
<1>2. Onward  BY <1>1 DEF Onward
<1> SUFFICES ASSUME NEW e \in End PROVE TurnGood(e)'  BY DEF TurnsGood
<1>3. CASE e # x /\ e # y
  <2>1. Far(e) \in End /\ Far(e) # x /\ Far(e) # y  BY <1>1, <1>3, TwoEnds
  <2>2. wire'[e] = wire[e] /\ wire'[Far(e)] = wire[Far(e)] /\ sock'[e] = sock[e]  BY <1>1, <1>3, <2>1
  <2> QED  BY <1>2, <2>2, TurnStill
<1>4. CASE e = x \/ e = y
  <2> SUFFICES ASSUME OnlyPeer(e)'
               PROVE  /\ sock'[e].state \in {"none", "dialing"} => node'[At(e)].owner = NoPeer
                      /\ Eligible(node'[At(e)]) => HeadersFirst(e)'
                      /\ IsOwner(e)' => Answering(e)' \/ sock'[e].state = "closing"
    BY DEF TurnGood
  <2>1. OnlyPeer(e) /\ TurnGood(e) /\ sock[e].state # "closed" /\ sock'[e].state # "closed"
    BY <1>2, OnlyBefore DEF TurnsGood, OnlyPeer
  <2>2. wire'[e] = <<>> /\ wire'[Far(e)] = <<>>  BY <1>1, <1>4
  <2>3. sock'[e].state \in {"none", "dialing"} => sock[e].state \in {"none", "dialing"}
    BY <1>1, <1>4, <2>1
  <2>4. HeadersFirst(e)'  BY <2>2, TypesFew, OrderFew DEF HeadersFirst
  <2>5. ASSUME IsOwner(e)' PROVE sock'[e].state = "closing"
    <3>1. IsOwner(e)  BY <2>5 DEF IsOwner
    <3>2. sock[e].state \notin {"none", "dialing"}
      BY <2>1, <3>1, Ends DEF TurnGood, IsOwner
    <3>3. sock[e].state \in {"open", "closing"}  BY <2>1, <3>2, StateOf
    <3> QED  BY <1>1, <1>4, <3>3
  <2> QED  BY <2>1, <2>3, <2>4, <2>5 DEF TurnGood
<1> QED  BY <1>3, <1>4

-----------------------------------------------------------------------------
(* What is asked for is there, so the answer is not an empty one.           *)

Sensible(m, h) ==
  /\ m.type = "range" => m.blocks # <<>>
  /\ m.type = "range-request" => m.from <= h /\ m.count > 0

Sensibly == \A e \in End : \A m \in ToSet(wire[e]) : Sensible(m, Height(node[At(e)]))

\* What is new on the wire is sensible after the step.
AsksWell ==
  \A e \in End : \A m \in ToSet(wire'[e]) : m \in ToSet(wire[e]) \/ Sensible(m, Height(node'[At(e)]))

LEMMA StaysSensible ==
  ASSUME Inductive, Rising, Sensibly, AsksWell
  PROVE  Sensibly'
<1> SUFFICES ASSUME NEW e \in End, NEW m \in ToSet(wire'[e])
             PROVE  Sensible(m, Height(node'[At(e)]))
  BY DEF Sensibly
<1>1. PICK h : h = Height(node[At(e)])  OBVIOUS
<1>2. PICK k : k = Height(node'[At(e)])  OBVIOUS
<1>3. h \in Nat /\ k \in Nat /\ h <= k  BY <1>1, <1>2, Across DEF Rising
<1>4. CASE m \in ToSet(wire[e])
  <2>1. Sensible(m, h)  BY <1>1, <1>4 DEF Sensibly
  <2>2. wire[e] \in Seq(Sound)  BY DEF Inductive
  <2>3. m \in Sound  BY <1>4, <2>2, Members
  <2>4. m.type = "range-request" => m.from \in Nat  BY <2>3, Contents
  <2> QED  BY <1>2, <1>3, <2>1, <2>4 DEF Sensible
<1> QED  BY <1>4 DEF AsksWell

LEMMA ExchangeAsks ==
  ASSUME Inductive, NEW x \in End, NEW type, NEW msgs, Exchange(x, type, msgs),
         \A m \in ToSet(msgs) : Sensible(m, FarHeight(x))
  PROVE  AsksWell
<1> DEFINE f == Far(x)
<1>0. wire \in [End -> Seq(Sound)]  BY DEF Inductive
<1>1. f \in End /\ At(f) # At(x) /\ At(f) \in Node  BY TwoEnds, Across
<1>2. /\ wire'[x] = Tail(wire[x]) /\ wire'[f] = wire[f] \o Reply(x, msgs)
      /\ \A c \in End : c # x /\ c # f => wire'[c] = wire[c]
  BY <1>0, ExchangeWires
<1>3. ToSet(wire'[x]) \subseteq ToSet(wire[x])  BY <1>0, <1>2, TailSet DEF Exchange
<1>4. wire[f] \in Seq(Sound) /\ Reply(x, msgs) \in Seq(Sound)
  BY <1>0, <1>1, EmptySeq DEF Reply, Exchange
<1>5. ToSet(wire'[f]) = ToSet(wire[f]) \cup ToSet(Reply(x, msgs))  BY <1>2, <1>4, JoinedSet
<1>6. \A m \in ToSet(Reply(x, msgs)) : Sensible(m, Height(node'[At(f)]))
  BY <1>1, NoneIn DEF Reply, FarHeight, Exchange
<1> QED  BY <1>2, <1>3, <1>5, <1>6 DEF AsksWell

LEMMA CalmAsks ==
  ASSUME Calm
  PROVE  AsksWell
<1>1. \A m, h : m.type \in Chat => Sensible(m, h)  BY DEF Sensible, Chat
<1> QED  BY <1>1 DEF Calm, AsksWell

\* What is on the wire only becomes less.
LEMMA LessAsks ==
  ASSUME \A c \in End : wire'[c] = wire[c] \/ wire'[c] = <<>>
  PROVE  AsksWell
BY NoneIn DEF AsksWell

LEMMA GreetAsks ==
  ASSUME Inductive, LinksGood, NEW x \in End, sock[x].state \in {"none", "dialing"}, Greet(x)
  PROVE  AsksWell
<1>1. /\ \A c \in End : c # Far(x) => wire'[c] = wire[c]
      /\ Types(wire'[Far(x)]) \subseteq {"headers-request", "meta-request"}
  BY GreetWires
<1>2. \A m \in ToSet(wire'[Far(x)]) : m.type \in {"headers-request", "meta-request"}
  BY <1>1 DEF Types
<1> QED  BY <1>1, <1>2 DEF AsksWell, Sensible

\* The same first elements agree, whichever comes first.
LEMMA CommonLenLocal ==
  ASSUME NEW S, NEW s \in Seq(S), NEW t \in Seq(S)
  PROVE  CommonLen(s, t) \in Nat /\ CommonLen(s, t) <= Len(t) /\ CommonLen(s, t) <= Len(s)
<1>1. CommonLen(s, t) = CommonLen(t, s)
  <2>1. {i \in DOMAIN s \cap DOMAIN t : \A j \in 1..i : s[j] = t[j]}
          = {i \in DOMAIN t \cap DOMAIN s : \A j \in 1..i : t[j] = s[j]}
    OBVIOUS
  <2> QED  BY <2>1 DEF CommonLen
<1> QED  BY <1>1, CommonLenBound

\* A range that is not asked for above the node's height is not empty.
LEMMA RangeFull ==
  ASSUME NEW n \in Node, NEW nd, NodeGood(n, nd), NEW from \in Nat, NEW count \in Nat,
         from <= Height(nd), count > 0
  PROVE  RangeOf(nd, from, count).blocks # <<>>
<1> DEFINE first == IF from > nd.base THEN from - nd.base ELSE 0
           last == AtMost(Len(nd.blocks), first + count)
           s == SubSeq(nd.blocks, first + 1, last)
           l == Len(nd.blocks)
<1>1. nd.blocks \in Seq(mined) /\ l \in Nat /\ l >= 1 /\ nd.base \in Nat /\ Height(nd) = nd.base + l - 1
  BY RunFacts DEF NodeGood, Height
<1>2. first \in Nat /\ first < l  BY <1>1
<1>3. last \in Nat /\ first < last /\ last <= l  BY <1>1, <1>2 DEF AtMost
<1>4. RangeOf(nd, from, count).blocks = s  BY DEF RangeOf
<1> HIDE DEF first, last
<1>5. \A i \in (first + 1)..last : nd.blocks[i] \in mined  BY <1>1, <1>2, <1>3, ElementOfSeq
<1>6. Len(s) = IF first + 1 <= last THEN last - (first + 1) + 1 ELSE 0
  <2>1. first + 1 \in Int /\ last \in Int  BY <1>2, <1>3
  <2> QED  BY <1>5, <2>1, SubSeqProperties
<1> HIDE DEF s
<1>7. Len(s) > 0  BY <1>2, <1>3, <1>6
<1>8. s # <<>>  BY <1>7, EmptySeq
<1> QED  BY <1>4, <1>8

\* A node that leaves its chain for another is not at genesis any more.
LEMMA AdoptedHigher ==
  ASSUME Even, Inductive, Rooted, NEW e \in End, NEW range \in OwnersRange(e),
         Adoptable(node[At(e)], range)
  PROVE  ~ Eligible(Adopted(At(e), node[At(e)], range))
<1> DEFINE n == At(e)
           nd == Adopted(n, node[n], range)
           a == Tip(node[n])
           b == Last(range.blocks)
<1>1. n \in Node /\ NodeGood(n, node[n]) /\ mined \subseteq Blk /\ Grounded(node[n])
  BY Ends DEF Inductive, NodesGood, Rooted
<1>2. range.blocks \in Run(mined) /\ range.from \in Nat /\ NodeGood(n, nd) /\ Tip(nd) = b
  BY Applied
<1>3. Grounded(nd)  BY <1>1, <1>2, AdoptedGrounded
<1>4. Plain(nd) /\ Plain(node[n])  BY <1>1, <1>2, GoodPlain
<1> HIDE DEF nd
<1>5. Height(nd) = Level[b] /\ b \in Blk  BY <1>2, <1>3, <1>4, HeightLevel
<1>6. a \in Blk  BY <1>1, <1>4, HeightLevel
<1>7. Work[a] < Work[b]
  <2>1. Work[b] > Work[a]  BY DEF Adoptable
  <2>2. Work[a] \in Nat /\ Work[b] \in Nat  BY <1>5, <1>6, Constants
  <2> HIDE DEF a, b
  <2> QED  BY <2>1, <2>2
<1> HIDE DEF a, b
<1>8. Level[a] < Level[b] /\ Level[a] \in Nat /\ Level[b] \in Nat  BY <1>5, <1>6, <1>7, Levels
<1>9. ~ (Height(nd) <= 0)  BY <1>5, <1>8
<1> QED  BY <1>9 DEF Eligible, nd

-----------------------------------------------------------------------------
(* The handlers.                                                            *)

\* The handler is an exchange that renews the turn, and asks for what is there.
Turned(x) ==
  \E type, msgs : /\ Exchange(x, type, msgs) /\ Renewed(x, type, msgs)
                  /\ \A m \in ToSet(msgs) : Sensible(m, FarHeight(x))

OthersStill(x) == \A n \in Node : n # At(x) => node'[n] = node[n]

LEMMA ArrivedHead ==
  ASSUME Inductive, NEW x \in End, NEW type, Arrived(x, type) # {}
  PROVE  Connected(x) /\ wire[x] # <<>> /\ Head(wire[x]).type = type
<1>1. PICK m \in Arrived(x, type) : TRUE  OBVIOUS
<1>2. wire \in [End -> Seq(Sound)]  BY DEF Inductive
<1> QED  BY <1>1, <1>2, ArrivedGood DEF Arrived

LEMMA ExchangeSilent ==
  ASSUME Inductive, NEW x \in End, NEW type, Arrived(x, type) # {}, Handled(x, Silence), Quiet(sock'),
         OthersStill(x), type \notin {"close", "headers-request", "range-request"},
         Renewed(x, type, <<>>)
  PROVE  Turned(x)
<1>1. Handled(x, Only(x, <<>>)) /\ <<>> \in Seq(Sound)  BY Silent, EmptySeq
<1>2. Exchange(x, type, <<>>)
  BY <1>1, ArrivedHead, TypesFew DEF Exchange, OthersStill, Quiet
<1> QED  BY <1>2, NoneIn DEF Turned

LEMMA ExchangeOne ==
  ASSUME Inductive, NEW x \in End, NEW type, Arrived(x, type) # {}, Quiet(sock'), OthersStill(x),
         NEW y \in Sound, Handled(x, Only(x, <<y>>)),
         type # "close", y.type # "close", y.type = "headers" <=> type = "headers-request",
         y.type = "meta" => type = "meta-request", type = "range-request" => y.type = "range",
         Renewed(x, type, <<y>>), Sensible(y, FarHeight(x))
  PROVE  Turned(x)
<1> DEFINE msgs == <<y>>
<1>1. Types(msgs) = {y.type} /\ ToSet(msgs) = {y} /\ msgs \in Seq(Sound) /\ \E z : msgs = <<z>>
  BY TypesFew, OneIn, OneMessage
<1> HIDE DEF msgs
<1>2. Handled(x, Only(x, msgs)) /\ Renewed(x, type, msgs)  BY DEF msgs
<1>3. Exchange(x, type, msgs)
  BY <1>1, <1>2, ArrivedHead DEF Exchange, OthersStill, Quiet
<1> QED  BY <1>1, <1>2, <1>3 DEF Turned

\* The node keeps its record: only its turn could be over.
LEMMA RenewedStill ==
  ASSUME NEW x, node' = node, NEW type, NEW msgs,
         ~ IsOwner(x) \/ type \notin {"headers", "range", "close"} \/ sock'[x].state = "closing",
         {"headers-request", "meta-request"} \cap Types(msgs) = {}
  PROVE  Renewed(x, type, msgs) /\ OthersStill(x)
BY DEF Renewed, OthersStill, IsOwner

LEMMA ClosingTurned ==
  ASSUME Inductive, NEW x \in End, Closing(x)
  PROVE  Turned(x)
<1>1. Arrived(x, "close") # {} /\ sock' = [sock EXCEPT ![x].state = "closing"]
      /\ Handled(x, Silence) /\ node' = node
  BY DEF Closing
<1>2. sock \in [End -> SockRec]  BY DEF Inductive
<1>3. sock'[x].state = "closing" /\ \A c \in End : c # x => sock'[c] = sock[c]  BY <1>1, <1>2 DEF SockRec
<1>4. Handled(x, Only(x, <<>>)) /\ <<>> \in Seq(Sound)  BY <1>1, Silent, EmptySeq
<1>5. Exchange(x, "close", <<>>)  BY <1>1, <1>3, <1>4, ArrivedHead, TypesFew DEF Exchange
<1>6. Renewed(x, "close", <<>>)  BY <1>1, <1>3, RenewedStill, TypesFew
<1> QED  BY <1>5, <1>6, NoneIn DEF Turned

LEMMA RefuseHeadersTurned ==
  ASSUME Inductive, NEW x \in End, RefuseHeaders(x)
  PROVE  Turned(x)
<1> DEFINE y == [type |-> "close"]
           msgs == <<y>>
<1>1. Arrived(x, "headers") # {} /\ sock' = [sock EXCEPT ![x].state = "closing"]
      /\ Handled(x, Only(x, msgs)) /\ node' = node
  BY DEF RefuseHeaders
<1>2. sock \in [End -> SockRec]  BY DEF Inductive
<1>3. sock'[x].state = "closing" /\ \A c \in End : c # x => sock'[c] = sock[c]  BY <1>1, <1>2 DEF SockRec
<1>4. y \in Sound /\ y.type = "close"  BY DEF Sound, Message
<1> HIDE DEF y
<1>5. Types(msgs) = {"close"} /\ ToSet(msgs) = {y} /\ msgs \in Seq(Sound) /\ \E z : msgs = <<z>>
  BY <1>4, TypesFew, OneIn, OneMessage
<1> HIDE DEF msgs
<1>6. Exchange(x, "headers", msgs)  BY <1>1, <1>3, <1>5, ArrivedHead DEF Exchange
<1>7. Renewed(x, "headers", msgs)  BY <1>1, <1>3, <1>5, RenewedStill
<1>8. Sensible(y, FarHeight(x))  BY <1>4 DEF Sensible
<1> QED  BY <1>5, <1>6, <1>7, <1>8 DEF Turned

LEMMA ServeHeadersTurned ==
  ASSUME Inductive, NEW x \in End, ServeHeaders(x)
  PROVE  Turned(x)
<1> DEFINE y == HeadersOf(node[At(x)])
<1>1. NodeGood(At(x), node[At(x)])  BY NodeOf
<1>2. y \in Sound /\ y.type = "headers"
  <2>1. node[At(x)].blocks \in Seq(mined) /\ node[At(x)].blocks # <<>>  BY <1>1, RunFacts DEF NodeGood
  <2>2. (node[At(x)].base > 0) \in BOOLEAN  OBVIOUS
  <2> QED  BY <2>1, <2>2 DEF HeadersOf, Sound, Message
<1>3. Arrived(x, "headers-request") # {} /\ Handled(x, Only(x, <<y>>)) /\ sock' = sock /\ node' = node
  BY DEF ServeHeaders
<1> HIDE DEF y
<1>4. Types(<<y>>) = {"headers"}  BY <1>2, TypesFew
<1>5. Renewed(x, "headers-request", <<y>>) /\ OthersStill(x)  BY <1>3, <1>4, RenewedStill
<1>6. Sensible(y, FarHeight(x))  BY <1>2 DEF Sensible
<1> QED  BY <1>2, <1>3, <1>5, <1>6, SockStill, ExchangeOne

LEMMA ServeMetaTurned ==
  ASSUME Inductive, NEW x \in End, ServeMeta(x)
  PROVE  Turned(x)
<1> DEFINE h == Height(node[At(x)])
           y == [type |-> "meta", height |-> h]
<1>1. NodeGood(At(x), node[At(x)])  BY NodeOf
<1>2. h \in Nat
  <2>1. node[At(x)].base \in Nat /\ Len(node[At(x)].blocks) \in Nat /\ Len(node[At(x)].blocks) >= 1
    BY <1>1, RunFacts DEF NodeGood
  <2> QED  BY <2>1 DEF Height
<1>3. Arrived(x, "meta-request") # {} /\ Handled(x, Only(x, <<y>>)) /\ sock' = sock /\ node' = node
  BY DEF ServeMeta, MetaOf
<1> HIDE DEF h
<1>4. y \in Sound /\ y.type = "meta"  BY <1>2 DEF Sound, Message
<1> HIDE DEF y
<1>5. Types(<<y>>) = {"meta"}  BY <1>4, TypesFew
<1>6. Renewed(x, "meta-request", <<y>>) /\ OthersStill(x)  BY <1>3, <1>5, RenewedStill
<1>7. Sensible(y, FarHeight(x))  BY <1>4 DEF Sensible
<1> QED  BY <1>3, <1>4, <1>6, <1>7, SockStill, ExchangeOne

LEMMA IgnoreMetaTurned ==
  ASSUME Inductive, NEW x \in End, IgnoreMeta(x)
  PROVE  Turned(x)
<1>1. Arrived(x, "meta") # {} /\ Handled(x, Silence) /\ sock' = sock /\ node' = node
  BY DEF IgnoreMeta
<1>2. Renewed(x, "meta", <<>>) /\ OthersStill(x)  BY <1>1, TypesFew, RenewedStill
<1> QED  BY <1>1, <1>2, SockStill, ExchangeSilent

LEMMA ServeRangeTurned ==
  ASSUME Inductive, Sensibly, NEW x \in End, ServeRange(x)
  PROVE  Turned(x)
<1>1. PICK m \in Arrived(x, "range-request") :
        Handled(x, Only(x, <<RangeOf(node[At(x)], m.from, m.count)>>))
  BY DEF ServeRange
<1>2. At(x) \in Node /\ NodeGood(At(x), node[At(x)]) /\ wire \in [End -> Seq(Sound)]  BY NodeOf
<1>3. m \in Sound /\ m.type = "range-request" /\ m \in ToSet(wire[x])  BY <1>2, ArrivedGood DEF Arrived
<1>4. m.from \in Nat /\ m.count \in Nat  BY <1>3, Contents
<1>5. m.from <= Height(node[At(x)]) /\ m.count > 0  BY <1>3 DEF Sensibly, Sensible
<1> DEFINE y == RangeOf(node[At(x)], m.from, m.count)
<1>6. y \in Sound /\ y.blocks # <<>>  BY <1>2, <1>4, <1>5, RangeGood, RangeFull
<1>7. y.type = "range"  BY DEF RangeOf
<1>8. Handled(x, Only(x, <<y>>)) /\ sock' = sock /\ node' = node /\ Arrived(x, "range-request") # {}
  BY <1>1 DEF ServeRange
<1> HIDE DEF y
<1>9. Types(<<y>>) = {"range"}  BY <1>7, TypesFew
<1>10. Renewed(x, "range-request", <<y>>) /\ OthersStill(x)  BY <1>8, <1>9, RenewedStill
<1>11. Sensible(y, FarHeight(x))  BY <1>6, <1>7 DEF Sensible
<1> QED  BY <1>6, <1>7, <1>8, <1>10, <1>11, SockStill, ExchangeOne

LEMMA IgnoreRangeTurned ==
  ASSUME Inductive, Sensibly, NEW x \in End, IgnoreRange(x)
  PROVE  Turned(x)
<1>1. PICK range \in Arrived(x, "range") : range.blocks = <<>> \/ ~ IsOwner(x)  BY DEF IgnoreRange
<1>2. Handled(x, Silence) /\ sock' = sock /\ node' = node /\ Arrived(x, "range") # {}
  BY <1>1 DEF IgnoreRange
<1>3. range \in ToSet(wire[x]) /\ range.type = "range"  BY DEF Arrived
<1>4. ~ IsOwner(x)  BY <1>1, <1>3 DEF Sensibly, Sensible
<1>5. Renewed(x, "range", <<>>) /\ OthersStill(x)  BY <1>2, <1>4, TypesFew, RenewedStill
<1> QED  BY <1>2, <1>5, SockStill, ExchangeSilent

\* The owner is another one, or none.
LEMMA RenewedOther ==
  ASSUME NEW x, NEW type, node'[At(x)].owner # Label(x), node'[At(x)].boot = node[At(x)].boot
  PROVE  Renewed(x, type, <<>>)
BY TypesFew DEF Renewed

LEMMA Unowned ==
  ASSUME Inductive, NEW x \in End, node' = [node EXCEPT ![At(x)].owner = NoPeer]
  PROVE  /\ node'[At(x)].owner = NoPeer /\ node'[At(x)].owner # Label(x)
         /\ node'[At(x)].boot = node[At(x)].boot /\ OthersStill(x)
<1>1. At(x) \in Node /\ NodesGood /\ NodeGood(At(x), node[At(x)]) /\ Label(x) # NoPeer
  BY NodeOf, Ends DEF Inductive
<1>2. node' = [node EXCEPT ![At(x)] = SetOwner(x, NoPeer)]  BY SetOwnerGood
<1>3. node'[At(x)] = SetOwner(x, NoPeer) /\ OthersStill(x)  BY <1>1, <1>2, NodeSet DEF OthersStill
<1>4. SetOwner(x, NoPeer).owner = NoPeer /\ SetOwner(x, NoPeer).boot = node[At(x)].boot
  BY <1>1 DEF SetOwner, NodeGood
<1> QED  BY <1>1, <1>3, <1>4

LEMMA RefuseRangeTurned ==
  ASSUME Inductive, NEW x \in End, RefuseRange(x)
  PROVE  Turned(x)
<1>1. Arrived(x, "range") # {} /\ Handled(x, Silence) /\ sock' = sock
      /\ node' = [node EXCEPT ![At(x)].owner = NoPeer]
  BY DEF RefuseRange, OwnersRange
<1>2. Renewed(x, "range", <<>>) /\ OthersStill(x)  BY <1>1, Unowned, RenewedOther
<1> QED  BY <1>1, <1>2, SockStill, ExchangeSilent

(* No more headers than the node has blocks: the only peer is not higher,   *)
(* and nobody else is connected.                                            *)
LEMMA HeadersNotAheadTurned ==
  ASSUME Inductive, NEW x \in End, HeadersNotAhead(x)
  PROVE  Turned(x)
<1>1. PICK hashes \in GoodHeaders(x) \ Ahead(x) : sock' = Heard(x, Len(hashes) - 1)
  BY DEF HeadersNotAhead
<1>2. Quiet(sock') /\ Arrived(x, "headers") # {} /\ Len(hashes) \in Nat  BY <1>1, GoodHeadersType
<1>3. Handled(x, Silence)
      /\ node' = IF IsOwner(x) /\ ~ NeedsSync(At(x), node[At(x)], sock')
                 THEN [node EXCEPT ![At(x)].owner = NoPeer] ELSE node
  BY DEF HeadersNotAhead
<1>4. Renewed(x, "headers", <<>>) /\ OthersStill(x)
  <2>1. CASE ~ IsOwner(x)
    <3>1. node' = node  BY <1>3, <2>1
    <3> QED  BY <2>1, <3>1, TypesFew, RenewedStill
  <2>2. CASE node' = [node EXCEPT ![At(x)].owner = NoPeer]  BY <2>2, Unowned, RenewedOther
  <2>3. CASE IsOwner(x) /\ NeedsSync(At(x), node[At(x)], sock')
    <3>1. ~ OnlyPeer(x)
      <4> SUFFICES ASSUME OnlyPeer(x) PROVE FALSE  OBVIOUS
      <4>1. PICK e \in EndsOf(At(x)) : Connected(e) /\ sock'[e].height > Height(node[At(x)])
        BY <2>3 DEF NeedsSync
      <4>2. e = x  BY <4>1 DEF OnlyPeer, Connected
      <4>3. sock'[x].height = Len(hashes) - 1
        <5>1. sock \in [End -> SockRec]  BY DEF Inductive
        <5> QED  BY <1>1, <5>1 DEF Heard, SockRec
      <4>4. ~ (Len(hashes) > Len(node[At(x)].blocks))  BY <1>1 DEF Ahead
      <4>5. NodeGood(At(x), node[At(x)])  BY NodeOf
      <4>6. node[At(x)].base \in Nat /\ Len(node[At(x)].blocks) \in Nat  BY <4>5, RunFacts DEF NodeGood
      <4> QED  BY <1>2, <4>1, <4>2, <4>3, <4>4, <4>6 DEF Height
    <3>2. node' = node  BY <1>3, <2>3
    <3> QED  BY <3>1, <3>2 DEF Renewed, OthersStill
  <2> QED  BY <1>3, <2>1, <2>2, <2>3
<1> QED  BY <1>2, <1>3, <1>4, ExchangeSilent

LEMMA HeadersWhileBusyTurned ==
  ASSUME Inductive, NEW x \in End, HeadersWhileBusy(x)
  PROVE  Turned(x)
<1>1. PICK hashes \in GoodHeaders(x) : sock' = Heard(x, Len(hashes) - 1)  BY DEF HeadersWhileBusy, Ahead
<1>2. Quiet(sock') /\ Arrived(x, "headers") # {}  BY <1>1, GoodHeadersType
<1>3. Handled(x, Silence) /\ node' = node /\ ~ IsOwner(x)  BY DEF HeadersWhileBusy, IsOwner
<1>4. Renewed(x, "headers", <<>>) /\ OthersStill(x)  BY <1>3, TypesFew, RenewedStill
<1> QED  BY <1>2, <1>3, <1>4, ExchangeSilent

\* Of the only peer no snapshot is tried: the bootstrap is not idle.
LEMMA HeadersForSnapshotTurned ==
  ASSUME Inductive, TurnsGood, NEW x \in End, HeadersForSnapshot(x)
  PROVE  Turned(x)
<1>1. PICK hashes \in GoodHeaders(x) :
        LET next == Bootstrap(Owned(x), x, Len(hashes) - 1)
        IN /\ TriesSnapshot(Owned(x), Len(hashes) - 1)
           /\ sock' = Heard(x, Len(hashes) - 1)
           /\ node' = [node EXCEPT ![At(x)] = next.node]
           /\ Handled(x, Only(x, next.sends))
  BY DEF HeadersForSnapshot, Ahead
<1> DEFINE next == Bootstrap(Owned(x), x, Len(hashes) - 1)
<1>2. Quiet(sock') /\ Arrived(x, "headers") # {}  BY <1>1, GoodHeadersType
<1>3. next.sends = <<>>  BY NodeOf, OwnedGood, BootstrapGood
<1>4. node' = [node EXCEPT ![At(x)] = next.node] /\ Handled(x, Only(x, next.sends))  BY <1>1
<1> HIDE DEF next
<1>5. Handled(x, Silence)  BY <1>3, <1>4, Silent
<1>6. OthersStill(x)  BY <1>4, NodeOf, NodeSet DEF OthersStill, Inductive
<1>7. ~ OnlyPeer(x)
  <2>1. NodeGood(At(x), node[At(x)]) /\ wire \in [End -> Seq(Sound)]  BY NodeOf
  <2>2. Eligible(node[At(x)]) /\ node[At(x)].boot.status = "idle"
    <3>1. /\ Owned(x).blocks = node[At(x)].blocks /\ Owned(x).base = node[At(x)].base
          /\ Owned(x).boot = node[At(x)].boot
      BY <2>1 DEF Owned, NodeGood
    <3> QED  BY <1>1, <3>1 DEF TriesSnapshot, Eligible, Height
  <2>3. "headers" \in Types(wire[x])
    <3>1. wire[x] # <<>> /\ Head(wire[x]).type = "headers"  BY <1>2, ArrivedHead
    <3>2. 1 \in DOMAIN wire[x] /\ wire[x][1].type = "headers"  BY <2>1, <3>1, TailOf
    <3> QED  BY <3>2, TypesOf
  <2> QED  BY <2>2, <2>3 DEF TurnsGood, TurnGood, HeadersFirst
<1>8. Renewed(x, "headers", <<>>)  BY <1>7 DEF Renewed
<1> QED  BY <1>2, <1>5, <1>6, <1>8, ExchangeSilent

LEMMA HeadersForBlocksTurned ==
  ASSUME Inductive, Rising, Truthful, NEW x \in End, HeadersForBlocks(x)
  PROVE  Turned(x)
<1>1. PICK hashes \in Ahead(x), chunk \in Chunk :
        LET from == CommonLen(node[At(x)].blocks, hashes)
        IN /\ sock' = Heard(x, Len(hashes) - 1)
           /\ Handled(x, Only(x, <<[type |-> "range-request", from |-> from,
                                    count |-> AtMost(chunk, Len(hashes) - from)]>>))
  BY DEF HeadersForBlocks
<1> DEFINE blocks == node[At(x)].blocks
           from == CommonLen(blocks, hashes)
           count == AtMost(chunk, Len(hashes) - from)
           y == [type |-> "range-request", from |-> from, count |-> count]
<1>0. hashes \in GoodHeaders(x) /\ Len(hashes) > Len(blocks)  BY DEF Ahead
<1>2. hashes \in Seq(mined) /\ Len(hashes) \in Nat /\ Quiet(sock') /\ Arrived(x, "headers") # {}
  BY <1>0, <1>1, GoodHeadersType
<1>3. NodeGood(At(x), node[At(x)]) /\ blocks \in Seq(mined) /\ Len(blocks) \in Nat /\ At(x) \in Node
      /\ NodesGood
  BY NodeOf, RunFacts DEF NodeGood, Inductive
<1>4. Handled(x, Only(x, <<y>>))  BY <1>1
<1>5. Len(hashes) - 1 <= FarHeight(x) /\ FarHeight(x) \in Nat
  BY <1>0, HeadersReach, Across DEF Rising, FarHeight
<1> HIDE DEF blocks
<1>6. from \in Nat /\ from <= Len(hashes) /\ from <= Len(blocks)  BY <1>2, <1>3, CommonLenLocal
<1> HIDE DEF from
<1>7. from <= FarHeight(x) /\ Len(hashes) - from > 0 /\ Len(hashes) - from \in Nat
  BY <1>0, <1>2, <1>3, <1>5, <1>6
<1>8. count \in Nat /\ count > 0
  <2>1. chunk \in Nat /\ chunk > 0  BY SyncAssumption
  <2> QED  BY <1>7, <2>1 DEF AtMost
<1> HIDE DEF count
<1>9. y \in Sound  BY <1>6, <1>8 DEF Sound, Message
<1>10. y.type = "range-request" /\ Sensible(y, FarHeight(x))  BY <1>7, <1>8 DEF Sensible
<1> HIDE DEF y
<1>11. Types(<<y>>) = {"range-request"}  BY <1>10, TypesFew
<1>12. node' = [node EXCEPT ![At(x)] = Owned(x)]  BY DEF HeadersForBlocks
<1>13. node'[At(x)] = Owned(x) /\ OthersStill(x)  BY <1>3, <1>12, NodeSet DEF OthersStill
<1>14. Owned(x).boot = node[At(x)].boot  BY <1>3 DEF Owned, NodeGood
<1>15. Renewed(x, "headers", <<y>>)  BY <1>11, <1>13, <1>14 DEF Renewed
<1> QED  BY <1>2, <1>4, <1>9, <1>10, <1>13, <1>15, ExchangeOne

LEMMA ApplyRangeTurned ==
  ASSUME Even, Inductive, Rooted, NEW x \in End, ApplyRange(x)
  PROVE  Turned(x)
<1>1. PICK range \in OwnersRange(x) : ApplyRange(x)!(range)  BY DEF ApplyRange
<1> DEFINE n == At(x)
           nd == Adopted(n, node[n], range)
           height == IF sock[x].height > LastOf(range) THEN sock[x].height ELSE LastOf(range)
           blocks == ToSet(range.blocks)
           owner == IF Height(nd) >= height THEN NoPeer ELSE nd.owner
           done == Finish(nd, owner, blocks)
           y == [type |-> "headers-request"]
<1>2. /\ Adoptable(node[n], range) /\ node' = [node EXCEPT ![n] = done]
      /\ sock' = [sock EXCEPT ![x].height = height, ![x].knows = @ \cup blocks]
      /\ Handled(x, Only(x, <<y>>))
  BY <1>1 DEF Finish
<1>3. /\ range.from \in Nat /\ range.blocks \in Run(mined)
      /\ NodeGood(n, nd) /\ ~ Eligible(nd)
  BY <1>2, Applied, AdoptedHigher
<1>4. n \in Node /\ NodeGood(n, node[n]) /\ NodesGood /\ sock \in [End -> SockRec]
  BY NodeOf DEF Inductive
<1>5. nd.boot = node[n].boot  BY <1>2, <1>3, <1>4, AdoptedGood DEF SameButChain
<1>6. Quiet(sock')
  <2>1. LastOf(range) \in Nat
    <3>1. Len(range.blocks) \in Nat /\ Len(range.blocks) >= 1  BY <1>3, RunFacts
    <3> QED  BY <1>3, <3>1 DEF LastOf
  <2>2. height \in Nat \cup {NoHeight}  BY <1>4, <2>1 DEF SockRec
  <2>3. blocks \in SUBSET mined
    <3>1. range.blocks \in Seq(mined)  BY <1>3, RunFacts
    <3> QED  BY <3>1, Members
  <2> HIDE DEF height, blocks
  <2> QED  BY <1>2, <1>4, <2>2, <2>3 DEF Quiet, SockRec
<1> HIDE DEF nd, blocks, owner
<1>7. done.blocks = nd.blocks /\ done.base = nd.base /\ done.boot = nd.boot
  BY <1>3 DEF Finish, NodeGood
<1> HIDE DEF done
<1>8. node'[n] = done /\ OthersStill(x)  BY <1>2, <1>4, NodeSet DEF OthersStill
<1>9. ~ Eligible(node'[n])  BY <1>3, <1>7, <1>8 DEF Eligible, Height
<1>10. y \in Sound /\ y.type = "headers-request" /\ Sensible(y, FarHeight(x))
  BY DEF Sound, Message, Sensible
<1> HIDE DEF y
<1>11. Types(<<y>>) = {"headers-request"}  BY <1>10, TypesFew
<1>12. Renewed(x, "range", <<y>>)  BY <1>5, <1>7, <1>8, <1>9, <1>11 DEF Renewed
<1>13. Arrived(x, "range") # {}  BY DEF OwnersRange
<1> QED  BY <1>2, <1>6, <1>8, <1>10, <1>12, <1>13, ExchangeOne

LEMMA HandleMetaTurned ==
  ASSUME Inductive, NEW x \in End, HandleMeta(x)
  PROVE  Turned(x)
<1> DEFINE n == At(x)
           with == [node[n] EXCEPT !.boot.meta = TRUE]
           next(height) == IF TrustsMeta(x, height) THEN Bootstrap(with, x, height)
                           ELSE [node |-> [node[n] EXCEPT !.boot = Idle], sends |-> <<>>]
<1>1. PICK m \in Arrived(x, "meta") :
        /\ sock' = Heard(x, m.height)
        /\ node' = [node EXCEPT ![n] = next(m.height).node]
        /\ Handled(x, Only(x, next(m.height).sends))
  BY DEF HandleMeta
<1>2. n \in Node /\ NodeGood(n, node[n]) /\ NodesGood
      /\ wire \in [End -> Seq(Sound)] /\ sock \in [End -> SockRec]
  BY NodeOf DEF Inductive
<1>3. m.height \in Nat  BY <1>2, ArrivedGood, Contents
<1>4. Quiet(sock')  BY <1>1, <1>2, <1>3, HeardQuiet
<1>5. next(m.height).sends = <<>> /\ next(m.height).node.owner = node[n].owner
  <2>1. with.boot.status = "waiting-meta" /\ with.owner = node[n].owner
    BY <1>2 DEF HandleMeta, Expected, NodeGood, BootGood, Bootstrapping
  <2>2. [node[n] EXCEPT !.boot = Idle].owner = node[n].owner  BY <1>2 DEF NodeGood
  <2> HIDE DEF with
  <2>3. Bootstrap(with, x, m.height) = [node |-> with, sends |-> <<>>]
    BY <2>1 DEF Bootstrap, TriesSnapshot
  <2> QED  BY <2>1, <2>2, <2>3
<1> HIDE DEF next
<1>6. node'[n].owner = node[n].owner /\ OthersStill(x)
  BY <1>1, <1>2, <1>5, NodeSet DEF OthersStill
<1>7. Handled(x, Silence) /\ Arrived(x, "meta") # {}  BY <1>1, <1>5, Silent
<1>8. Renewed(x, "meta", <<>>)  BY <1>6, TypesFew DEF Renewed, IsOwner
<1> QED  BY <1>4, <1>6, <1>7, <1>8, ExchangeSilent

-----------------------------------------------------------------------------
(* What tells of blocks, and every step.                                    *)

LEMMA InformedSame ==
  ASSUME NEW nd, nd = [blocks |-> nd.blocks, base |-> nd.base, owner |-> nd.owner,
                       boot |-> nd.boot, recent |-> nd.recent], NEW recent
  PROVE  /\ [nd EXCEPT !.recent = recent].owner = nd.owner
         /\ [nd EXCEPT !.recent = recent].boot = nd.boot
OBVIOUS

LEMMA KeepsOwners ==
  ASSUME NodesGood, NEW n \in Node, NEW nd, node' = [node EXCEPT ![n] = nd],
         nd.owner = node[n].owner, nd.boot = node[n].boot
  PROVE  \A i \in Node : node'[i].owner = node[i].owner /\ node'[i].boot = node[i].boot
<1>1. node'[n] = nd /\ \A i \in Node : i # n => node'[i] = node[i]  BY NodeSet
<1> QED  BY <1>1

LEMMA ToldOwners ==
  ASSUME Inductive, NEW n \in Node, NEW recent, node' = [node EXCEPT ![n].recent = recent]
  PROVE  \A i \in Node : node'[i].owner = node[i].owner /\ node'[i].boot = node[i].boot
<1> DEFINE nd == [node[n] EXCEPT !.recent = recent]
<1>1. NodesGood /\ NodeGood(n, node[n])  BY DEF Inductive, NodesGood
<1>2. nd.owner = node[n].owner /\ nd.boot = node[n].boot  BY <1>1, InformedSame DEF NodeGood
<1>3. node' = [node EXCEPT ![n] = nd]  OBVIOUS
<1> HIDE DEF nd
<1> QED  BY <1>1, <1>2, <1>3, KeepsOwners

\* A handler that takes what tells of a block, and tells of it at most.
LEMMA ChatHandled ==
  ASSUME Inductive, NEW x \in End, NEW type \in Chat, Arrived(x, type) # {},
         NEW out, Sendable(out), \A c \in End : Types(out[c]) \subseteq Chat,
         Handled(x, out), Quiet(sock'),
         \A i \in Node : node'[i].owner = node[i].owner /\ node'[i].boot = node[i].boot
  PROVE  Calm
<1> DEFINE w == [wire EXCEPT ![x] = Tail(@)]
<1>1. wire \in [End -> Seq(Sound)] /\ wire[x] # <<>> /\ Head(wire[x]).type = type
  BY ArrivedHead DEF Inductive
<1>2. Tail(wire[x]) \in Seq(Sound)  BY <1>1, TailOf
<1>3. w \in [End -> Seq(Sound)]  BY <1>1, <1>2
<1>4. \A c \in End : Shorter(w[c], wire[c])  BY <1>1 DEF Shorter
<1>5. wire' = Sent(w, out)  BY DEF Handled
<1>6. out \in [End -> Seq(Sound)]  BY DEF Sendable
<1>7. \A c \in End : sock'[c].state = sock[c].state  BY DEF Quiet
<1> HIDE DEF w
<1> QED  BY <1>1, <1>3, <1>4, <1>5, <1>6, <1>7, ChatSent

LEMMA ChatOnly ==
  ASSUME NEW x \in End, NEW y, y.type \in Chat
  PROVE  \A c \in End : Types(Only(x, <<y>>)[c]) \subseteq Chat /\ Types(Silence[c]) \subseteq Chat
<1>1. \A c \in End : Silence[c] = <<>> /\ Only(x, <<y>>)[c] \in {<<y>>, <<>>}  BY DEF Only, Silence
<1>2. Types(<<>>) \subseteq Chat /\ Types(<<y>>) \subseteq Chat  BY TypesFew
<1> QED  BY <1>1, <1>2

LEMMA ChatAnnounced ==
  ASSUME NEW b, NEW height, NEW ends
  PROVE  \A c \in End : Types(Announcement(b, height, ends)[c]) \subseteq Chat
<1> DEFINE y == [type |-> "inv", hash |-> b, height |-> height]
<1>1. y.type \in Chat  BY DEF Chat
<1>2. \A c \in End : Announcement(b, height, ends)[c] \in {<<y>>, <<>>}  BY DEF Announcement
<1> HIDE DEF y
<1>3. Types(<<>>) \subseteq Chat /\ Types(<<y>>) \subseteq Chat  BY <1>1, TypesFew
<1> QED  BY <1>2, <1>3

LEMMA HandleInvCalm ==
  ASSUME Inductive, NEW e \in End, HandleInv(e)
  PROVE  Calm
<1>1. PICK m \in Arrived(e, "inv") : HandleInv(e)!(m)  BY DEF HandleInv
<1> DEFINE wanted == ~ Holds(node[At(e)], m.hash) /\ m.hash \notin node[At(e)].recent
           y == [type |-> "get", hash |-> m.hash]
           out == IF wanted THEN Only(e, <<y>>) ELSE Silence
<1>2. /\ sock' = [sock EXCEPT ![e].height = m.height, ![e].knows = @ \cup {m.hash}]
      /\ node' = IF wanted THEN [node EXCEPT ![At(e)].recent = @ \cup {m.hash}] ELSE node
      /\ Handled(e, out)
  BY <1>1
<1>3. wire \in [End -> Seq(Sound)] /\ sock \in [End -> SockRec] /\ At(e) \in Node  BY NodeOf
<1>4. m.hash \in mined /\ m.height \in Nat  BY <1>3, ArrivedGood, Contents
<1>5. Quiet(sock')  BY <1>2, <1>3, <1>4, NotedQuiet
<1>6. y \in Sound /\ y.type \in Chat  BY <1>4 DEF Sound, Message, Chat
<1> HIDE DEF y
<1>7. Sendable(out) /\ \A c \in End : Types(out[c]) \subseteq Chat
  BY <1>6, OneMessage, OnlySendable, SilenceSendable, ChatOnly
<1>8. Arrived(e, "inv") # {} /\ "inv" \in Chat  BY DEF Chat
<1>9. \A i \in Node : node'[i].owner = node[i].owner /\ node'[i].boot = node[i].boot
  <2>1. CASE wanted
    <3>1. node' = [node EXCEPT ![At(e)].recent = node[At(e)].recent \cup {m.hash}]  BY <1>2, <2>1
    <3> QED  BY <1>3, <3>1, ToldOwners
  <2>2. CASE ~ wanted  BY <1>2, <2>2
  <2> QED  BY <2>1, <2>2
<1> HIDE DEF out
<1> QED  BY <1>2, <1>5, <1>7, <1>8, <1>9, ChatHandled

LEMMA ServeBlockCalm ==
  ASSUME Inductive, NEW e \in End, ServeBlock(e)
  PROVE  Calm
<1>1. PICK m \in Arrived(e, "get") : ServeBlock(e)!(m)  BY DEF ServeBlock
<1> DEFINE holds == Holds(node[At(e)], m.hash)
           y == CompactOf(node[At(e)], m.hash)
           out == IF holds THEN Only(e, <<y>>) ELSE Silence
<1>2. /\ sock' = IF holds THEN [sock EXCEPT ![e].knows = @ \cup {m.hash}] ELSE sock
      /\ Handled(e, out) /\ node' = node
  BY <1>1
<1>3. wire \in [End -> Seq(Sound)] /\ At(e) \in Node /\ NodeGood(At(e), node[At(e)])  BY NodeOf
<1>4. m.hash \in mined  BY <1>3, ArrivedGood, Contents
<1>5. Quiet(sock')
  <2>1. Quiet(sock)  BY DEF Inductive, Quiet
  <2>2. Quiet([sock EXCEPT ![e].knows = @ \cup {m.hash}])  BY <1>4, <2>1, LearntQuiet
  <2> QED  BY <1>2, <2>1, <2>2
<1>6. (holds => y \in Sound) /\ y.type \in Chat
  <2>1. y.type = "compact"  BY DEF CompactOf
  <2>2. holds => y \in Sound  BY <1>3, <1>4, CompactGood
  <2> QED  BY <2>1, <2>2 DEF Chat
<1> HIDE DEF y, holds
<1>7. Sendable(out) /\ \A c \in End : Types(out[c]) \subseteq Chat
  BY <1>6, OneMessage, OnlySendable, SilenceSendable, ChatOnly
<1>8. Arrived(e, "get") # {} /\ "get" \in Chat  BY DEF Chat
<1> HIDE DEF out
<1> QED  BY <1>2, <1>5, <1>7, <1>8, ChatHandled

LEMMA RefuseBlockCalm ==
  ASSUME Inductive, NEW e \in End, RefuseBlock(e)
  PROVE  Calm
<1>1. PICK m \in Arrived(e, "compact") :
        sock' = Noted(sock, e, m) /\ node' = [node EXCEPT ![At(e)].recent = @ \cup {m.hash}]
  BY DEF RefuseBlock
<1>2. At(e) \in Node /\ Quiet(sock')  BY <1>1, CompactFacts, NodeOf
<1>3. node' = [node EXCEPT ![At(e)].recent = node[At(e)].recent \cup {m.hash}]  BY <1>1
<1>4. \A i \in Node : node'[i].owner = node[i].owner /\ node'[i].boot = node[i].boot
  BY <1>2, <1>3, ToldOwners
<1>5. Arrived(e, "compact") # {} /\ Handled(e, Silence) /\ "compact" \in Chat
  BY <1>1 DEF RefuseBlock, Chat
<1>6. \A c \in End : Types(Silence[c]) \subseteq Chat  BY TypesFew DEF Silence
<1> QED  BY <1>2, <1>4, <1>5, <1>6, SilenceSendable, ChatHandled

LEMMA ConnectBlockCalm ==
  ASSUME Inductive, NEW e \in End, ConnectBlock(e)
  PROVE  Calm
<1>1. PICK m \in Arrived(e, "compact") : ConnectBlock(e)!(m)  BY DEF ConnectBlock
<1> DEFINE n == At(e)
           nd == Extended(n, node[n], m.hash)
           ends == Uninformed(n, m.hash, sock) \ {e}
           out == Announcement(m.hash, Height(nd), ends)
           recent == nd.recent \cup {m.hash}
           done == [nd EXCEPT !.recent = recent]
<1>2. /\ Connects(e, m) /\ sock' = Announced(Noted(sock, e, m), m.hash, ends)
      /\ node' = [node EXCEPT ![n] = done] /\ Handled(e, out)
  BY <1>1
<1>3. n \in Node /\ NodeGood(n, node[n]) /\ NodesGood  BY NodeOf DEF Inductive
<1>4. m.hash \in mined /\ Quiet(Noted(sock, e, m))  BY CompactFacts
<1>5. NodeGood(n, nd) /\ SameButChain(nd, node[n]) /\ Height(nd) \in Nat
  <2>1. Follows(m.hash, Tip(node[n]))  BY <1>2 DEF Connects
  <2> QED  BY <1>3, <1>4, <2>1, ExtendedGood
<1> HIDE DEF ends, nd, n
<1>6. done.owner = node[n].owner /\ done.boot = node[n].boot
  BY <1>5, InformedSame DEF NodeGood, SameButChain
<1>7. Quiet(sock')  BY <1>2, <1>4, AnnouncedQuiet
<1>8. Sendable(out) /\ \A c \in End : Types(out[c]) \subseteq Chat
  BY <1>4, <1>5, AnnouncementSendable, ChatAnnounced
<1>9. Arrived(e, "compact") # {} /\ "compact" \in Chat  BY DEF Chat
<1> HIDE DEF done, out
<1>10. \A i \in Node : node'[i].owner = node[i].owner /\ node'[i].boot = node[i].boot
  BY <1>2, <1>3, <1>6, KeepsOwners
<1> QED  BY <1>2, <1>7, <1>8, <1>9, <1>10, ChatHandled

LEMMA MineCalm ==
  ASSUME Inductive, NEW n \in Node, Mine(n)
  PROVE  Calm
<1>1. PICK b \in Blk \ mined : Mine(n)!(b)  BY DEF Mine
<1>2. PICK old : old = node[n]  OBVIOUS
<1> DEFINE nd == Extended(n, old, b)
           ends == Uninformed(n, b, sock)
           recent == nd.recent \cup {b}
           done == [nd EXCEPT !.recent = recent]
           out == Announcement(b, Height(nd), ends)
<1>3. /\ Follows(b, Tip(old)) /\ mined' = mined \cup {b} /\ node' = [node EXCEPT ![n] = done]
      /\ sock' = Announced(sock, b, ends) /\ wire' = Sent(wire, out)
  BY <1>1, <1>2
<1>4. sock \in [End -> SockRec] /\ wire \in [End -> Seq(Sound)] /\ NodesGood /\ NodeGood(n, old)
  BY <1>2 DEF Inductive, NodesGood
<1>5. NodeGood(n, old)' /\ Sound \subseteq Sound' /\ b \in mined'  BY <1>3, <1>4, Grown
<1>6. NodeGood(n, nd)' /\ Height(nd) \in Nat /\ SameButChain(nd, old)
  BY <1>3, <1>5, Afterwards DEF ExtendsWell
<1> HIDE DEF nd, ends
<1>7. done.owner = node[n].owner /\ done.boot = node[n].boot
  <2>1. nd = [blocks |-> nd.blocks, base |-> nd.base, owner |-> nd.owner,
              boot |-> nd.boot, recent |-> nd.recent]
    BY <1>6 DEF NodeGood
  <2>2. done.owner = nd.owner /\ done.boot = nd.boot  BY <2>1, InformedSame
  <2> QED  BY <1>2, <1>6, <2>2 DEF SameButChain
<1> HIDE DEF done
<1>8. \A i \in Node : node'[i].owner = node[i].owner /\ node'[i].boot = node[i].boot
  BY <1>3, <1>4, <1>7, KeepsOwners
<1>9. wire \in [End -> Seq(Sound')] /\ out \in [End -> Seq(Sound')]
  <2>1. Seq(Sound) \subseteq Seq(Sound')  BY <1>5, SeqMonotonic
  <2>2. [type |-> "inv", hash |-> b, height |-> Height(nd)] \in Sound'
    BY <1>5, <1>6 DEF Sound, Message
  <2>3. out \in [End -> Seq(Sound')]  BY <2>2, EmptySeq DEF Announcement
  <2> QED  BY <1>4, <2>1, <2>3
<1>10. \A c \in End : sock'[c].state = sock[c].state  BY <1>3, <1>4 DEF Announced, SockRec
<1>11. \A c \in End : Types(out[c]) \subseteq Chat /\ Shorter(wire[c], wire[c])
  BY ChatAnnounced DEF Shorter
<1> HIDE DEF out
<1>12. PICK S : S = Sound'  OBVIOUS
<1>13. wire \in [End -> Seq(S)] /\ out \in [End -> Seq(S)]  BY <1>9, <1>12
<1> QED  BY <1>3, <1>8, <1>10, <1>11, <1>13, ChatSent

LEMMA ExpireCalm ==
  ASSUME Inductive, NEW n \in Node, Expire(n)
  PROVE  Calm
<1>1. PICK b \in node[n].recent : node' = [node EXCEPT ![n].recent = @ \ {b}]  BY DEF Expire
<1>2. sock' = sock /\ wire' = wire  BY DEF Expire, networkVars
<1>3. node' = [node EXCEPT ![n].recent = node[n].recent \ {b}]  BY <1>1
<1> QED  BY <1>2, <1>3, ToldOwners, CalmStill

-----------------------------------------------------------------------------
\* What the turn of a node's only peer rests on.
Settled == LinksGood /\ TurnsGood /\ Sensibly

LEMMA SettledInit ==
  ASSUME Init
  PROVE  Settled
<1>1. sock = [e \in End |-> Socket("none")] /\ wire = [e \in End |-> <<>>]
      /\ \A n \in Node : node[n].owner = NoPeer
  BY DEF Init, NetworkInit
<1>2. ASSUME NEW e \in End
      PROVE  /\ sock[e].state = "none" /\ wire[e] = <<>> /\ wire[Far(e)] = <<>>
             /\ node[At(e)].owner = NoPeer /\ NoPeer # Label(e)
  BY <1>1, Across, Ends DEF Socket
<1>3. LinksGood  BY <1>2, TypesFew DEF LinksGood, LinkGood
<1>4. TurnsGood
  <2> SUFFICES ASSUME NEW e \in End PROVE TurnGood(e)  BY DEF TurnsGood
  <2>1. ~ IsOwner(e)  BY <1>2 DEF IsOwner
  <2>2. HeadersFirst(e)  BY <1>2, TypesFew, OrderFew DEF HeadersFirst
  <2> QED  BY <1>2, <2>1, <2>2 DEF TurnGood
<1>5. Sensibly  BY <1>2, NoneIn DEF Sensibly
<1> QED  BY <1>3, <1>4, <1>5 DEF Settled

LEMMA SettledCalm ==
  ASSUME Inductive, Rising, Settled, Calm
  PROVE  Settled'
<1>1. StillLow  BY LowBefore
<1> QED  BY <1>1, LinksCalm, TurnsCalm, CalmAsks, StaysSensible DEF Settled

LEMMA SettledTurned ==
  ASSUME Inductive, Rising, Settled, NEW x \in End, Turned(x)
  PROVE  Settled'
<1>1. PICK type, msgs : /\ Exchange(x, type, msgs) /\ Renewed(x, type, msgs)
                        /\ \A m \in ToSet(msgs) : Sensible(m, FarHeight(x))
  BY DEF Turned
<1>2. LinksGood /\ TurnsGood /\ Sensibly /\ StillLow  BY LowBefore DEF Settled
<1>3. LinksGood'  BY <1>1, <1>2, LinksExchange
<1>4. TurnsGood'  BY <1>1, <1>2, TurnsExchange
<1>5. Sensibly'  BY <1>1, <1>2, ExchangeAsks, StaysSensible
<1> QED  BY <1>3, <1>4, <1>5 DEF Settled

LEMMA SettledHandle ==
  ASSUME Even, Inductive, Rooted, Truthful, Rising, Settled, NEW x \in End, Handle(x)
  PROVE  Settled'
<1>0. TurnsGood /\ Sensibly  BY DEF Settled
<1>1. ASSUME Closing(x) \/ ServeHeaders(x) \/ RefuseHeaders(x) \/ HeadersNotAhead(x) \/ HeadersWhileBusy(x)
      PROVE  Turned(x)
  BY <1>1, ClosingTurned, ServeHeadersTurned, RefuseHeadersTurned, HeadersNotAheadTurned,
     HeadersWhileBusyTurned
<1>2. ASSUME HeadersForSnapshot(x) \/ HeadersForBlocks(x)
      PROVE  Turned(x)
  BY <1>0, <1>2, HeadersForSnapshotTurned, HeadersForBlocksTurned
<1>3. ASSUME ServeRange(x) \/ IgnoreRange(x) \/ RefuseRange(x) \/ ApplyRange(x)
      PROVE  Turned(x)
  BY <1>0, <1>3, ServeRangeTurned, IgnoreRangeTurned, RefuseRangeTurned, ApplyRangeTurned
<1>4. ASSUME ServeMeta(x) \/ IgnoreMeta(x) \/ HandleMeta(x)
      PROVE  Turned(x)
  BY <1>4, ServeMetaTurned, IgnoreMetaTurned, HandleMetaTurned
<1>5. ASSUME HandleInv(x) \/ ServeBlock(x) \/ RefuseBlock(x) \/ ConnectBlock(x)
      PROVE  Calm
  BY <1>5, HandleInvCalm, ServeBlockCalm, RefuseBlockCalm, ConnectBlockCalm
<1>6. Turned(x) \/ Calm  BY <1>1, <1>2, <1>3, <1>4, <1>5 DEF Handle
<1> QED  BY <1>6, SettledTurned, SettledCalm

LEMMA SettledGreet ==
  ASSUME Inductive, Rising, Settled, NEW x \in End, sock[x].state \in {"none", "dialing"},
         sock[Far(x)].state \in {"dialing", "open"}, Greet(x)
  PROVE  Settled'
<1>1. LinksGood /\ TurnsGood /\ Sensibly /\ StillLow  BY LowBefore DEF Settled
<1>2. LinksGood'  BY <1>1, LinksGreet
<1>3. TurnsGood'  BY <1>1, TurnsGreet
<1>4. Sensibly'  BY <1>1, GreetAsks, StaysSensible
<1> QED  BY <1>2, <1>3, <1>4 DEF Settled

LEMMA SettledLifecycle ==
  ASSUME Inductive, Rising, Settled, NEW l \in Link, Lifecycle(l)
  PROVE  Settled'
<1>0. LinksGood /\ TurnsGood /\ Sensibly  BY DEF Settled
<1>1. Out(l) \in End /\ In(l) \in End /\ Far(Out(l)) = In(l) /\ Far(In(l)) = Out(l)
  BY DEF Out, In, End, Far
<1>2. CASE Dial(l) /\ UNCHANGED <<node, mined>>
  <2>1. wire' = wire /\ node' = node  BY <1>2 DEF Dial
  <2>2. LinksGood' /\ TurnsGood'  BY <1>0, <1>2, LinksDial, TurnsDial
  <2>3. Sensibly'  BY <1>0, <2>1, LessAsks, StaysSensible
  <2> QED  BY <2>2, <2>3 DEF Settled
<1>3. CASE Accept(l)
  <2>1. sock[Out(l)].state = "dialing" /\ sock[In(l)].state = "none" /\ Greet(In(l))
    BY <1>3 DEF Accept
  <2> QED  BY <1>1, <2>1, SettledGreet
<1>4. CASE Open(l)
  <2>1. sock[Out(l)].state = "dialing" /\ sock[In(l)].state = "open" /\ Greet(Out(l))
    BY <1>4 DEF Open
  <2> QED  BY <1>1, <2>1, SettledGreet
<1> QED  BY <1>2, <1>3, <1>4 DEF Lifecycle

LEMMA SettledClose ==
  ASSUME Inductive, Rising, Settled, NEW x \in End, Close(x)
  PROVE  Settled'
<1>1. LinksGood /\ TurnsGood /\ Sensibly /\ StillLow  BY LowBefore DEF Settled
<1>2. LinksGood' /\ TurnsGood'  BY <1>1, LinksClose, TurnsClose
<1>3. \A c \in End : wire'[c] = wire[c] \/ wire'[c] = <<>>
  <2>1. wire \in [End -> Seq(Sound)]  BY DEF Inductive
  <2> QED  BY <2>1 DEF Close
<1>4. Sensibly'  BY <1>1, <1>3, LessAsks, StaysSensible
<1> QED  BY <1>2, <1>4 DEF Settled

LEMMA SettledBreak ==
  ASSUME Inductive, Rising, Settled, NEW l \in Link, Break(l), node' = node
  PROVE  Settled'
<1>1. LinksGood /\ TurnsGood /\ Sensibly  BY DEF Settled
<1>2. LinksGood' /\ TurnsGood'  BY <1>1, LinksBreak, TurnsBreak
<1>3. \A c \in End : wire'[c] = wire[c] \/ wire'[c] = <<>>
  <2>1. wire \in [End -> Seq(Sound)]  BY DEF Inductive
  <2> QED  BY <2>1 DEF Break
<1>4. Sensibly'  BY <1>1, <1>3, LessAsks, StaysSensible
<1> QED  BY <1>2, <1>4 DEF Settled

LEMMA SettledStep ==
  ASSUME Lossy = {}, Even, Inductive, Rooted, Truthful, Settled, [Next]_vars
  PROVE  Settled'
<1>0. Rising  BY HeightsRise
<1>1. ASSUME NEW e \in End, Handle(e) PROVE Settled'  BY <1>0, <1>1, SettledHandle
<1>2. ASSUME NEW e \in End, Close(e) PROVE Settled'  BY <1>0, <1>2, SettledClose
<1>3. ASSUME NEW e \in End, Drop(e) PROVE FALSE  BY <1>3 DEF Drop
<1>4. ASSUME NEW l \in Link, Lifecycle(l) PROVE Settled'  BY <1>0, <1>4, SettledLifecycle
<1>5. ASSUME NEW l \in Fragile, Break(l), UNCHANGED <<node, mined>> PROVE Settled'
  <2>1. l \in Link /\ node' = node  BY <1>5, Constants
  <2> QED  BY <1>0, <1>5, <2>1, SettledBreak
<1>6. ASSUME NEW n \in Node, Mine(n) PROVE Settled'  BY <1>0, <1>6, MineCalm, SettledCalm
<1>7. ASSUME NEW n \in Node, Expire(n) PROVE Settled'  BY <1>0, <1>7, ExpireCalm, SettledCalm
<1>8. CASE UNCHANGED vars
  <2>1. sock' = sock /\ wire' = wire /\ node' = node  BY <1>8 DEF vars, networkVars
  <2> QED  BY <1>0, <2>1, CalmStill, SettledCalm
<1> QED  BY <1>1, <1>2, <1>3, <1>4, <1>5, <1>6, <1>7, <1>8 DEF Next

(* While a node's only peer owns the sync of network.ts, an answer or the   *)
(* peer's leaving is under way, so its turn ends or is renewed: for any     *)
(* network, any chains of equally difficult blocks, any pruning and any     *)
(* breaks, where send() drops nothing; a dropped answer leaves the owner    *)
(* where it is, and the node waits.                                         *)
THEOREM SyncOwnerWaits ==
  ASSUME NEW CONSTANT high, EquallyDifficult(high), Lossy = {}
  PROVE  Spec => []OwnerWaits
<1>1. Even  BY DEF Even, Level
<1>2. Init => Inductive /\ Rooted /\ Truthful /\ Settled
  BY <1>1, InitGood, RootedInit, TruthfulInit, SettledInit
<1>3. (Inductive /\ Rooted /\ Truthful /\ Settled) /\ [Next]_vars
        => (Inductive /\ Rooted /\ Truthful /\ Settled)'
  BY <1>1, StepGood, RootedStep, TruthfulStep, SettledStep
<1>4. Settled => OwnerWaits  BY DEF Settled, TurnsGood, TurnGood, OwnerWaits
<1> QED  BY <1>2, <1>3, <1>4, PTL DEF Spec
=============================================================================
