------------------------- MODULE Persistence_proofs -------------------------
(***************************************************************************)
(* The files keep the promise of DurableChain, and a start puts the right  *)
(* ledger under the chain it loads, for every tree of blocks and any       *)
(* number of saves, crashes, failed writes and damaged files, as long as   *)
(* damage spares one copy of the chain file.                               *)
(*                                                                         *)
(* The invariant behind it is about the order of the saves: the backup of  *)
(* the chain file is not newer than the file, what is queued is newer than *)
(* both and in the order of the saves, and nothing is older than the last  *)
(* save that has settled.  The last section is about the crash journal     *)
(* beside the files: what it tells of a save that was cut short is true.   *)
(***************************************************************************)
EXTENDS Journal, SequenceTheorems, TLAPS

\* What the proofs use of the constants.
LEMMA Constants ==
  /\ MaxAttempts \in Nat /\ MaxAttempts > 0
  /\ Retention \in Nat /\ Retention > 0
  /\ MaxSaves \in Nat /\ PairSpared \in BOOLEAN
  /\ Kind = {"chain", "chainstate", "snapshot"}
  /\ Genesis \in Blk /\ "invalid" \notin Blk
BY DiskAssumption, PersistenceAssumption

-----------------------------------------------------------------------------
(* The inductive invariant. *)

ChainContent == [gen : Nat \ {0}, blocks : Seq(Blk) \ {<<>>}, base : Nat]
LedgerContent == [height : Nat, tip : Blk, ledger : Blk]
ContentOf(k) == IF k = "chain" THEN ChainContent ELSE LedgerContent
CopyOf(k) == {Missing, Corrupt} \cup [is : {"valid"}, data : ContentOf(k)]
PairOf(k) == [primary : CopyOf(k), backup : CopyOf(k)]

LedgerJobs == [kind : Kind \ {"chain"}, data : LedgerContent]
Jobs == [kind : {"chain"}, data : ChainContent] \cup LedgerJobs

Memory == [gen : Nat, blocks : Seq(Blk) \ {<<>>}, base : Nat, ledger : Blk]

FilesTyped(f) == f = [k \in Kind |-> f[k]] /\ \A k \in Kind : f[k] \in PairOf(k)

Control ==
  /\ phase \in {"down", "boot", "up"} /\ existed \in BOOLEAN /\ todo \in Seq(Kind)
  /\ stage \in {"idle", "begin", "queued", "restore", "new"}
  /\ cause \in {"change", "import", "new", "none"}
  /\ half \in BOOLEAN /\ attempts \in 0..(MaxAttempts - 1)
  /\ saves \in 0..MaxSaves /\ settled \in 0..saves

Typed ==
  /\ Control
  /\ FilesTyped(files)
  /\ queue \in Seq(Jobs)
  /\ mem \in Memory /\ mem.gen <= saves

\* No copy is older than low or newer than high, nor the backup newer than the file.
Ordered(pair, low, high) ==
  /\ IsValid(pair.primary) => pair.primary.data.gen \in low..high
  /\ IsValid(pair.backup) => pair.backup.data.gen \in low..high
  /\ IsValid(pair.primary) /\ IsValid(pair.backup) =>
       pair.backup.data.gen <= pair.primary.data.gen

CopiesInOrder == Ordered(files["chain"], settled, saves)

\* Queued chain files are between low and high, in the order of the saves.
InOrder(q, low, high) ==
  /\ \A i \in 1..Len(q) : q[i].kind = "chain" => q[i].data.gen \in low..high
  /\ \A i, j \in 1..Len(q) :
       i < j /\ q[i].kind = "chain" /\ q[j].kind = "chain" => q[i].data.gen < q[j].data.gen

\* What is queued is newer than what is written.
QueueInOrder == InOrder(queue, DurableGen, mem.gen) /\ InOrder(queue, settled, mem.gen)

NewestUnqueued ==
  stage = "begin" => mem.gen = saves /\ saves > 0 /\ InOrder(queue, 0, saves - 1)

HalfWritten ==
  half => queue # <<>> /\ files[Head(queue).kind].primary = Valid(Head(queue).data)

StoppedIsEmpty == phase # "up" => queue = <<>> /\ half = FALSE /\ stage = "idle"

\* One copy of the chain file is valid, or there has never been one.
OneCopy(pair) == IsValid(pair.primary) \/ IsValid(pair.backup)
Spared ==
  PairSpared =>
    /\ OneCopy(files["chain"]) \/ files["chain"].primary = Missing
    /\ existed => OneCopy(files["chain"])

ExistedInBoot == existed => phase = "boot"

Inductive ==
  /\ Typed /\ CopiesInOrder /\ QueueInOrder /\ NewestUnqueued /\ HalfWritten
  /\ StoppedIsEmpty /\ Spared /\ ExistedInBoot /\ LoadedExact

LEMMA Initial == Init => Inductive
<1> SUFFICES ASSUME Init PROVE Inductive  OBVIOUS
<1>1. queue = <<>> /\ queue \in Seq(Jobs) /\ todo \in Seq(Kind) /\ Len(queue) = 0
  BY EmptySeq DEF Init, DiskInit
<1>2. <<Genesis>> \in Seq(Blk) /\ <<Genesis>> # <<>> /\ Last(<<Genesis>>) = Genesis
  BY Constants DEF Last
<1>3. Typed
  <2>1. Control
    <3>1. attempts \in 0..(MaxAttempts - 1)  BY Constants DEF Init, DiskInit
    <3>2. saves \in 0..MaxSaves /\ settled \in 0..saves  BY Constants DEF Init
    <3>3. existed \in BOOLEAN /\ half \in BOOLEAN  BY DEF Init, DiskInit
    <3> QED  BY <1>1, <3>1, <3>2, <3>3 DEF Control, Init
  <2>2. FilesTyped(files)  BY DEF FilesTyped, Init, DiskInit, PairOf, CopyOf
  <2>3. mem \in Memory /\ mem.gen <= saves  BY <1>2 DEF Init, Nothing, Memory
  <2> QED  BY <1>1, <2>1, <2>2, <2>3 DEF Typed
<1>4. ~ IsValid(files["chain"].primary) /\ ~ IsValid(files["chain"].backup)
  BY Constants DEF Init, DiskInit, IsValid, Missing
<1>5. CopiesInOrder  BY <1>4 DEF CopiesInOrder, Ordered
<1>6. QueueInOrder  BY <1>1 DEF QueueInOrder, InOrder
<1>7. NewestUnqueued /\ HalfWritten /\ StoppedIsEmpty /\ ExistedInBoot /\ LoadedExact
  BY <1>1, <1>2 DEF Init, DiskInit, NewestUnqueued, HalfWritten, StoppedIsEmpty, ExistedInBoot,
                    LoadedExact, Nothing
<1>8. Spared  BY Constants DEF Spared, Init, DiskInit, Missing
<1> QED  BY <1>3, <1>5, <1>6, <1>7, <1>8 DEF Inductive

-----------------------------------------------------------------------------
(* What a start reads. *)

(* Whatever the chainstate and the snapshot are, load() arrives at the      *)
(* ledger of the last block it loads.                                       *)
LEMMA LedgerFound ==
  ASSUME NEW d \in ChainContent
  PROVE  LedgerOf(d) = Last(d.blocks)
PROOF
<1> DEFINE c == Readable(files["chainstate"])
           s == Readable(files["snapshot"])
<1>2. Len(d.blocks) \in Nat /\ Len(d.blocks) >= 1 /\ d.base \in Nat
  BY DEF ChainContent
<1>3. CASE Matches(c, d)
  <2>1. LedgerOf(d) = c.data.ledger  BY <1>3 DEF LedgerOf
  <2> QED  BY <2>1, <1>3 DEF Matches
<1>4. CASE ~ Matches(c, d) /\ d.base = 0 /\ OnChain(s, d)
  <2>1. LedgerOf(d) = ReplayFrom(d.blocks, s.data.height + 1, s.data.ledger)
    BY <1>4 DEF LedgerOf
  <2>2. s.data.height \in 0..(Len(d.blocks) - 1) /\ s.data.ledger = d.blocks[s.data.height + 1]
    BY <1>4, <1>2 DEF OnChain, Height
  <2> DEFINE i == s.data.height + 1
  <2>3. CASE i = Len(d.blocks)  BY <2>1, <2>2, <2>3 DEF ReplayFrom, Last
  <2>4. CASE i # Len(d.blocks)  BY <2>1, <2>2, <2>4 DEF ReplayFrom
  <2> QED  BY <2>3, <2>4
<1>5. CASE ~ Matches(c, d) /\ ~ (d.base = 0 /\ OnChain(s, d))
  <2>1. LedgerOf(d) = ReplayFrom(d.blocks, 1, d.blocks[1])
    BY <1>5 DEF LedgerOf
  <2>2. CASE Len(d.blocks) = 1  BY <2>1, <2>2 DEF ReplayFrom, Last
  <2>3. CASE Len(d.blocks) # 1  BY <2>1, <2>3 DEF ReplayFrom
  <2> QED  BY <2>2, <2>3
<1> QED  BY <1>3, <1>4, <1>5

\* A chain file that can be read can be loaded.
LEMMA ReadableLoads ==
  ASSUME Typed, IsValid(Readable(files["chain"]))
  PROVE  /\ Readable(files["chain"]).data \in ChainContent
         /\ LedgerOf(Readable(files["chain"]).data) # "invalid"
<1> DEFINE copy == Readable(files["chain"])
<1>1. files["chain"] \in PairOf("chain")  BY Constants DEF Typed, FilesTyped
<1>2. copy \in CopyOf("chain")  BY <1>1 DEF PairOf, Readable
<1>3. copy.data \in ChainContent  BY <1>2 DEF CopyOf, ContentOf, IsValid, Missing, Corrupt
<1>4. Last(copy.data.blocks) \in Blk
  <2>1. copy.data.blocks \in Seq(Blk) /\ Len(copy.data.blocks) \in 1..Len(copy.data.blocks)
    BY <1>3 DEF ChainContent
  <2> QED  BY <2>1, ElementOfSeq DEF Last
<1> QED  BY Constants, <1>3, <1>4, LedgerFound

\* So a start finds nothing to load only if there is no valid copy.
LEMMA UnloadableIsLost ==
  ASSUME Typed, Unloadable
  PROVE  ~ OneCopy(files["chain"]) /\ DurableGen = 0
<1>1. ~ IsValid(Readable(files["chain"]))  BY ReadableLoads DEF Unloadable
<1> QED  BY <1>1 DEF Readable, OneCopy, DurableGen

-----------------------------------------------------------------------------
(* Files, queue and memory. *)

Put(f, k, p) == [f EXCEPT ![k] = p]

\* Replacing one pair of files leaves the others.
LEMMA FileSet ==
  ASSUME NEW f, FilesTyped(f), NEW k \in Kind, NEW p \in PairOf(k),
         NEW g, g = Put(f, k, p)
  PROVE  FilesTyped(g) /\ g[k] = p /\ \A j \in Kind : j # k => g[j] = f[j]
BY DEF FilesTyped, Put

LEMMA InOrderWeaken ==
  ASSUME NEW q \in Seq(Jobs), NEW low \in Int, NEW high \in Int, NEW low2 \in Int, NEW high2 \in Int,
         InOrder(q, low, high), low2 <= low, high <= high2
  PROVE  InOrder(q, low2, high2)
BY DEF InOrder

LEMMA JobTypes ==
  ASSUME NEW q \in Seq(Jobs), NEW i \in 1..Len(q)
  PROVE  /\ q[i] \in Jobs /\ q[i].kind \in Kind /\ q[i].data \in ContentOf(q[i].kind)
         /\ q[i].kind = "chain" => q[i].data.gen \in Nat
<1>1. q[i] \in Jobs  BY ElementOfSeq
<1> QED  BY Constants, <1>1 DEF Jobs, LedgerJobs, ContentOf, ChainContent

\* The queue without its head.
LEMMA Popped ==
  ASSUME NEW q \in Seq(Jobs), q # <<>>, NEW low \in Int, NEW high \in Int, InOrder(q, low, high)
  PROVE  /\ Tail(q) \in Seq(Jobs) /\ InOrder(Tail(q), low, high)
         /\ Head(q).kind \in Kind /\ Head(q).data \in ContentOf(Head(q).kind)
         /\ Head(q).kind = "chain" =>
              /\ Head(q).data.gen \in low..high
              /\ InOrder(Tail(q), Head(q).data.gen, high) /\ InOrder(q, Head(q).data.gen, high)
<1>1. Len(q) \in Nat /\ Len(q) >= 1 /\ Head(q) = q[1]  BY EmptySeq
<1>2. Head(q).kind \in Kind /\ Head(q).data \in ContentOf(Head(q).kind)
  BY <1>1, JobTypes
<1>3. /\ Tail(q) \in Seq(Jobs) /\ Len(Tail(q)) = Len(q) - 1
      /\ \A i \in 1..Len(Tail(q)) : Tail(q)[i] = q[i + 1]
  BY HeadTailProperties
<1>4. InOrder(Tail(q), low, high)
  <2>1. \A i \in 1..Len(Tail(q)) : i + 1 \in 1..Len(q)  BY <1>1, <1>3
  <2>2. \A i \in 1..Len(Tail(q)) :
          Tail(q)[i].kind = "chain" => Tail(q)[i].data.gen \in low..high
    BY <2>1, <1>3 DEF InOrder
  <2>3. \A i, j \in 1..Len(Tail(q)) :
          i < j /\ Tail(q)[i].kind = "chain" /\ Tail(q)[j].kind = "chain" =>
            Tail(q)[i].data.gen < Tail(q)[j].data.gen
    <3> SUFFICES ASSUME NEW i \in 1..Len(Tail(q)), NEW j \in 1..Len(Tail(q)), i < j,
                        Tail(q)[i].kind = "chain", Tail(q)[j].kind = "chain"
                 PROVE  Tail(q)[i].data.gen < Tail(q)[j].data.gen
      OBVIOUS
    <3>1. i + 1 \in 1..Len(q) /\ j + 1 \in 1..Len(q) /\ i + 1 < j + 1  BY <2>1
    <3>2. Tail(q)[i] = q[i + 1] /\ Tail(q)[j] = q[j + 1]  BY <1>3
    <3> QED  BY <3>1, <3>2 DEF InOrder
  <2> QED  BY <2>2, <2>3 DEF InOrder
<1>5. ASSUME Head(q).kind = "chain"
      PROVE  /\ Head(q).data.gen \in low..high
             /\ InOrder(Tail(q), Head(q).data.gen, high) /\ InOrder(q, Head(q).data.gen, high)
  <2>1. 1 \in 1..Len(q) /\ q[1].kind = "chain"  BY <1>1, <1>5
  <2>2. Head(q).data.gen \in low..high  BY <2>1, <1>1 DEF InOrder
  <2>3. \A i \in 1..Len(q) : q[i].kind = "chain" => q[i].data.gen \in Head(q).data.gen..high
    <3> SUFFICES ASSUME NEW i \in 1..Len(q), q[i].kind = "chain"
                 PROVE  q[i].data.gen \in Head(q).data.gen..high
      OBVIOUS
    <3>1. q[i].data.gen \in low..high  BY DEF InOrder
    <3>2. i = 1 \/ 1 < i  OBVIOUS
    <3>3. CASE i = 1  BY <3>1, <3>3, <1>1
    <3>4. CASE 1 < i
      <4>1. q[1].data.gen < q[i].data.gen  BY <3>4, <2>1 DEF InOrder
      <4> QED  BY <4>1, <3>1, <2>2, <1>1
    <3> QED  BY <3>2, <3>3, <3>4
  <2>4. InOrder(q, Head(q).data.gen, high)  BY <2>3 DEF InOrder
  <2>5. \A i \in 1..Len(Tail(q)) :
          Tail(q)[i].kind = "chain" => Tail(q)[i].data.gen \in Head(q).data.gen..high
    <3>1. \A i \in 1..Len(Tail(q)) : i + 1 \in 1..Len(q)  BY <1>1, <1>3
    <3> QED  BY <2>3, <3>1, <1>3
  <2>6. InOrder(Tail(q), Head(q).data.gen, high)  BY <2>5, <1>4 DEF InOrder
  <2> QED  BY <2>2, <2>4, <2>6
<1> QED  BY <1>2, <1>3, <1>4, <1>5

\* The queue with a chain file newer than all of it.
LEMMA Pushed ==
  ASSUME NEW q \in Seq(Jobs), NEW d \in ChainContent, NEW low \in Int,
         InOrder(q, low, d.gen - 1), low <= d.gen
  PROVE  LET r == Append(q, Job("chain", d))
         IN r \in Seq(Jobs) /\ r # <<>> /\ InOrder(r, low, d.gen) /\ (q # <<>> => Head(r) = Head(q))
<1> DEFINE job == Job("chain", d)
           r == Append(q, job)
<1>1. job \in Jobs /\ job.kind = "chain" /\ job.data = d  BY DEF Job, Jobs
<1>2. d.gen \in Nat  BY DEF ChainContent
<1> HIDE DEF job
<1>3. /\ r \in Seq(Jobs) /\ r # <<>> /\ Len(r) = Len(q) + 1 /\ Len(q) \in Nat
      /\ \A i \in 1..Len(q) : r[i] = q[i]
      /\ r[Len(q) + 1] = job
  <2>1. Len(q) \in Nat  OBVIOUS
  <2> QED  BY <2>1, <1>1, AppendProperties, SMTT(30)
<1>4. \A i \in 1..Len(r) : i \in 1..Len(q) \/ i = Len(q) + 1  BY <1>3
<1>5. q # <<>> => Head(r) = Head(q)
  BY <1>3, EmptySeq
<1> HIDE DEF r
<1>6. \A i \in 1..Len(r) : r[i].kind = "chain" => r[i].data.gen \in low..d.gen
  <2> SUFFICES ASSUME NEW i \in 1..Len(r), r[i].kind = "chain"
               PROVE  r[i].data.gen \in low..d.gen
    OBVIOUS
  <2>1. CASE i = Len(q) + 1  BY <2>1, <1>1, <1>2, <1>3
  <2>2. CASE i \in 1..Len(q)
    <3>1. q[i].data.gen \in low..(d.gen - 1)  BY <2>2, <1>3 DEF InOrder
    <3> QED  BY <3>1, <2>2, <1>2, <1>3
  <2> QED  BY <2>1, <2>2, <1>4
<1>7. \A i, j \in 1..Len(r) : i < j /\ r[i].kind = "chain" /\ r[j].kind = "chain" =>
                                r[i].data.gen < r[j].data.gen
  <2> SUFFICES ASSUME NEW i \in 1..Len(r), NEW j \in 1..Len(r), i < j,
                      r[i].kind = "chain", r[j].kind = "chain"
               PROVE  r[i].data.gen < r[j].data.gen
    OBVIOUS
  <2>1. i \in 1..Len(q)  BY <1>3, <1>4
  <2>2. r[i] = q[i] /\ q[i].data.gen \in low..(d.gen - 1)  BY <2>1, <1>3 DEF InOrder
  <2>3. CASE j \in 1..Len(q)  BY <2>1, <2>3, <1>3 DEF InOrder
  <2>4. CASE j = Len(q) + 1  BY <2>2, <2>4, <1>1, <1>2, <1>3
  <2> QED  BY <2>3, <2>4, <1>4
<1>8. InOrder(r, low, d.gen)  BY <1>6, <1>7 DEF InOrder
<1> QED  BY <1>3, <1>5, <1>8 DEF r, job

\* The queue with ledger files after it.
LEMMA Joined ==
  ASSUME NEW q \in Seq(Jobs), NEW r \in Seq(LedgerJobs), NEW low \in Int, NEW high \in Int,
         InOrder(q, low, high)
  PROVE  q \o r \in Seq(Jobs) /\ InOrder(q \o r, low, high)
<1>1. LedgerJobs \subseteq Jobs /\ \A j \in LedgerJobs : j.kind # "chain"
  BY DEF Jobs, LedgerJobs
<1>2. r \in Seq(Jobs) /\ Len(r) \in Nat /\ Len(q) \in Nat /\ \A i \in 1..Len(r) : r[i].kind # "chain"
  BY <1>1, ElementOfSeq
<1> DEFINE u == q \o r
<1>3. /\ u \in Seq(Jobs) /\ Len(u) = Len(q) + Len(r)
      /\ \A i \in 1..(Len(q) + Len(r)) : u[i] = IF i <= Len(q) THEN q[i] ELSE r[i - Len(q)]
  BY <1>2, ConcatProperties
<1> HIDE DEF u
<1>4. \A i \in 1..Len(u) : u[i].kind = "chain" => i \in 1..Len(q) /\ u[i] = q[i]
  <2> SUFFICES ASSUME NEW i \in 1..Len(u), u[i].kind = "chain", ~ (i <= Len(q))
               PROVE  FALSE
    BY <1>2, <1>3
  <2>1. i - Len(q) \in 1..Len(r) /\ u[i] = r[i - Len(q)]  BY <1>2, <1>3
  <2> QED  BY <2>1, <1>2
<1>5. InOrder(u, low, high)  BY <1>4 DEF InOrder
<1> QED  BY <1>3, <1>5 DEF u

\* What is left of a sequence when its beginning is cut keeps its last element.
LEMMA CutKeepsLast ==
  ASSUME NEW s \in Seq(Blk), NEW k \in Nat, k < Len(s)
  PROVE  SubSeq(s, k + 1, Len(s)) \in Seq(Blk) \ {<<>>} /\ Last(SubSeq(s, k + 1, Len(s))) = Last(s)
<1> DEFINE n == Len(s)
           c == SubSeq(s, k + 1, n)
<1>1. n \in Nat  OBVIOUS
<1>2. \A i \in (k + 1)..n : s[i] \in Blk  BY <1>1, ElementOfSeq
<1>3. c \in Seq(Blk) /\ Len(c) = n - k /\ \A i \in 1..(n - k) : c[i] = s[k + i]
  <2>1. k + 1 \in Int /\ n \in Int /\ n - (k + 1) + 1 = n - k /\ k + 1 <= n  BY <1>1
  <2>2. \A i \in 1..(n - k) : k + 1 + i - 1 = k + i  BY <1>1
  <2> QED  BY <1>2, <2>1, <2>2, SubSeqProperties
<1> HIDE DEF c
<1>4. n - k \in 1..(n - k) /\ k + (n - k) = n  BY <1>1
<1>5. c # <<>>  BY <1>1, <1>3
<1>6. Last(c) = c[n - k] /\ Last(s) = s[n]  BY <1>3 DEF Last
<1>7. c[n - k] = s[n]  BY <1>3, <1>4
<1> QED  BY <1>3, <1>5, <1>6, <1>7 DEF c

\* Pruning keeps the tip and its ledger.
LEMMA PrunedKeeps ==
  ASSUME NEW m \in Memory, m.ledger = Last(m.blocks)
  PROVE  /\ Pruned(m) \in Memory /\ Pruned(m).ledger = Last(Pruned(m).blocks)
         /\ Pruned(m).gen = m.gen
<1> DEFINE k == Height(m) - Retention - m.base
<1>1. CASE ~ (Height(m) - Retention > m.base)  BY <1>1 DEF Pruned
<1>2. CASE Height(m) - Retention > m.base
  <2>1. m.blocks \in Seq(Blk) /\ m.base \in Nat /\ Len(m.blocks) \in Nat  BY DEF Memory
  <2>2. k \in Nat /\ k < Len(m.blocks) /\ Height(m) - Retention \in Nat
    BY <2>1, <1>2, Constants DEF Height
  <2>3. Pruned(m) = [m EXCEPT !.base = Height(m) - Retention,
                              !.blocks = SubSeq(m.blocks, k + 1, Len(m.blocks))]
    BY <1>2 DEF Pruned
  <2> HIDE DEF k
  <2>4. /\ SubSeq(m.blocks, k + 1, Len(m.blocks)) \in Seq(Blk) \ {<<>>}
        /\ Last(SubSeq(m.blocks, k + 1, Len(m.blocks))) = Last(m.blocks)
    BY <2>1, <2>2, CutKeepsLast
  <2> QED  BY <2>2, <2>3, <2>4 DEF Memory
<1> QED  BY <1>1, <1>2

\* What a start would load from a pair of files.
GenOf(pair) == IF IsValid(Readable(pair)) THEN Readable(pair).data.gen ELSE 0

LEMMA DurableIsGenOf == DurableGen = GenOf(files["chain"]) /\ DurableGen' = GenOf(files'["chain"])
BY DEF DurableGen, GenOf

LEMMA GenInOrder ==
  ASSUME NEW pair \in PairOf("chain"), NEW low \in Nat, NEW high \in Nat, Ordered(pair, low, high)
  PROVE  /\ GenOf(pair) \in 0..high
         /\ OneCopy(pair) => GenOf(pair) >= low
BY DEF GenOf, Readable, Ordered, OneCopy

LEMMA ChainPair == ASSUME Typed PROVE files["chain"] \in PairOf("chain")
BY Constants DEF Typed, FilesTyped

LEMMA Numbers ==
  ASSUME Inductive
  PROVE  /\ saves \in Nat /\ settled \in Nat /\ settled <= saves
         /\ mem.gen \in Nat /\ mem.gen <= saves /\ DurableGen \in 0..saves
         /\ queue \in Seq(Jobs)
<1>1. saves \in Nat /\ settled \in Nat /\ settled <= saves
  BY Constants DEF Inductive, Typed, Control
<1>2. DurableGen \in 0..saves
  BY <1>1, DurableIsGenOf, ChainPair, GenInOrder DEF Inductive, CopiesInOrder
<1> QED  BY <1>1, <1>2 DEF Inductive, Typed, Memory

-----------------------------------------------------------------------------
(* Every step keeps the invariant. *)

LEMMA SaveBegun ==
  ASSUME Inductive, phase = "up", NEW m \in Memory, m.ledger = Last(m.blocks),
         NEW why \in {"change", "import", "new"}, BeginSave(m, why)
  PROVE  Inductive' /\ phase = "up" /\ mem'.gen = saves + 1 /\ UNCHANGED <<phase, settled, DurableGen>>
<1>1. /\ saves \in Nat /\ saves < MaxSaves /\ saves' = saves + 1 /\ stage' = "begin" /\ cause' = why
      /\ UNCHANGED <<files, queue, attempts, half, phase, todo, existed, settled>>
  BY Numbers DEF BeginSave, diskVars
<1>2. mem' \in Memory /\ mem'.ledger = Last(mem'.blocks) /\ mem'.gen = saves + 1
  <2>1. PICK kept \in {m, Pruned(m)} : mem' = [kept EXCEPT !.gen = saves']
    BY DEF BeginSave
  <2>2. kept \in Memory /\ kept.ledger = Last(kept.blocks)  BY PrunedKeeps
  <2> QED  BY <1>1, <2>1, <2>2 DEF Memory
<1>3. Typed'
  <2>1. Control'  BY <1>1, Constants DEF Inductive, Typed, Control
  <2> QED  BY <1>1, <1>2, <2>1 DEF Inductive, Typed, FilesTyped
<1>4. CopiesInOrder'
  BY <1>1, Numbers DEF Inductive, CopiesInOrder, Ordered
<1>5. QueueInOrder'
  <2>1. DurableGen' = DurableGen  BY <1>1 DEF DurableGen
  <2> QED
    BY <1>1, <1>2, <2>1, Numbers, InOrderWeaken DEF Inductive, QueueInOrder
<1>6. NewestUnqueued'
  BY <1>1, <1>2, Numbers, InOrderWeaken DEF Inductive, QueueInOrder, NewestUnqueued
<1>7. HalfWritten' /\ StoppedIsEmpty' /\ Spared' /\ ExistedInBoot'
  BY <1>1 DEF Inductive, HalfWritten, StoppedIsEmpty, Spared, ExistedInBoot
<1>8. LoadedExact'  BY <1>2 DEF LoadedExact
<1>9. DurableGen' = DurableGen  BY <1>1 DEF DurableGen
<1> QED  BY <1>1, <1>2, <1>3, <1>4, <1>5, <1>6, <1>7, <1>8, <1>9 DEF Inductive

\* The chain Change(h) moves to.
LEMMA ChangeSaves ==
  ASSUME Inductive, NEW h \in Blk, Change(h)
  PROVE  Inductive' /\ phase = "up" /\ mem'.gen = saves + 1 /\ UNCHANGED <<phase, settled, DurableGen>>
<1> DEFINE blocks == SubSeq(PathTo[h], mem.base + 1, Len(PathTo[h]))
           m == [mem EXCEPT !.blocks = blocks, !.ledger = h]
<1>1. PathTo[h] \in Seq(Blk) /\ Last(PathTo[h]) = h  BY PersistenceAssumption
<1>2. mem \in Memory /\ mem.base \in Nat /\ mem.base < Len(PathTo[h])
  BY DEF Inductive, Typed, Memory, Change
<1>3. blocks \in Seq(Blk) \ {<<>>} /\ Last(blocks) = h
  BY <1>1, <1>2, CutKeepsLast
<1> HIDE DEF blocks
<1>4. m.ledger = h /\ m.blocks = blocks /\ m \in Memory
  BY <1>2, <1>3 DEF Memory
<1>5. phase = "up" /\ BeginSave(m, "change")  BY DEF Change, Idle, blocks
<1> QED  BY <1>3, <1>4, <1>5, SaveBegun

LEMMA ImportSaves ==
  ASSUME Inductive, NEW h \in Blk, ImportCheckpoint(h)
  PROVE  Inductive' /\ phase = "up" /\ mem'.gen = saves + 1 /\ UNCHANGED <<phase, settled, DurableGen>>
<1> DEFINE m == [mem EXCEPT !.blocks = <<h>>, !.base = Len(PathTo[h]) - 1, !.ledger = h]
<1>1. PathTo[h] \in Seq(Blk) /\ PathTo[h] # <<>>  BY PersistenceAssumption
<1>2. Len(PathTo[h]) - 1 \in Nat  BY <1>1, EmptySeq
<1>3. <<h>> \in Seq(Blk) \ {<<>>} /\ Last(<<h>>) = h  BY DEF Last
<1>4. m \in Memory /\ m.ledger = Last(m.blocks)
  BY <1>2, <1>3 DEF Inductive, Typed, Memory
<1>5. phase = "up" /\ BeginSave(m, "import")  BY DEF ImportCheckpoint, Idle
<1> QED  BY <1>4, <1>5, SaveBegun

LEMMA FirstSaves ==
  ASSUME Inductive, FirstSave
  PROVE  Inductive' /\ phase = "up" /\ mem'.gen = saves + 1 /\ UNCHANGED <<phase, settled, DurableGen>>
<1>1. phase = "up" /\ (BeginSave(mem, "new") \/ BeginSave(mem, "change"))  BY DEF FirstSave
<1>2. mem \in Memory /\ mem.ledger = Last(mem.blocks)
  BY <1>1 DEF Inductive, Typed, LoadedExact
<1> QED  BY <1>1, <1>2, SaveBegun

\* The newest save joins the queue.
LEMMA ChainQueued ==
  ASSUME Inductive, QueueChain
  PROVE  Inductive' /\ UNCHANGED <<phase, mem, settled, DurableGen>>
<1> DEFINE d == [gen |-> mem.gen, blocks |-> mem.blocks, base |-> mem.base]
<1>1. /\ phase = "up" /\ stage = "begin" /\ ~ half /\ stage' = "queued"
      /\ queue' = Append(queue, Job("chain", d))
      /\ UNCHANGED <<files, attempts, half, phase, todo, existed, mem, cause, saves, settled>>
  BY DEF QueueChain
<1>2. mem.gen = saves /\ saves > 0 /\ InOrder(queue, 0, saves - 1)
  BY <1>1 DEF Inductive, NewestUnqueued
<1>3. d \in ChainContent /\ d.gen = saves
  BY <1>2, Numbers DEF Inductive, Typed, Memory, ChainContent
<1>4. \A low \in Nat : low <= saves /\ InOrder(queue, low, mem.gen) =>
        queue' \in Seq(Jobs) /\ queue' # <<>> /\ InOrder(queue', low, mem.gen)
  <2> SUFFICES ASSUME NEW low \in Nat, low <= saves, InOrder(queue, low, mem.gen)
               PROVE  queue' \in Seq(Jobs) /\ queue' # <<>> /\ InOrder(queue', low, mem.gen)
    OBVIOUS
  <2> HIDE DEF d
  <2>1. InOrder(queue, low, saves - 1)
    BY <1>2, Numbers DEF InOrder
  <2> QED  BY <1>1, <1>2, <1>3, <2>1, Numbers, Pushed
<1>5. DurableGen' = DurableGen  BY <1>1 DEF DurableGen
<1>6. QueueInOrder' /\ queue' \in Seq(Jobs)
  BY <1>1, <1>4, <1>5, Numbers DEF Inductive, QueueInOrder
<1>7. Typed'
  <2>1. Control'  BY <1>1 DEF Inductive, Typed, Control
  <2> QED  BY <1>1, <1>6, <2>1 DEF Inductive, Typed, FilesTyped
<1>8. CopiesInOrder' /\ NewestUnqueued' /\ HalfWritten' /\ StoppedIsEmpty'
  BY <1>1 DEF Inductive, CopiesInOrder, NewestUnqueued, HalfWritten, StoppedIsEmpty
<1>9. Spared' /\ ExistedInBoot' /\ LoadedExact'
  BY <1>1 DEF Inductive, Spared, ExistedInBoot, LoadedExact
<1> QED  BY <1>1, <1>5, <1>6, <1>7, <1>8, <1>9 DEF Inductive

\* Jobs other than chain files.
LEMMA RestTyped ==
  ASSUME Inductive
  PROVE  RestJobs \in Seq(LedgerJobs)
<1> DEFINE cs == Job("chainstate", LedgerFile)
           sn == Job("snapshot", LedgerFile)
<1>1. LedgerFile \in LedgerContent
  <2>1. /\ mem.blocks \in Seq(Blk) /\ mem.base \in Nat /\ mem.ledger \in Blk
        /\ Len(mem.blocks) \in Nat /\ Len(mem.blocks) >= 1
    BY EmptySeq DEF Inductive, Typed, Memory
  <2>2. Last(mem.blocks) \in Blk  BY <2>1, ElementOfSeq DEF Last
  <2>3. Height(mem) \in Nat  BY <2>1 DEF Height
  <2> QED  BY <2>1, <2>2, <2>3 DEF LedgerFile, LedgerContent
<1>2. cs \in LedgerJobs /\ sn \in LedgerJobs
  BY <1>1, Constants DEF Job, LedgerJobs
<1> HIDE DEF cs, sn
<1>3. <<cs>> \in Seq(LedgerJobs) /\ <<sn>> \in Seq(LedgerJobs) /\ <<>> \in Seq(LedgerJobs)
  BY <1>2
<1>4. PICK due \in {<<sn>>, <<>>} :
        RestJobs = IF cause = "new" THEN <<>>
                   ELSE IF cause = "change" THEN <<cs>> \o due
                   ELSE (<<cs>> \o due) \o <<sn>> \o <<cs>>
  BY DEF RestJobs, cs, sn
<1>5. <<cs>> \o due \in Seq(LedgerJobs)  BY <1>3, ConcatProperties
<1>6. (<<cs>> \o due) \o <<sn>> \in Seq(LedgerJobs)  BY <1>3, <1>5, ConcatProperties
<1>7. (<<cs>> \o due) \o <<sn>> \o <<cs>> \in Seq(LedgerJobs)  BY <1>3, <1>6, ConcatProperties
<1> QED  BY <1>3, <1>4, <1>5, <1>7

LEMMA HealTyped ==
  ASSUME NEW k, NEW pair \in PairOf(k), NEW healed \in Heal(pair)
  PROVE  healed \in PairOf(k)
BY DEF Heal, PairOf

\* A step on the other files leaves the chain file.
LEMMA OtherFile ==
  ASSUME Typed, NEW k \in Kind \ {"chain"}, NEW p \in PairOf(k), files' = Put(files, k, p)
  PROVE  FilesTyped(files') /\ files'["chain"] = files["chain"] /\ DurableGen' = DurableGen
<1>1. FilesTyped(files') /\ files'["chain"] = files["chain"]
  <2>1. FilesTyped(files) /\ k \in Kind /\ k # "chain" /\ "chain" \in Kind  BY Constants DEF Typed
  <2> QED  BY <2>1, FileSet
<1> QED  BY <1>1, DurableIsGenOf

LEMMA RestQueued ==
  ASSUME Inductive, QueueRest
  PROVE  Inductive' /\ UNCHANGED <<phase, mem, settled, DurableGen>>
<1>1. /\ phase = "up" /\ ~ half /\ stage' = "idle" /\ cause' = "none" /\ queue' = queue \o RestJobs
      /\ UNCHANGED <<attempts, half, phase, todo, existed, mem, saves, settled>>
  BY DEF QueueRest
<1>2. PICK healed \in {files["chainstate"]} \cup Heal(files["chainstate"]) :
        files' = Put(files, "chainstate", healed)
  BY DEF QueueRest, Put
<1>3. healed \in PairOf("chainstate")
  <2>1. files["chainstate"] \in PairOf("chainstate")
    BY Constants DEF Inductive, Typed, FilesTyped
  <2> QED  BY <1>2, <2>1, HealTyped
<1>4. FilesTyped(files') /\ files'["chain"] = files["chain"] /\ DurableGen' = DurableGen
  BY <1>2, <1>3, OtherFile, Constants DEF Inductive
<1>5. queue' \in Seq(Jobs) /\ QueueInOrder'
  <2>1. InOrder(queue, DurableGen, mem.gen) /\ InOrder(queue, settled, mem.gen)
    BY DEF Inductive, QueueInOrder
  <2>2. queue' \in Seq(Jobs) /\ InOrder(queue', DurableGen, mem.gen) /\ InOrder(queue', settled, mem.gen)
    BY <1>1, <2>1, Numbers, RestTyped, Joined
  <2> QED  BY <1>1, <1>4, <2>2 DEF QueueInOrder
<1>6. Typed'
  <2>1. Control'  BY <1>1 DEF Inductive, Typed, Control
  <2> QED  BY <1>1, <1>4, <1>5, <2>1 DEF Inductive, Typed
<1>7. CopiesInOrder' /\ NewestUnqueued' /\ HalfWritten' /\ StoppedIsEmpty'
  BY <1>1, <1>4 DEF Inductive, CopiesInOrder, NewestUnqueued, HalfWritten, StoppedIsEmpty
<1>8. Spared' /\ ExistedInBoot' /\ LoadedExact'
  BY <1>1, <1>4 DEF Inductive, Spared, ExistedInBoot, LoadedExact
<1> QED  BY <1>1, <1>4, <1>5, <1>6, <1>7, <1>8 DEF Inductive

\* The file of the job at the head is written; a chain file lands.
LEMMA PrimaryWritten ==
  ASSUME Inductive, Write
  PROVE  /\ Inductive' /\ phase = "up" /\ UNCHANGED <<phase, mem, settled>>
         /\ DurableGen' = DurableGen \/ DurableGen' \in (DurableGen + 1)..mem.gen
<1> DEFINE job == Head(queue)
           k == job.kind
           p == [files[k] EXCEPT !.primary = Valid(job.data)]
<1>1. /\ queue # <<>> /\ ~ half /\ half' = TRUE /\ phase = "up"
      /\ files' = Put(files, k, p)
      /\ UNCHANGED <<queue, attempts, phase, todo, existed, mem, stage, cause, saves, settled>>
  BY DEF Write, WritePrimary, AtWork, nodeVars, Put
<1>2. InOrder(queue, DurableGen, mem.gen) /\ InOrder(queue, settled, mem.gen)
  BY DEF Inductive, QueueInOrder
<1>3. /\ k \in Kind /\ job.data \in ContentOf(k)
      /\ k = "chain" => /\ job.data.gen \in DurableGen..mem.gen /\ job.data.gen \in settled..mem.gen
                        /\ InOrder(queue, job.data.gen, mem.gen)
  BY <1>1, <1>2, Numbers, Popped
<1>4. files[k] \in PairOf(k)  BY <1>3 DEF Inductive, Typed, FilesTyped
<1>5. p \in PairOf(k) /\ p.primary = Valid(job.data) /\ p.backup = files[k].backup
  BY <1>3, <1>4 DEF PairOf, CopyOf, Valid
<1> HIDE DEF p
<1>6. FilesTyped(files') /\ files'[k] = p
  <2>1. FilesTyped(files)  BY DEF Inductive, Typed
  <2> QED  BY <1>1, <1>3, <1>5, <2>1, FileSet
<1>7. /\ CopiesInOrder' /\ QueueInOrder' /\ Spared'
      /\ DurableGen' = DurableGen \/ DurableGen' \in (DurableGen + 1)..mem.gen
  <2>1. CASE k # "chain"
    <3>1. files'["chain"] = files["chain"] /\ DurableGen' = DurableGen
      BY <1>1, <1>3, <1>5, <2>1, OtherFile DEF Inductive
    <3>2. CopiesInOrder' /\ Spared'
      BY <1>1, <3>1 DEF Inductive, CopiesInOrder, Spared
    <3>3. QueueInOrder'  BY <1>1, <1>2, <3>1 DEF QueueInOrder
    <3> QED  BY <3>1, <3>2, <3>3
  <2>2. CASE k = "chain"
    <3>1. files'["chain"] = p  BY <1>6, <2>2
    <3>2. IsValid(p.primary) /\ p.primary.data = job.data  BY <1>5 DEF Valid, IsValid
    <3>3. GenOf(p) = job.data.gen  BY <3>2 DEF GenOf, Readable
    <3>4. DurableGen' = job.data.gen  BY <3>1, <3>3, DurableIsGenOf
    <3>5. Ordered(p, settled, saves)
      <4>1. Ordered(files[k], settled, saves)  BY <2>2 DEF Inductive, CopiesInOrder
      <4>2. IsValid(p.backup) => p.backup.data.gen <= DurableGen
        BY <4>1, <1>5, <2>2, DurableIsGenOf DEF Ordered, GenOf, Readable
      <4>3. IsValid(p.backup) => p.backup.data.gen \in settled..saves
        BY <4>1, <1>5 DEF Ordered
      <4>4. job.data.gen \in settled..saves /\ DurableGen <= job.data.gen
        BY <1>3, <2>2, Numbers
      <4> QED  BY <3>2, <4>2, <4>3, <4>4, Numbers DEF Ordered
    <3>6. CopiesInOrder'  BY <1>1, <3>1, <3>5 DEF CopiesInOrder
    <3>7. QueueInOrder'  BY <1>1, <1>2, <1>3, <2>2, <3>4 DEF QueueInOrder
    <3>8. Spared'  BY <3>1, <3>2 DEF Spared, OneCopy
    <3>9. DurableGen' = DurableGen \/ DurableGen' \in (DurableGen + 1)..mem.gen
      BY <1>3, <2>2, <3>4, Numbers
    <3> QED  BY <3>6, <3>7, <3>8, <3>9
  <2> QED  BY <2>1, <2>2
<1>8. Typed'
  <2>1. Control'  BY <1>1 DEF Inductive, Typed, Control
  <2> QED  BY <1>1, <1>6, <2>1 DEF Inductive, Typed
<1>9. HalfWritten'
  BY <1>1, <1>5, <1>6 DEF HalfWritten
<1>10. NewestUnqueued' /\ StoppedIsEmpty' /\ ExistedInBoot' /\ LoadedExact'
  BY <1>1 DEF Inductive, NewestUnqueued, StoppedIsEmpty, ExistedInBoot, LoadedExact
<1> QED  BY <1>1, <1>7, <1>8, <1>9, <1>10 DEF Inductive

\* The backup of the file just written; a chain file settles.
LEMMA BackupCopied ==
  ASSUME Inductive, Copy
  PROVE  /\ Inductive' /\ phase = "up" /\ UNCHANGED <<phase, mem, DurableGen>>
         /\ settled' = settled \/ settled' \in (settled + 1)..DurableGen
<1> DEFINE job == Head(queue)
           k == job.kind
           p == [files[k] EXCEPT !.backup = files[k].primary]
<1>1. /\ queue # <<>> /\ half' = FALSE /\ phase = "up" /\ queue' = Tail(queue) /\ attempts' = 0
      /\ files' = Put(files, k, p)
      /\ settled' = IF k = "chain" THEN job.data.gen ELSE settled
      /\ UNCHANGED <<phase, todo, existed, mem, stage, cause, saves>>
  BY DEF Copy, CopyBackup, Shift, AtWork, nodeVars, Put, Inductive, HalfWritten
<1>2. InOrder(queue, DurableGen, mem.gen) /\ InOrder(queue, settled, mem.gen)
  BY DEF Inductive, QueueInOrder
<1>3. /\ k \in Kind /\ job.data \in ContentOf(k) /\ Tail(queue) \in Seq(Jobs)
      /\ InOrder(Tail(queue), DurableGen, mem.gen) /\ InOrder(Tail(queue), settled, mem.gen)
      /\ k = "chain" => /\ job.data.gen \in DurableGen..mem.gen /\ job.data.gen \in settled..mem.gen
                        /\ InOrder(Tail(queue), job.data.gen, mem.gen)
  BY <1>1, <1>2, Numbers, Popped
<1>4. files[k] \in PairOf(k) /\ files[k].primary = Valid(job.data)
  <2>1. files[k] \in PairOf(k)  BY <1>3 DEF Inductive, Typed, FilesTyped
  <2>2. half  BY DEF Copy, CopyBackup
  <2> QED  BY <2>1, <2>2 DEF Inductive, HalfWritten
<1>5. p \in PairOf(k) /\ p.primary = Valid(job.data) /\ p.backup = Valid(job.data)
  BY <1>4 DEF PairOf
<1> HIDE DEF p
<1>6. FilesTyped(files') /\ files'[k] = p
  <2>1. FilesTyped(files)  BY DEF Inductive, Typed
  <2> QED  BY <1>1, <1>3, <1>5, <2>1, FileSet
<1>7. /\ CopiesInOrder' /\ QueueInOrder' /\ Spared' /\ DurableGen' = DurableGen
      /\ settled' \in 0..saves
      /\ settled' = settled \/ settled' \in (settled + 1)..DurableGen
  <2>1. CASE k # "chain"
    <3>1. files'["chain"] = files["chain"] /\ DurableGen' = DurableGen
      BY <1>1, <1>3, <1>5, <2>1, OtherFile DEF Inductive
    <3>2. settled' = settled  BY <1>1, <2>1
    <3>3. CopiesInOrder' /\ Spared'
      BY <1>1, <3>1, <3>2 DEF Inductive, CopiesInOrder, Spared
    <3>4. QueueInOrder'  BY <1>1, <1>3, <3>1, <3>2 DEF QueueInOrder
    <3> QED  BY <3>1, <3>2, <3>3, <3>4, Numbers
  <2>2. CASE k = "chain"
    <3>1. files'["chain"] = p /\ settled' = job.data.gen  BY <1>1, <1>6, <2>2
    <3>2. /\ IsValid(p.primary) /\ p.primary.data = job.data
          /\ IsValid(p.backup) /\ p.backup.data = job.data
      BY <1>5 DEF Valid, IsValid
    <3>3. DurableGen = job.data.gen
      BY <1>4, <2>2, DurableIsGenOf DEF GenOf, Readable, Valid, IsValid
    <3>4. DurableGen' = job.data.gen
      BY <3>1, <3>2, DurableIsGenOf DEF GenOf, Readable
    <3>5. job.data.gen \in settled..mem.gen  BY <1>3, <2>2
    <3>6. Ordered(p, job.data.gen, saves)  BY <3>2, <3>5, Numbers DEF Ordered
    <3>7. CopiesInOrder'  BY <1>1, <3>1, <3>6 DEF CopiesInOrder
    <3>8. QueueInOrder'  BY <1>1, <1>3, <2>2, <3>1, <3>4 DEF QueueInOrder
    <3>9. Spared'  BY <3>1, <3>2 DEF Spared, OneCopy
    <3> QED  BY <3>1, <3>3, <3>4, <3>5, <3>7, <3>8, <3>9, Numbers
  <2> QED  BY <2>1, <2>2
<1>8. Typed'
  <2>1. attempts' \in 0..(MaxAttempts - 1)  BY <1>1, Constants
  <2>2. settled' \in 0..saves'  BY <1>1, <1>7
  <2>3. Control'  BY <1>1, <2>1, <2>2 DEF Inductive, Typed, Control
  <2> QED  BY <1>1, <1>3, <1>6, <2>3 DEF Inductive, Typed
<1>9. NewestUnqueued'
  <2> SUFFICES ASSUME stage = "begin" PROVE InOrder(Tail(queue), 0, saves - 1)
    BY <1>1 DEF Inductive, NewestUnqueued
  <2>1. InOrder(queue, 0, saves - 1)  BY DEF Inductive, NewestUnqueued
  <2>2. saves - 1 \in Int /\ 0 \in Int  BY Numbers
  <2> QED  BY <1>1, <2>1, <2>2, Numbers, Popped
<1>10. HalfWritten' /\ StoppedIsEmpty' /\ ExistedInBoot' /\ LoadedExact'
  BY <1>1 DEF Inductive, HalfWritten, StoppedIsEmpty, ExistedInBoot, LoadedExact
<1> QED  BY <1>1, <1>3, <1>7, <1>8, <1>9, <1>10 DEF Inductive

\* A write that fails changes no file; the job may be given up.
LEMMA Failed ==
  ASSUME Inductive, WriteFails
  PROVE  Inductive' /\ UNCHANGED <<phase, mem, settled, DurableGen>>
<1>1. /\ queue # <<>> /\ half' = FALSE /\ phase = "up"
      /\ queue' = queue \/ queue' = Tail(queue)
      /\ UNCHANGED <<files, phase, todo, existed, mem, stage, cause, saves, settled>>
  BY DEF WriteFails, Fail, Shift, AtWork, nodeVars
<1>2. attempts' \in 0..(MaxAttempts - 1)
  BY Constants DEF WriteFails, Fail, Shift, Inductive, Typed, Control
<1>3. DurableGen' = DurableGen  BY <1>1 DEF DurableGen
<1>4. queue' \in Seq(Jobs) /\ QueueInOrder'
  <2>1. InOrder(queue, DurableGen, mem.gen) /\ InOrder(queue, settled, mem.gen)
    BY DEF Inductive, QueueInOrder
  <2>2. /\ Tail(queue) \in Seq(Jobs)
        /\ InOrder(Tail(queue), DurableGen, mem.gen) /\ InOrder(Tail(queue), settled, mem.gen)
    BY <1>1, <2>1, Numbers, Popped
  <2> QED  BY <1>1, <1>3, <2>1, <2>2, Numbers DEF QueueInOrder
<1>5. NewestUnqueued'
  <2> SUFFICES ASSUME stage = "begin" PROVE InOrder(queue', 0, saves - 1)
    BY <1>1 DEF Inductive, NewestUnqueued
  <2>1. InOrder(queue, 0, saves - 1)  BY DEF Inductive, NewestUnqueued
  <2>2. InOrder(Tail(queue), 0, saves - 1)
    <3>1. saves - 1 \in Int /\ 0 \in Int  BY Numbers
    <3> QED  BY <1>1, <2>1, <3>1, Numbers, Popped
  <2> QED  BY <1>1, <2>1, <2>2
<1>6. Typed'
  <2>1. Control'  BY <1>1, <1>2 DEF Inductive, Typed, Control
  <2> QED  BY <1>1, <1>4, <2>1 DEF Inductive, Typed, FilesTyped
<1>7. CopiesInOrder' /\ HalfWritten' /\ StoppedIsEmpty' /\ Spared' /\ ExistedInBoot' /\ LoadedExact'
  BY <1>1 DEF Inductive, CopiesInOrder, HalfWritten, StoppedIsEmpty, Spared, ExistedInBoot,
              LoadedExact
<1> QED  BY <1>1, <1>3, <1>4, <1>5, <1>6, <1>7 DEF Inductive

-----------------------------------------------------------------------------
(* Crash, damage and start keep it too. *)

LEMMA Crashed ==
  ASSUME Inductive, Crash
  PROVE  Inductive' /\ phase' = "down" /\ UNCHANGED <<settled, DurableGen>>
<1>1. /\ phase' = "down" /\ existed' = FALSE /\ todo' = <<>> /\ mem' = Nothing
      /\ stage' = "idle" /\ cause' = "none" /\ queue' = <<>> /\ attempts' = 0 /\ half' = FALSE
      /\ UNCHANGED <<files, saves, settled>>
  BY DEF Crash, DiskCrash
<1>2. DurableGen' = DurableGen  BY <1>1 DEF DurableGen
<1>3. queue' \in Seq(Jobs) /\ Len(queue') = 0 /\ todo' \in Seq(Kind)  BY <1>1
<1>4. QueueInOrder' /\ NewestUnqueued'  BY <1>1, <1>3 DEF QueueInOrder, InOrder, NewestUnqueued
<1>5. Typed'
  <2>1. attempts' \in 0..(MaxAttempts - 1)  BY <1>1, Constants
  <2>2. Control'  BY <1>1, <1>3, <2>1 DEF Inductive, Typed, Control
  <2>3. mem' \in Memory /\ mem'.gen <= saves'
    BY <1>1, Constants, Numbers DEF Nothing, Memory
  <2> QED  BY <1>1, <1>3, <2>2, <2>3 DEF Inductive, Typed, FilesTyped
<1>6. CopiesInOrder' /\ HalfWritten' /\ StoppedIsEmpty' /\ Spared' /\ ExistedInBoot' /\ LoadedExact'
  BY <1>1 DEF Inductive, CopiesInOrder, HalfWritten, StoppedIsEmpty, Spared, ExistedInBoot,
              LoadedExact
<1> QED  BY <1>1, <1>2, <1>4, <1>5, <1>6 DEF Inductive

\* A stopped node only needs its files looked at.
LEMMA StoppedStep ==
  ASSUME Inductive, phase \in {"down", "boot"}, phase' \in {"down", "boot"},
         UNCHANGED <<queue, attempts, half, mem, stage, cause, saves, settled>>,
         existed' \in BOOLEAN, existed' => phase' = "boot", todo' \in Seq(Kind),
         FilesTyped(files'), CopiesInOrder', Spared'
  PROVE  Inductive'
<1>1. queue = <<>> /\ half = FALSE /\ stage = "idle"  BY DEF Inductive, StoppedIsEmpty
<1>2. Typed'
  <2>1. Control'  BY DEF Inductive, Typed, Control
  <2> QED  BY <2>1 DEF Inductive, Typed
<1>3. QueueInOrder'
  <2>1. Len(queue') = 0  BY <1>1
  <2> QED  BY <2>1 DEF QueueInOrder, InOrder
<1>4. NewestUnqueued' /\ HalfWritten' /\ StoppedIsEmpty' /\ ExistedInBoot' /\ LoadedExact'
  BY <1>1 DEF NewestUnqueued, HalfWritten, StoppedIsEmpty, ExistedInBoot, LoadedExact
<1> QED  BY <1>2, <1>3, <1>4 DEF Inductive

LEMMA Damaged ==
  ASSUME Inductive, NEW k \in Kind, NEW copy, NEW other,
         <<copy, other>> \in {<<"primary", "backup">>, <<"backup", "primary">>},
         Damage(k, copy, other)
  PROVE  /\ Inductive' /\ phase = "down" /\ UNCHANGED <<phase, settled>>
         /\ PairSpared => DurableGen' = DurableGen \/ DurableGen' \in settled..DurableGen
<1> DEFINE p == [files[k] EXCEPT ![copy] = Corrupt]
<1>1. /\ phase = "down" /\ IsValid(files[k][copy])
      /\ PairSpared /\ k = "chain" => IsValid(files[k][other])
      /\ files' = Put(files, k, p)
      /\ UNCHANGED <<queue, attempts, half, phase, todo, existed, mem, stage, cause, saves, settled>>
  BY DEF Damage, nodeVars, Put
<1>2. files[k] \in PairOf(k) /\ copy \in {"primary", "backup"} /\ other \in {"primary", "backup"} \ {copy}
  BY DEF Inductive, Typed, FilesTyped
<1>3. p \in PairOf(k) /\ p[copy] = Corrupt /\ p[other] = files[k][other]
  BY <1>2 DEF PairOf, CopyOf
<1> HIDE DEF p
<1>4. FilesTyped(files') /\ files'[k] = p
  <2>1. FilesTyped(files)  BY DEF Inductive, Typed
  <2> QED  BY <1>1, <1>3, <2>1, FileSet
<1>5. CopiesInOrder' /\ Spared' /\ (PairSpared => DurableGen' = DurableGen \/ DurableGen' \in settled..DurableGen)
  <2>1. existed = FALSE  BY <1>1 DEF Inductive, ExistedInBoot, Typed, Control
  <2>2. CASE k # "chain"
    <3>1. files'["chain"] = files["chain"] /\ DurableGen' = DurableGen
      BY <1>1, <1>3, <2>2, OtherFile DEF Inductive
    <3>2. CopiesInOrder' /\ Spared'
      BY <1>1, <3>1 DEF Inductive, CopiesInOrder, Spared
    <3> QED  BY <3>1, <3>2
  <2>3. CASE k = "chain"
    <3>1. files'["chain"] = p  BY <1>4, <2>3
    <3>2. Ordered(files[k], settled, saves)  BY <2>3 DEF Inductive, CopiesInOrder
    <3>3. ~ IsValid(p[copy])  BY <1>3 DEF IsValid, Corrupt
    <3>4. Ordered(p, settled, saves)
      BY <1>2, <1>3, <3>2, <3>3 DEF Ordered
    <3>5. PairSpared => IsValid(p[other])  BY <1>1, <1>3, <2>3
    <3>6. CopiesInOrder' /\ Spared'
      BY <1>1, <1>2, <2>1, <3>1, <3>4, <3>5 DEF CopiesInOrder, Spared, OneCopy
    <3>7. ASSUME PairSpared PROVE GenOf(p) \in settled..GenOf(files[k])
      <4>1. CASE copy = "primary" /\ other = "backup"
        BY <4>1, <1>1, <1>3, <2>3, <3>2, <3>3, <3>5, <3>7, Numbers
           DEF GenOf, Readable, Ordered
      <4>2. CASE copy = "backup" /\ other = "primary"
        BY <4>2, <1>1, <1>3, <2>3, <3>2, <3>3, <3>5, <3>7, Numbers
           DEF GenOf, Readable, Ordered
      <4> QED  BY <4>1, <4>2, <1>2
    <3> QED  BY <2>3, <3>1, <3>6, <3>7, DurableIsGenOf
  <2> QED  BY <2>2, <2>3
<1>6. existed' \in BOOLEAN /\ todo' \in Seq(Kind) /\ ~ existed'
  BY <1>1 DEF Inductive, Typed, Control, ExistedInBoot
<1> QED  BY <1>1, <1>4, <1>5, <1>6, StoppedStep

LEMMA Booted ==
  ASSUME Inductive, Boot
  PROVE  Inductive' /\ phase = "down" /\ phase' = "boot" /\ UNCHANGED <<settled, DurableGen>>
<1>1. /\ phase = "down" /\ phase' = "boot" /\ todo' = <<"chain", "snapshot", "chainstate">>
      /\ existed' = (files["chain"].primary # Missing)
      /\ UNCHANGED <<files, queue, attempts, half, mem, stage, cause, saves, settled>>
  BY DEF Boot, diskVars
<1>2. todo' \in Seq(Kind)  BY <1>1, Constants
<1>3. existed' \in BOOLEAN  BY <1>1
<1>4. FilesTyped(files') /\ CopiesInOrder' /\ Spared'
  BY <1>1 DEF Inductive, Typed, FilesTyped, CopiesInOrder, Spared
<1>5. DurableGen' = DurableGen  BY <1>1 DEF DurableGen
<1> QED  BY <1>1, <1>2, <1>3, <1>4, <1>5, StoppedStep

\* A repair keeps what a start would load.
LEMMA RepairKeeps ==
  ASSUME NEW k, NEW pair \in PairOf(k), NEW p \in RepairedPairs(pair)
  PROVE  /\ p \in PairOf(k) /\ GenOf(p) = GenOf(pair) /\ (OneCopy(pair) => OneCopy(p))
         /\ OneCopy(pair) \/ pair.primary = Missing => OneCopy(p) \/ p.primary = Missing
         /\ \A low, high \in Nat : Ordered(pair, low, high) => Ordered(p, low, high)
<1>1. IsValid(pair.primary) \in BOOLEAN /\ IsValid(pair.backup) \in BOOLEAN /\ ~ IsValid(Missing)
  BY DEF IsValid, Missing
<1>2. CASE IsValid(pair.primary) /\ IsValid(pair.backup)
  BY <1>2 DEF RepairedPairs, OneCopy
<1>3. CASE IsValid(pair.primary) /\ ~ IsValid(pair.backup)
  <2>1. p = pair \/ p = [pair EXCEPT !.backup = pair.primary]
    BY <1>3 DEF RepairedPairs
  <2> QED
    BY <1>3, <2>1 DEF PairOf, OneCopy, GenOf, Readable, Ordered
<1>4. CASE ~ IsValid(pair.primary) /\ IsValid(pair.backup)
  <2>1. PICK copy \in {pair.primary, Missing, pair.backup} : p = [pair EXCEPT !.primary = copy]
    BY <1>4 DEF RepairedPairs
  <2> QED
    BY <1>1, <1>4, <2>1 DEF PairOf, CopyOf, OneCopy, GenOf, Readable, Ordered
<1>5. CASE ~ IsValid(pair.primary) /\ ~ IsValid(pair.backup)
  <2>1. p \in [primary : {pair.primary, Missing}, backup : {pair.backup, Missing}]
    BY <1>5 DEF RepairedPairs
  <2> QED
    BY <1>1, <1>5, <2>1 DEF PairOf, CopyOf, OneCopy, GenOf, Readable, Ordered
<1> QED  BY <1>1, <1>2, <1>3, <1>4, <1>5

LEMMA Repaired ==
  ASSUME Inductive, Repair
  PROVE  Inductive' /\ phase = "boot" /\ UNCHANGED <<phase, settled, DurableGen>>
<1> DEFINE k == Head(todo)
<1>1. /\ phase = "boot" /\ todo # <<>> /\ todo' = Tail(todo)
      /\ UNCHANGED <<queue, attempts, half, phase, existed, mem, stage, cause, saves, settled>>
  BY DEF Repair
<1>2. PICK p \in RepairedPairs(files[k]) : files' = Put(files, k, p)  BY DEF Repair, Put
<1>3. k \in Kind /\ Tail(todo) \in Seq(Kind) /\ FilesTyped(files)
  BY <1>1, HeadTailProperties DEF Inductive, Typed, Control
<1>4. files[k] \in PairOf(k)  BY <1>3 DEF FilesTyped
<1>5. /\ p \in PairOf(k) /\ GenOf(p) = GenOf(files[k]) /\ (OneCopy(files[k]) => OneCopy(p))
      /\ OneCopy(files[k]) \/ files[k].primary = Missing => OneCopy(p) \/ p.primary = Missing
      /\ \A low, high \in Nat : Ordered(files[k], low, high) => Ordered(p, low, high)
  BY <1>4, RepairKeeps
<1>6. FilesTyped(files') /\ files'[k] = p  BY <1>2, <1>3, <1>5, FileSet
<1>7. CopiesInOrder' /\ Spared' /\ DurableGen' = DurableGen
  <2>1. CASE k # "chain"
    <3>1. files'["chain"] = files["chain"] /\ DurableGen' = DurableGen
      BY <1>2, <1>3, <1>5, <2>1, OtherFile DEF Inductive
    <3> QED  BY <1>1, <3>1 DEF Inductive, CopiesInOrder, Spared
  <2>2. CASE k = "chain"
    <3>1. files'["chain"] = p  BY <1>6, <2>2
    <3>2. CopiesInOrder'  BY <1>1, <1>5, <2>2, <3>1, Numbers DEF Inductive, CopiesInOrder
    <3>3. Spared'  BY <1>1, <1>5, <2>2, <3>1 DEF Inductive, Spared
    <3> QED  BY <1>5, <2>2, <3>1, <3>2, <3>3, DurableIsGenOf
  <2> QED  BY <2>1, <2>2
<1>8. existed' \in BOOLEAN /\ (existed' => phase' = "boot")
  BY <1>1 DEF Inductive, Typed, Control
<1> QED  BY <1>1, <1>3, <1>6, <1>7, <1>8, StoppedStep

\* A node that comes up with nothing queued.
LEMMA UpStep ==
  ASSUME Inductive, phase = "boot", phase' = "up", existed' = FALSE,
         stage' \in {"idle", "restore", "new"},
         UNCHANGED <<queue, attempts, half, todo, cause, saves, settled>>,
         FilesTyped(files'), files'["chain"] = files["chain"],
         mem' \in Memory, mem'.gen = DurableGen, mem'.ledger = Last(mem'.blocks)
  PROVE  Inductive' /\ DurableGen' = DurableGen
<1>1. queue = <<>> /\ half = FALSE  BY DEF Inductive, StoppedIsEmpty
<1>2. DurableGen' = DurableGen  BY DurableIsGenOf
<1>3. Typed'
  <2>1. Control'  BY DEF Inductive, Typed, Control
  <2> QED  BY <2>1, Numbers DEF Inductive, Typed
<1>4. QueueInOrder'
  <2>1. Len(queue') = 0  BY <1>1
  <2> QED  BY <2>1 DEF QueueInOrder, InOrder
<1>5. CopiesInOrder' /\ Spared'  BY DEF Inductive, CopiesInOrder, Spared
<1>6. NewestUnqueued' /\ HalfWritten' /\ StoppedIsEmpty' /\ ExistedInBoot' /\ LoadedExact'
  BY <1>1 DEF NewestUnqueued, HalfWritten, StoppedIsEmpty, ExistedInBoot, LoadedExact
<1> QED  BY <1>2, <1>3, <1>4, <1>5, <1>6 DEF Inductive

LEMMA Loaded ==
  ASSUME Inductive, Load
  PROVE  /\ Inductive' /\ phase = "boot" /\ phase' = "up" /\ mem'.gen = DurableGen
         /\ UNCHANGED <<settled, DurableGen>>
<1> DEFINE copy == Readable(files["chain"])
           saved == copy.data
           fs == files["chainstate"]
           sn == files["snapshot"]
<1>1. /\ phase = "boot" /\ phase' = "up" /\ existed' = FALSE /\ IsValid(copy)
      /\ stage' \in {"idle", "restore"}
      /\ mem' = [gen |-> saved.gen, blocks |-> saved.blocks, base |-> saved.base,
                 ledger |-> LedgerOf(saved)]
      /\ UNCHANGED <<queue, attempts, half, todo, cause, saves, settled>>
  BY DEF Load
<1>2. PICK chainstate \in Heal(fs), snapshot \in {sn} \cup Heal(sn) :
        files' = Put(Put(files, "chainstate", chainstate), "snapshot", snapshot)
  BY DEF Load, SnapshotFiles, Put
<1>3. FilesTyped(files') /\ files'["chain"] = files["chain"]
  <2>1. /\ "chainstate" \in Kind /\ "snapshot" \in Kind /\ "chain" \in Kind
        /\ FilesTyped(files) /\ fs \in PairOf("chainstate") /\ sn \in PairOf("snapshot")
    BY Constants DEF Inductive, Typed, FilesTyped
  <2>2. chainstate \in PairOf("chainstate") /\ snapshot \in PairOf("snapshot")
    BY <2>1, HealTyped
  <2> DEFINE mid == Put(files, "chainstate", chainstate)
  <2>3. FilesTyped(mid) /\ mid["chain"] = files["chain"]
    <3> HIDE DEF FilesTyped
    <3> QED  BY <2>1, <2>2, FileSet
  <2> DEFINE end == Put(mid, "snapshot", snapshot)
  <2>4. files' = end  BY <1>2
  <2> HIDE DEF mid
  <2>5. end = Put(mid, "snapshot", snapshot)  OBVIOUS
  <2> HIDE DEF end, FilesTyped
  <2>6. FilesTyped(end) /\ \A j \in Kind : j # "snapshot" => end[j] = mid[j]
    BY <2>1, <2>2, <2>3, <2>5, FileSet
  <2> QED  BY <2>1, <2>3, <2>4, <2>6
<1>4. saved \in ChainContent /\ LedgerOf(saved) = Last(saved.blocks)
  BY <1>1, ReadableLoads, LedgerFound DEF Inductive
<1>5. Last(saved.blocks) \in Blk
  <2>1. saved.blocks \in Seq(Blk) /\ Len(saved.blocks) \in 1..Len(saved.blocks)
    BY <1>4, EmptySeq DEF ChainContent
  <2> QED  BY <2>1, ElementOfSeq DEF Last
<1>6. mem' \in Memory /\ mem'.gen = DurableGen /\ mem'.ledger = Last(mem'.blocks)
  <2>1. DurableGen = saved.gen  BY <1>1 DEF DurableGen
  <2> QED  BY <1>1, <1>4, <1>5, <2>1 DEF ChainContent, Memory
<1> QED  BY <1>1, <1>3, <1>6, UpStep

LEMMA Renewed ==
  ASSUME Inductive, NewChain
  PROVE  /\ Inductive' /\ phase = "boot" /\ phase' = "up" /\ mem'.gen = DurableGen
         /\ UNCHANGED <<settled, DurableGen>>
<1>1. /\ phase = "boot" /\ phase' = "up" /\ existed' = FALSE /\ stage' = "new"
      /\ mem' = Nothing
      /\ UNCHANGED <<files, queue, attempts, half, todo, cause, saves, settled>>
  <2>1. existed' = existed /\ ~ existed /\ existed \in BOOLEAN
    BY DEF NewChain, Inductive, Typed, Control
  <2> QED  BY <2>1 DEF NewChain, Unloadable, diskVars
<1>2. DurableGen = 0  BY UnloadableIsLost DEF Inductive, NewChain
<1>3. mem' \in Memory /\ mem'.gen = DurableGen /\ mem'.ledger = Last(mem'.blocks)
  BY <1>1, <1>2, Constants DEF Nothing, Memory, Last
<1>4. FilesTyped(files')  BY <1>1 DEF Inductive, Typed, FilesTyped
<1> QED  BY <1>1, <1>3, <1>4, UpStep

LEMMA Refused ==
  ASSUME Inductive, Refuse
  PROVE  Inductive' /\ ~ PairSpared
<1>1. /\ phase = "boot" /\ phase' = "down" /\ existed' = FALSE
      /\ UNCHANGED <<files, queue, attempts, half, todo, mem, stage, cause, saves, settled>>
  BY DEF Refuse, Unloadable, diskVars
<1>2. existed /\ ~ OneCopy(files["chain"])
  BY UnloadableIsLost DEF Inductive, Refuse
<1>3. ~ PairSpared  BY <1>2 DEF Inductive, Spared
<1>4. FilesTyped(files') /\ CopiesInOrder' /\ Spared' /\ todo' \in Seq(Kind)
  BY <1>1, <1>3 DEF Inductive, Typed, Control, FilesTyped, CopiesInOrder, Spared
<1> QED  BY <1>1, <1>3, <1>4, StoppedStep

-----------------------------------------------------------------------------
(* The theorems. *)

LEMMA Unmoved ==
  ASSUME Inductive, UNCHANGED vars
  PROVE  Inductive' /\ UNCHANGED <<phase, mem, settled, DurableGen>>
<1>1. UNCHANGED <<files, queue, attempts, half, phase, todo, existed, mem, stage, cause, saves, settled>>
  BY DEF vars, diskVars
<1>2. Typed' /\ CopiesInOrder' /\ DurableGen' = DurableGen
  BY <1>1 DEF Inductive, Typed, Control, FilesTyped, CopiesInOrder, DurableGen
<1>3. QueueInOrder' /\ NewestUnqueued'
  BY <1>1, <1>2 DEF Inductive, QueueInOrder, NewestUnqueued
<1>4. HalfWritten' /\ StoppedIsEmpty' /\ Spared' /\ ExistedInBoot' /\ LoadedExact'
  BY <1>1 DEF Inductive, HalfWritten, StoppedIsEmpty, Spared, ExistedInBoot, LoadedExact
<1> QED  BY <1>1, <1>2, <1>3, <1>4 DEF Inductive

\* What a step does to the numbers of DurableChain.
NumbersMove ==
  \/ UNCHANGED <<phase, mem, settled, DurableGen>>
  \/ phase = "up" /\ mem'.gen = saves + 1 /\ UNCHANGED <<phase, settled, DurableGen>>
  \/ /\ phase = "up" /\ UNCHANGED <<phase, mem, settled>>
     /\ DurableGen' = DurableGen \/ DurableGen' \in (DurableGen + 1)..mem.gen
  \/ /\ phase = "up" /\ UNCHANGED <<phase, mem, DurableGen>>
     /\ settled' = settled \/ settled' \in (settled + 1)..DurableGen
  \/ phase' = "down" /\ UNCHANGED <<settled, DurableGen>>
  \/ /\ phase = "down" /\ UNCHANGED <<phase, settled>>
     /\ DurableGen' = DurableGen \/ DurableGen' \in settled..DurableGen
  \/ phase = "down" /\ phase' = "boot" /\ UNCHANGED <<settled, DurableGen>>
  \/ phase = "boot" /\ UNCHANGED <<phase, settled, DurableGen>>
  \/ phase = "boot" /\ phase' = "up" /\ mem'.gen = DurableGen /\ UNCHANGED <<settled, DurableGen>>

LEMMA Step ==
  ASSUME Inductive, [Next]_vars
  PROVE  Inductive' /\ (PairSpared => NumbersMove)
<1>1. ASSUME NEW h \in Blk, Change(h) PROVE Inductive' /\ NumbersMove
  BY <1>1, ChangeSaves DEF NumbersMove
<1>2. ASSUME NEW h \in Blk, ImportCheckpoint(h) PROVE Inductive' /\ NumbersMove
  BY <1>2, ImportSaves DEF NumbersMove
<1>3. CASE QueueChain  BY <1>3, ChainQueued DEF NumbersMove
<1>4. CASE QueueRest  BY <1>4, RestQueued DEF NumbersMove
<1>5. CASE Write  BY <1>5, PrimaryWritten DEF NumbersMove
<1>6. CASE Copy  BY <1>6, BackupCopied DEF NumbersMove
<1>7. CASE WriteFails  BY <1>7, Failed DEF NumbersMove
<1>8. CASE Crash  BY <1>8, Crashed DEF NumbersMove
<1>9. ASSUME NEW k \in Kind, Damage(k, "primary", "backup") \/ Damage(k, "backup", "primary")
      PROVE  Inductive' /\ (PairSpared => NumbersMove)
  BY <1>9, Damaged DEF NumbersMove
<1>10. CASE Boot  BY <1>10, Booted DEF NumbersMove
<1>11. CASE Repair  BY <1>11, Repaired DEF NumbersMove
<1>12. CASE Load  BY <1>12, Loaded DEF NumbersMove
<1>13. CASE NewChain  BY <1>13, Renewed DEF NumbersMove
<1>14. CASE Refuse  BY <1>14, Refused
<1>15. CASE FirstSave  BY <1>15, FirstSaves DEF NumbersMove
<1>16. CASE UNCHANGED vars  BY <1>16, Unmoved DEF NumbersMove
<1>17. CASE NoLoad  BY <1>13, <1>14, <1>17 DEF NoLoad
<1> QED
  BY <1>1, <1>2, <1>3, <1>4, <1>5, <1>6, <1>7, <1>8, <1>9, <1>10, <1>11, <1>12, <1>15, <1>16,
     <1>17 DEF Next

\* The numbers move as DurableChain allows.
LEMMA StepRefines ==
  ASSUME Inductive, NumbersMove
  PROVE  [Promise!Next]_(Promise!vars)
<1>1. /\ mem.gen \in Nat /\ mem.gen <= saves /\ DurableGen \in Nat /\ settled \in Nat /\ saves \in Nat
      /\ phase \in {"down", "boot", "up"}
  BY Numbers DEF Inductive, Typed, Control
<1> QED
  BY <1>1 DEF NumbersMove, Promise!Next, Promise!vars, Promise!Save, Promise!Land, Promise!Settle,
     Promise!Stop, Promise!Lose, Promise!Start

(* The order of the saves on disk and in the queue holds of every behaviour  *)
(* of the files, the queue and the node, with whatever damage.               *)
THEOREM PersistenceInductive == Spec => []Inductive
<1>1. Init => Inductive  BY Initial
<1>2. Inductive /\ [Next]_vars => Inductive'  BY Step
<1> QED  BY <1>1, <1>2, PTL DEF Spec

(* Every file, job and number keeps its type, and no job is tried more often *)
(* than the queue allows.                                                    *)
THEOREM PersistenceTyped == Spec => []TypeOK
<1>1. Inductive => TypeOK
  <2> SUFFICES ASSUME Inductive PROVE TypeOK  OBVIOUS
  <2>1. ASSUME NEW k \in Kind, NEW copy \in {"primary", "backup"}
        PROVE  files[k][copy] \in {Missing, Corrupt} \/ files[k][copy].data \in Content(k)
    <3>1. files[k][copy] \in CopyOf(k)  BY DEF Inductive, Typed, FilesTyped, PairOf
    <3>2. CASE k = "chain"
      <4>1. IsValid(files[k][copy]) => files[k][copy].data.gen \in settled..saves
        BY <3>2 DEF Inductive, CopiesInOrder, Ordered
      <4> QED
        BY <3>1, <3>2, <4>1, Numbers DEF CopyOf, ContentOf, ChainContent, Content, Version, IsValid
    <3>3. CASE k # "chain"
      BY <3>1, <3>3 DEF CopyOf, ContentOf, LedgerContent, Content, LedgerFiles
    <3> QED  BY <3>2, <3>3
  <2>2. ASSUME NEW i \in DOMAIN queue  PROVE queue[i].data \in Content(queue[i].kind)
    <3>1. i \in 1..Len(queue) /\ queue[i] \in Jobs  BY Numbers, LenProperties, ElementOfSeq
    <3>2. queue[i].kind = "chain" => queue[i].data.gen \in settled..mem.gen
      BY <3>1 DEF Inductive, QueueInOrder, InOrder
    <3>3. CASE queue[i].kind = "chain"
      <4>1. queue[i].data \in ChainContent  BY <3>1, <3>3 DEF Jobs, LedgerJobs
      <4>2. queue[i].data.gen \in 1..saves  BY <3>2, <3>3, <4>1, Numbers DEF ChainContent
      <4> QED  BY <3>3, <4>1, <4>2 DEF ChainContent, Content, Version
    <3>4. CASE queue[i].kind # "chain"
      BY <3>1, <3>4 DEF Jobs, LedgerJobs, LedgerContent, Content, LedgerFiles
    <3> QED  BY <3>3, <3>4
  <2> QED  BY <2>1, <2>2, Numbers DEF Inductive, Typed, Control, TypeOK
<1> QED  BY <1>1, PersistenceInductive, PTL

(* Whichever generations of the chain file, the chainstate and the snapshot  *)
(* load() finds side by side, the ledger it puts under the chain is that of  *)
(* the chain's last block, and stays so.                                     *)
THEOREM PersistenceExact == Spec => []LoadedExact
<1>1. Inductive => LoadedExact  BY DEF Inductive
<1> QED  BY <1>1, PersistenceInductive, PTL

(* As long as damage spares one copy of the chain file, main() never ends    *)
(* the process over a chain file it cannot load.                             *)
THEOREM PersistenceNeverRefused ==
  ASSUME PairSpared
  PROVE  Spec => NeverRefused
<1>1. Inductive /\ [Next]_vars => [~ Refuse]_vars  BY Refused
<1> QED  BY <1>1, PersistenceInductive, PTL DEF Spec, NeverRefused

(* As long as damage spares one copy of the chain file, save(), the queue,   *)
(* the repair and load() implement DurableChain: a start is on the newest    *)
(* save that has landed, and a save that has settled is never lost.          *)
THEOREM PersistenceDurable ==
  ASSUME PairSpared
  PROVE  Spec => Durable
<1>1. Init => Promise!Init
  <2> SUFFICES ASSUME Init PROVE Promise!Init  OBVIOUS
  <2>1. DurableGen = 0
    BY Constants DEF Init, DiskInit, DurableGen, Readable, IsValid, Missing
  <2> QED  BY <2>1 DEF Init, Promise!Init
<1>2. Inductive /\ [Next]_vars => [Promise!Next]_(Promise!vars)  BY Step, StepRefines
<1> QED  BY <1>1, <1>2, PersistenceInductive, PTL DEF Spec, Durable, Promise!Spec

-----------------------------------------------------------------------------
(* The crash journal. *)

Entries == [save : Nat, status : {"open", "complete", "recovered"}]
JournalPairs == LET copies == {Missing, Corrupt} \cup [is : {"valid"}, data : Entries]
                IN [primary : copies, backup : copies]

\* An entry is open from the begin of a save to its end, a crash leaves it
\* open, and the start that finds it closes it before it does anything else.
Said ==
  \/ phase = "up" /\ stage \in {"begin", "queued"} /\ Open /\ ReadEntry(journal).save = saves
  \/ phase = "up" /\ stage \notin {"begin", "queued"} /\ ~ Open
  \/ phase = "boot" /\ ~ Open
  \/ phase = "down" /\ Open /\ cut = ReadEntry(journal).save
  \/ phase = "down" /\ ~ Open /\ cut = 0

JournalInductive ==
  /\ journal \in JournalPairs
  /\ saves \in Nat /\ phase \in {"down", "boot", "up"}
  /\ phase # "up" => stage = "idle"
  /\ phase = "boot" => cut = 0
  /\ whole => Said

\* A reader of q is told what a reader of p is.
SaysAs(p, q) == (Entered(p) <=> Entered(q)) /\ (Entered(p) => ReadEntry(p) = ReadEntry(q))

LEMMA WrittenPairs ==
  ASSUME NEW p \in JournalPairs, NEW e \in Entries, NEW q \in Written(p, e)
  PROVE  /\ q \in JournalPairs
         /\ q # p => Entered(q) /\ ReadEntry(q) = e
<1> DEFINE v == Valid(e)
<1>1. v \in [is : {"valid"}, data : Entries] /\ IsValid(v) /\ v.data = e  BY DEF Valid, IsValid
<1> HIDE DEF v
<1>2. Rewritten(p, e) = [p EXCEPT !.primary = v]  BY DEF Rewritten, v
<1>3. Rewritten(p, e) \in JournalPairs /\ Rewritten(p, e).primary = v
  BY <1>1, <1>2 DEF JournalPairs
<1>4. Copied(Rewritten(p, e)) \in JournalPairs /\ Copied(Rewritten(p, e)).primary = v
  BY <1>1, <1>3 DEF JournalPairs, Copied
<1>5. q # p => q \in JournalPairs /\ q.primary = v  BY <1>3, <1>4 DEF Written
<1> QED  BY <1>1, <1>5 DEF Entered, ReadEntry, Readable

LEMMA EntryRead ==
  ASSUME NEW p \in JournalPairs, Entered(p)
  PROVE  ReadEntry(p) \in Entries
BY DEF JournalPairs, Entered, ReadEntry, Readable, IsValid, Missing, Corrupt

(* The updates of a stage change neither whether there is an entry nor what *)
(* it says.                                                                 *)
LEMMA StagedSays ==
  ASSUME NEW p \in JournalPairs, NEW q \in Staged(p)
  PROVE  q \in JournalPairs /\ SaysAs(p, q)
<1>1. CASE Entered(p)
  BY <1>1, EntryRead, WrittenPairs DEF Staged, SaysAs
<1>2. CASE ~ Entered(p)  BY <1>2 DEF Staged, SaysAs
<1> QED  BY <1>1, <1>2

LEMMA UpdatedPairs ==
  ASSUME NEW p \in JournalPairs, NEW s \in {"open", "complete", "recovered"}, NEW q \in Updated(p, s)
  PROVE  q \in JournalPairs /\ (~ Entered(p) => ~ Entered(q))
<1>1. CASE Entered(p)
  <2>1. [ReadEntry(p) EXCEPT !.status = s] \in Entries  BY <1>1, EntryRead DEF Entries
  <2> QED  BY <1>1, <2>1, WrittenPairs DEF Updated
<1>2. CASE ~ Entered(p)  BY <1>2 DEF Updated
<1> QED  BY <1>1, <1>2

(* The repair of a start never changes what the pair says, whichever of its *)
(* moves and copies fail.                                                   *)
LEMMA RepairedSays ==
  ASSUME NEW p \in JournalPairs, NEW q \in RepairedPairs(p)
  PROVE  q \in JournalPairs /\ SaysAs(p, q)
<1>1. CASE IsValid(p.primary)
  BY <1>1 DEF RepairedPairs, JournalPairs, SaysAs, Entered, ReadEntry, Readable
<1>2. CASE ~ IsValid(p.primary) /\ IsValid(p.backup)
  <2>1. PICK copy \in {p.primary, Missing, p.backup} : q = [p EXCEPT !.primary = copy]
    BY <1>2 DEF RepairedPairs
  <2>2. q.primary = copy /\ q.backup = p.backup /\ q \in JournalPairs
    BY <2>1 DEF JournalPairs
  <2>3. ~ IsValid(Missing)  BY DEF IsValid, Missing
  <2> QED  BY <1>2, <2>1, <2>2, <2>3 DEF SaysAs, Entered, ReadEntry, Readable
<1>3. CASE ~ IsValid(p.primary) /\ ~ IsValid(p.backup)
  <2>1. q \in [primary : {p.primary, Missing}, backup : {p.backup, Missing}]
    BY <1>3 DEF RepairedPairs
  <2>2. ~ IsValid(Missing)  BY DEF IsValid, Missing
  <2>3. q \in JournalPairs  BY <2>1 DEF JournalPairs
  <2> QED  BY <1>3, <2>1, <2>2, <2>3 DEF SaysAs, Entered, Readable
<1> QED  BY <1>1, <1>2, <1>3

LEMMA JournalStarts == Init /\ JournalInit => JournalInductive
<1> SUFFICES ASSUME Init, JournalInit PROVE JournalInductive  OBVIOUS
<1>1. journal \in JournalPairs  BY DEF JournalInit, JournalPairs
<1>2. ~ Open  BY DEF Open, Entered, Readable, IsValid, Missing, JournalInit
<1> QED  BY <1>1, <1>2 DEF JournalInductive, Said, Init, JournalInit

\* A save has begun.
LEMMA JournalBegins ==
  ASSUME JournalInductive, Begin, phase' = "up", saves' = saves + 1, stage' = "begin"
  PROVE  JournalInductive'
<1> DEFINE e == Entry(saves', "open")
<1>1. PICK begun \in Written(journal, e) :
        journal' \in Staged(begun) /\ whole' = (begun.primary = Valid(e))
  BY DEF Begin
<1>2. saves' \in Nat /\ e \in Entries  BY DEF JournalInductive, Entry, Entries
<1>3. begun \in JournalPairs  BY <1>1, <1>2, WrittenPairs DEF JournalInductive
<1>4. journal' \in JournalPairs /\ SaysAs(begun, journal')  BY <1>1, <1>3, StagedSays
<1>5. ASSUME whole' PROVE Said'
  <2>1. Entered(begun) /\ ReadEntry(begun) = e
    <3>1. begun.primary = Valid(e)  BY <1>1, <1>5
    <3>2. IsValid(Valid(e)) /\ Valid(e).data = e  BY DEF IsValid, Valid
    <3> QED  BY <3>1, <3>2 DEF Entered, ReadEntry, Readable
  <2>2. Entered(journal') /\ ReadEntry(journal') = e  BY <1>4, <2>1 DEF SaysAs
  <2> QED  BY <2>2 DEF Said, Open, Entry
<1> QED  BY <1>2, <1>4, <1>5 DEF JournalInductive

\* A step that leaves the journal saying what it says.
LEMMA JournalSame ==
  ASSUME JournalInductive, journal' \in JournalPairs, UNCHANGED saves,
         SaysAs(journal, journal'), whole' => whole,
         phase' \in {"down", "boot", "up"}, phase' # "up" => stage' = "idle",
         phase' = "boot" => cut' = 0,
         \/ UNCHANGED <<phase, stage, cut>>
         \/ phase' = "up" /\ UNCHANGED phase /\ (stage \in {"begin", "queued"} <=> stage' \in {"begin", "queued"})
         \/ phase = "boot" /\ phase' = "up" /\ stage' \notin {"begin", "queued"}
         \/ phase = "boot" /\ phase' = "down" /\ cut' = 0
         \/ phase' = "down" /\ cut' = (IF stage \in {"begin", "queued"} THEN saves ELSE 0) /\ phase # "down"
  PROVE  JournalInductive'
<1>1. Open' <=> Open  BY DEF Open, SaysAs
<1>2. Open => ReadEntry(journal') = ReadEntry(journal)  BY DEF Open, SaysAs
<1>3. ASSUME whole' PROVE Said'
  BY <1>1, <1>2, <1>3 DEF Said, JournalInductive
<1> QED  BY <1>3 DEF JournalInductive

LEMMA JournalStep ==
  ASSUME JournalInductive, [JournalNext]_allVars
  PROVE  JournalInductive'
<1> USE DEF vars, diskVars, nodeVars, journalVars
<1>0. journal \in JournalPairs /\ SaysAs(journal, journal) /\ saves \in Nat
  BY DEF JournalInductive, SaysAs
<1>1. ASSUME NEW h \in Blk, JournalChange(h) \/ JournalImport(h) PROVE JournalInductive'
  BY <1>1, JournalBegins DEF JournalChange, JournalImport, Change, ImportCheckpoint, Idle, BeginSave
<1>2. CASE JournalFirst
  BY <1>2, JournalBegins DEF JournalFirst, FirstSave, BeginSave
<1>3. CASE JournalChainSave
  <2>1. journal' \in JournalPairs /\ SaysAs(journal, journal')
    BY <1>0, <1>3, StagedSays DEF JournalChainSave
  <2> QED  BY <1>0, <1>3, <2>1, JournalSame DEF JournalChainSave, QueueChain
<1>4. CASE JournalRest
  <2>1. PICK staged \in Staged(journal) : Complete(staged)  BY <1>4 DEF JournalRest
  <2>2. staged \in JournalPairs  BY <1>0, <2>1, StagedSays
  <2>3. journal' \in JournalPairs /\ (~ Entered(staged) => ~ Entered(journal'))
    BY <2>1, <2>2, UpdatedPairs DEF Complete
  <2>4. whole' => ~ Open'
    BY <2>1, <2>3 DEF Complete, Open
  <2> QED  BY <1>0, <1>4, <2>3, <2>4 DEF JournalRest, QueueRest, JournalInductive, Said
<1>5. CASE Aside(Write) \/ Aside(Copy) \/ Aside(WriteFails)
  BY <1>0, <1>5, JournalSame DEF Aside, Write, Copy, WriteFails, JournalInductive
<1>6. CASE JournalCrash
  BY <1>0, <1>6, JournalSame DEF JournalCrash, Crash
<1>7. ASSUME NEW k \in Kind,
             Aside(Damage(k, "primary", "backup") \/ Damage(k, "backup", "primary"))
      PROVE  JournalInductive'
  BY <1>0, <1>7, JournalSame DEF Aside, Damage, JournalInductive
<1>8. ASSUME NEW copy \in {"primary", "backup"}, JournalDamage(copy) PROVE JournalInductive'
  <2>1. journal' \in JournalPairs  BY <1>0, <1>8 DEF JournalDamage, JournalPairs
  <2>2. ASSUME whole' PROVE SaysAs(journal, journal') /\ whole
    BY <1>8, <2>2 DEF JournalDamage, SaysAs, Entered, ReadEntry
  <2>3. UNCHANGED <<saves, phase, stage, cut>>  BY <1>8 DEF JournalDamage
  <2>4. CASE whole'
    BY <1>0, <2>1, <2>2, <2>3, <2>4, JournalSame DEF JournalInductive
  <2> QED  BY <2>1, <2>3, <2>4 DEF JournalInductive
<1>9. CASE JournalBoot
  <2>1. phase' = "boot" /\ cut' = 0 /\ UNCHANGED <<saves, stage>> /\ phase = "down" /\ Recover
    BY <1>9 DEF JournalBoot, Boot
  <2>2. CASE Open
    <3>1. journal' \in Updated(journal, "recovered")
          /\ whole' = (whole /\ ReadEntry(journal').status = "recovered")
      BY <2>1, <2>2 DEF Recover
    <3>2. journal' \in JournalPairs  BY <1>0, <3>1, UpdatedPairs
    <3>3. whole' => ~ Open'  BY <3>1 DEF Open
    <3> QED  BY <1>0, <2>1, <3>2, <3>3 DEF JournalInductive, Said
  <2>3. CASE ~ Open
    <3>1. UNCHANGED journal /\ ~ Open'  BY <2>1, <2>3 DEF Recover, Open
    <3> QED  BY <1>0, <2>1, <3>1 DEF JournalInductive, Said
  <2> QED  BY <2>2, <2>3
<1>10. CASE JournalRepair
  <2>1. journal' \in JournalPairs /\ SaysAs(journal, journal')
    BY <1>0, <1>10, RepairedSays DEF JournalRepair
  <2> QED  BY <1>0, <1>10, <2>1, JournalSame DEF JournalRepair, Repair, JournalInductive
<1>11. CASE Aside(Load)
  BY <1>0, <1>11, JournalSame DEF Aside, Load
<1>12. CASE Aside(NoLoad)
  <2>1. CASE Aside(Refuse)
    BY <1>0, <2>1, JournalSame DEF Aside, Refuse, Unloadable, JournalInductive
  <2>2. CASE Aside(NewChain)
    BY <1>0, <2>2, JournalSame DEF Aside, NewChain, Unloadable
  <2> QED  BY <1>12, <2>1, <2>2 DEF Aside, NoLoad
<1>13. CASE UNCHANGED allVars
  BY <1>0, <1>13, JournalSame DEF allVars, JournalInductive
<1> QED
  BY <1>1, <1>2, <1>3, <1>4, <1>5, <1>6, <1>7, <1>8, <1>9, <1>10, <1>11, <1>12, <1>13
  DEF JournalNext

(* What the journal says when its last word was written and is not lost: a  *)
(* node that is down has an open entry if and only if the crash cut a save  *)
(* short, and it names that save, for any number of saves, crashes, starts  *)
(* and repairs.                                                             *)
THEOREM JournalTold == JournalSpec => []JournalTells
<1>1. Init /\ JournalInit => JournalInductive  BY JournalStarts
<1>2. JournalInductive /\ [JournalNext]_allVars => JournalInductive'  BY JournalStep
<1>3. JournalInductive => JournalTells
  BY DEF JournalInductive, Said, JournalTells
<1> QED  BY <1>1, <1>2, <1>3, PTL DEF JournalSpec

\* Whatever the journal does, the files and the node move as without it.
LEMMA JournalAside == [JournalNext]_allVars => [Next]_vars
<1> SUFFICES ASSUME [JournalNext]_allVars PROVE [Next]_vars  OBVIOUS
<1>1. ASSUME JournalNext PROVE [Next]_vars
  <2>1. ASSUME NEW h \in Blk, JournalChange(h) \/ JournalImport(h) PROVE Next
    BY <2>1 DEF JournalChange, JournalImport, Next
  <2>2. CASE JournalFirst \/ JournalChainSave \/ JournalRest \/ JournalCrash \/ JournalBoot \/ JournalRepair
    BY <2>2 DEF JournalFirst, JournalChainSave, JournalRest, JournalCrash, JournalBoot, JournalRepair, Next
  <2>3. CASE Aside(Write) \/ Aside(Copy) \/ Aside(WriteFails) \/ Aside(Load) \/ Aside(NoLoad)
    BY <2>3 DEF Aside, Next
  <2>4. ASSUME NEW k \in Kind,
               Aside(Damage(k, "primary", "backup") \/ Damage(k, "backup", "primary"))
        PROVE  Next
    BY <2>4 DEF Aside, Next
  <2>5. ASSUME NEW copy \in {"primary", "backup"}, JournalDamage(copy) PROVE [Next]_vars
    BY <2>5 DEF JournalDamage
  <2> QED  BY <1>1, <2>1, <2>2, <2>3, <2>4, <2>5 DEF JournalNext
<1> QED  BY <1>1 DEF allVars

(* A node that keeps the journal loads the right ledger all the same: what  *)
(* the journal writes, or fails to, never reaches the chain's own files.    *)
THEOREM JournalExact == JournalSpec => []LoadedExact
<1>1. Init => Inductive  BY Initial
<1>2. Inductive /\ [JournalNext]_allVars => Inductive'  BY Step, JournalAside
<1>3. Inductive => LoadedExact  BY DEF Inductive
<1> QED  BY <1>1, <1>2, <1>3, PTL DEF JournalSpec

=============================================================================
