---------------------------- MODULE Chain_proofs ----------------------------
(***************************************************************************)
(* The invariants of Chain, for any tree of blocks, any ranges a peer may  *)
(* send and any interleaving of the handlers.                              *)
(*                                                                         *)
(* A node is in order, Good, when its local blocks are a piece of the      *)
(* chain (valid blocks, each on the one before it), the checkpoint is the  *)
(* height and the root of the first, the cached ledger the root of the     *)
(* last, and what it saved is such a piece with its checkpoint too.  Every *)
(* handler keeps a node in order and, but for an import and a restart,     *)
(* either leaves its tip or moves it to one with more work (Onward).  The  *)
(* handlers' loops are folds: Folding says what a fold goes through.       *)
(*                                                                         *)
(* For this the ledger is not looked into: a block is valid only if its    *)
(* header's root is the ledger it leaves, and a replay, an undo with its   *)
(* redo, or a single new block all compare with that root.                 *)
(*                                                                         *)
(* What is in the ledger comes after: along the links of valid blocks, the *)
(* books of each root are right (Booked) and the transfers of its chain    *)
(* are behind its nonces (Spent); and the cache is the root of the tip.    *)
(*                                                                         *)
(* Last, what the node shows and implements: no orphan is attached, so the *)
(* pool takes the steps of Mempool or throws out the tails of senders; no  *)
(* pending transfer is confirmed on the node's own chain; one debugging    *)
(* request tells two tips apart; and an account's page of history sums up  *)
(* to its balance.                                                         *)
(***************************************************************************)
EXTENDS Explorer, SequenceTheorems, FiniteSetTheorems, TLAPS

USE ChainAssumption

-----------------------------------------------------------------------------
(* Induction along the links of blocks. *)

LEMMA GenesisIn == Genesis \in Blk
  OBVIOUS

\* What holds of genesis and of a block whenever it holds of its parent, holds of all.
LEMMA BlkSet ==
  ASSUME NEW K, Genesis \in K, \A h \in Blk \ {Genesis} : Header[h].prev \in K => h \in K
  PROVE  Blk \subseteq K
<1>1. SUFFICES ASSUME NEW S, S = Blk \ K, S # {}
               PROVE  FALSE
  OBVIOUS
<1>2. PICK h \in S : Header[h].prev \notin S
  BY <1>1, HeaderAssumption
<1>3. h \in Blk \ {Genesis} /\ Header[h].prev \in Blk
  BY <1>1, HeaderAssumption
<1> QED
  BY <1>1, <1>2, <1>3

\* The path of a block, as a property.
IsPath(P, h) ==
  /\ P \in Seq(Blk) /\ P # <<>> /\ P[1] = Genesis /\ P[Len(P)] = h
  /\ \A i \in 2..Len(P) : P[i] # Genesis /\ Header[P[i]].prev = P[i - 1]

\* Nothing leads to genesis, and a path is the path of the parent and the block.
LEMMA PathOfGenesis ==
  ASSUME NEW P, IsPath(P, Genesis)
  PROVE  P = <<Genesis>>
<1>1. Len(P) \in Nat /\ Len(P) >= 1
  BY DEF IsPath
<1>2. Len(P) = 1
  <2>1. Len(P) >= 2 => P[Len(P)] # Genesis
    BY <1>1 DEF IsPath
  <2>2. P[Len(P)] = Genesis
    BY DEF IsPath
  <2> QED
    BY <1>1, <2>1, <2>2
<1>3. /\ <<Genesis>> \in Seq(Blk) /\ Len(<<Genesis>>) = 1 /\ P \in Seq(Blk)
      /\ \A i \in 1..1 : P[i] = <<Genesis>>[i]
  BY DEF IsPath
<1> QED
  BY <1>2, <1>3, SeqEqual

LEMMA PathGrows ==
  ASSUME NEW h \in Blk \ {Genesis}, NEW P, IsPath(P, Header[h].prev)
  PROVE  IsPath(Append(P, h), h)
<1> DEFINE Q == Append(P, h)
<1>1. /\ Q \in Seq(Blk) /\ Q # <<>> /\ Len(Q) = Len(P) + 1 /\ Len(P) \in Nat /\ Len(P) >= 1
      /\ Q[Len(P) + 1] = h /\ \A i \in 1..Len(P) : Q[i] = P[i]
  BY DEF IsPath
<1> HIDE DEF Q
<1>2. ASSUME NEW i \in 2..Len(Q)
      PROVE  Q[i] # Genesis /\ Header[Q[i]].prev = Q[i - 1]
  <2>1. CASE i = Len(P) + 1
    BY <1>1, <2>1 DEF IsPath
  <2>2. CASE i \in 2..Len(P)
    <3>1. i \in 1..Len(P) /\ i - 1 \in 1..Len(P)
      BY <1>1, <2>2
    <3> QED
      BY <1>1, <2>2, <3>1 DEF IsPath
  <2> QED
    BY <1>1, <2>1, <2>2
<1>3. Q[1] = Genesis /\ Q[Len(Q)] = h
  BY <1>1 DEF IsPath
<1>4. IsPath(Q, h)
  BY <1>1, <1>2, <1>3 DEF IsPath
<1> QED
  BY <1>4 DEF Q

LEMMA PathShrinks ==
  ASSUME NEW h \in Blk \ {Genesis}, NEW P, IsPath(P, h)
  PROVE  \E Q : IsPath(Q, Header[h].prev) /\ P = Append(Q, h)
<1> DEFINE n == Len(P) - 1
           Q == [i \in 1..n |-> P[i]]
<1>1. Len(P) \in Nat /\ Len(P) >= 2
  BY DEF IsPath
<1>2. n \in Nat /\ n >= 1 /\ n + 1 = Len(P)
  BY <1>1
<1>3. /\ Q \in Seq(Blk) /\ Len(Q) = n /\ Q # <<>>
      /\ \A i \in 1..n : Q[i] = P[i]
  <2>1. \A i \in 1..n : P[i] \in Blk
    BY <1>2 DEF IsPath
  <2> HIDE DEF n
  <2>2. Q \in Seq(Blk) /\ Len(Q) = n
    BY <1>2, <2>1
  <2> QED
    BY <1>2, <2>2
<1> HIDE DEF Q, n
<1>4. IsPath(Q, Header[h].prev)
  <2>1. Q[1] = Genesis /\ Q[Len(Q)] = Header[h].prev
    <3>1. Header[P[n + 1]].prev = P[(n + 1) - 1]
      BY <1>2 DEF IsPath
    <3> QED
      BY <1>2, <1>3, <3>1 DEF IsPath
  <2>2. ASSUME NEW i \in 2..Len(Q)
        PROVE  Q[i] # Genesis /\ Header[Q[i]].prev = Q[i - 1]
    <3>1. i \in 1..n /\ i - 1 \in 1..n /\ i \in 2..Len(P)
      BY <1>2, <1>3
    <3> QED
      BY <1>3, <3>1 DEF IsPath
  <2> QED
    BY <1>3, <2>1, <2>2 DEF IsPath
<1>5. P = Append(Q, h)
  <2>1. Append(Q, h) \in Seq(Blk) /\ Len(Append(Q, h)) = Len(P)
    BY <1>2, <1>3
  <2>2. \A i \in 1..Len(P) : P[i] = Append(Q, h)[i]
    BY <1>2, <1>3 DEF IsPath
  <2>3. P \in Seq(Blk)
    BY DEF IsPath
  <2> QED
    BY <2>1, <2>2, <2>3, SeqEqual
<1> QED
  BY <1>4, <1>5

\* There is one path to each block.
LEMMA OnePath ==
  \A h \in Blk : \E P : IsPath(P, h) /\ \A Q : IsPath(Q, h) => Q = P
<1> DEFINE K == {h \in Blk : \E P : IsPath(P, h) /\ \A Q : IsPath(Q, h) => Q = P}
<1>1. Genesis \in K
  <2>1. IsPath(<<Genesis>>, Genesis)
    BY DEF IsPath
  <2> QED
    BY <2>1, PathOfGenesis
<1>2. ASSUME NEW h \in Blk \ {Genesis}, Header[h].prev \in K
      PROVE  h \in K
  <2>1. PICK P : IsPath(P, Header[h].prev) /\ \A Q : IsPath(Q, Header[h].prev) => Q = P
    BY <1>2
  <2>2. IsPath(Append(P, h), h)
    BY <2>1, PathGrows
  <2>3. ASSUME NEW Q, IsPath(Q, h)
        PROVE  Q = Append(P, h)
    BY <2>1, <2>3, PathShrinks
  <2> QED
    BY <2>2, <2>3
<1> HIDE DEF K
<1>3. Blk \subseteq K
  BY <1>1, <1>2, BlkSet
<1> QED
  BY <1>3 DEF K

\* The recursive function PathTo satisfies its equation.
LEMMA PathToDef ==
  PathTo = [h \in Blk |-> IF h = Genesis THEN <<h>> ELSE Append(PathTo[Header[h].prev], h)]
<1> DEFINE f == [h \in Blk |-> CHOOSE P : IsPath(P, h)]
           rhs == [h \in Blk |-> IF h = Genesis THEN <<h>> ELSE Append(f[Header[h].prev], h)]
<1>1. ASSUME NEW h \in Blk
      PROVE  IsPath(f[h], h) /\ \A Q : IsPath(Q, h) => Q = f[h]
  BY OnePath
<1>2. ASSUME NEW h \in Blk
      PROVE  f[h] = rhs[h]
  <2>1. CASE h = Genesis
    BY <1>1, <2>1, PathOfGenesis
  <2>2. CASE h # Genesis
    <3>1. Header[h].prev \in Blk
      BY <2>2, HeaderAssumption
    <3> HIDE DEF f
    <3>2. IsPath(Append(f[Header[h].prev], h), h)
      BY <1>1, <2>2, <3>1, PathGrows
    <3> QED
      BY <1>1, <2>2, <3>2
  <2> QED
    BY <2>1, <2>2
<1>3. f = rhs
  BY <1>2
<1>4. \E g : g = [h \in Blk |-> IF h = Genesis THEN <<h>> ELSE Append(g[Header[h].prev], h)]
  <2> HIDE DEF f
  <2> QED
    BY <1>3
<1> QED
  BY <1>4 DEF PathTo

LEMMA PathToGenesis == PathTo[Genesis] = <<Genesis>>
  BY PathToDef, GenesisIn

LEMMA PathToNext ==
  ASSUME NEW h \in Blk \ {Genesis}
  PROVE  PathTo[h] = Append(PathTo[Header[h].prev], h)
  BY PathToDef

\* PathTo gives it.
LEMMA PathToIs == \A h \in Blk : IsPath(PathTo[h], h)
<1> DEFINE K == {h \in Blk : IsPath(PathTo[h], h)}
<1>1. Genesis \in K
  <2>1. IsPath(<<Genesis>>, Genesis)
    BY DEF IsPath
  <2> QED
    BY <2>1, PathToGenesis
<1>2. ASSUME NEW h \in Blk \ {Genesis}, Header[h].prev \in K
      PROVE  h \in K
  BY <1>2, PathToNext, PathGrows
<1> HIDE DEF K
<1>3. Blk \subseteq K
  BY <1>1, <1>2, BlkSet
<1> QED
  BY <1>3 DEF K

-----------------------------------------------------------------------------
(* The folds of the model, as instances of what Folding proves. *)

Replaying == INSTANCE Folding WITH op <- ReplayStep
Weighing == INSTANCE Folding WITH op <- Weigh

LEMMA ReplayFolds ==
  ASSUME NEW path, NEW height, NEW st
  PROVE  Replay(path, height, st)
           = Replaying!Fold([ok |-> TRUE, st |-> st, height |-> height, tip |-> Head(path)],
                            Tail(path))
  BY DEF Replay, Replaying!Fold, Replaying!MapThenFoldSet,
         Replaying!Max, Max, FoldLeft, MapThenFoldSet

LEMMA WorkFolds ==
  ASSUME NEW path
  PROVE  Work(path) = Weighing!Fold(0, Tail(path))
  BY DEF Work, Weighing!Fold, Weighing!MapThenFoldSet,
         Weighing!Max, Max, FoldLeft, MapThenFoldSet

\* What is nonempty is a block more than something, or one block.
LEMMA PathSet ==
  ASSUME NEW K, \A h \in Blk : <<h>> \in K,
         \A P \in Seq(Blk) \ {<<>>}, h \in Blk : P \in K => Append(P, h) \in K
  PROVE  Seq(Blk) \ {<<>>} \subseteq K
<1> DEFINE L == {P \in Seq(Blk) : P = <<>> \/ P \in K}
<1>1. <<>> \in L
  OBVIOUS
<1>2. ASSUME NEW P \in Seq(Blk), NEW h \in Blk, P \in L
      PROVE  Append(P, h) \in L
  <2>1. Append(P, h) \in Seq(Blk) /\ Append(<<>>, h) = <<h>>
    OBVIOUS
  <2> QED
    BY <1>2, <2>1
<1> HIDE DEF L
<1>3. Seq(Blk) \subseteq L
  BY <1>1, <1>2, Replaying!SeqSet
<1> QED
  BY <1>3 DEF L

\* A replay of one block, and of a block more; the work of them.
LEMMA ReplayOne ==
  ASSUME NEW h, NEW height, NEW st
  PROVE  Replay(<<h>>, height, st) = [ok |-> TRUE, st |-> st, height |-> height, tip |-> h]
<1>1. Head(<<h>>) = h /\ Tail(<<h>>) = <<>>
  OBVIOUS
<1> QED
  BY <1>1, ReplayFolds, Replaying!FoldEmpty

LEMMA ReplayMore ==
  ASSUME NEW P \in Seq(Blk) \ {<<>>}, NEW h \in Blk, NEW height, NEW st
  PROVE  Replay(Append(P, h), height, st) = ReplayStep(Replay(P, height, st), h)
<1>1. Head(Append(P, h)) = Head(P) /\ Tail(Append(P, h)) = Append(Tail(P), h)
  BY HeadTailAppend
<1> DEFINE s == Tail(P)
           start == [ok |-> TRUE, st |-> st, height |-> height, tip |-> Head(P)]
<1>2. s \in Seq(Blk)
  OBVIOUS
<1>3. /\ Replay(P, height, st) = Replaying!Fold(start, s)
      /\ Replay(Append(P, h), height, st) = Replaying!Fold(start, Append(s, h))
  BY <1>1, ReplayFolds
<1> HIDE DEF s, start
<1>4. Replaying!Fold(start, Append(s, h)) = ReplayStep(Replaying!Fold(start, s), h)
  BY <1>2, Replaying!FoldAppend
<1> QED
  BY <1>3, <1>4

LEMMA WorkOne ==
  ASSUME NEW h
  PROVE  Work(<<h>>) = 0
<1>1. Tail(<<h>>) = <<>>
  OBVIOUS
<1> QED
  BY <1>1, WorkFolds, Weighing!FoldEmpty

LEMMA WorkMore ==
  ASSUME NEW P \in Seq(Blk) \ {<<>>}, NEW h \in Blk
  PROVE  Work(Append(P, h)) = Work(P) + 16 ^ Header[h].difficulty
<1>1. Tail(Append(P, h)) = Append(Tail(P), h)
  BY HeadTailAppend
<1> DEFINE s == Tail(P)
<1>2. s \in Seq(Blk)
  OBVIOUS
<1>3. Work(P) = Weighing!Fold(0, s) /\ Work(Append(P, h)) = Weighing!Fold(0, Append(s, h))
  BY <1>1, WorkFolds
<1> HIDE DEF s
<1>4. Weighing!Fold(0, Append(s, h)) = Weigh(Weighing!Fold(0, s), h)
  BY <1>2, Weighing!FoldAppend
<1> QED
  BY <1>3, <1>4 DEF Weigh

\* A refused block leaves a replay refused.
LEMMA StepOk ==
  ASSUME NEW done, "ok" \in DOMAIN done, NEW h
  PROVE  LET next == ReplayStep(done, h)
             v == Validate(h, done.height + 1, done.st)
         IN /\ "ok" \in DOMAIN next
            /\ next.ok => /\ done.ok /\ v.ok /\ Header[h].prev = done.tip
                          /\ next = [ok |-> TRUE, st |-> v.st, height |-> done.height + 1, tip |-> h]
            /\ done.ok /\ v.ok /\ Header[h].prev = done.tip => next.ok
<1> DEFINE v == Validate(h, done.height + 1, done.st)
<1> HIDE DEF v
<1>1. ReplayStep(done, h) =
        IF done.ok /\ v.ok /\ Header[h].prev = done.tip
        THEN [ok |-> TRUE, st |-> v.st, height |-> done.height + 1, tip |-> h]
        ELSE [done EXCEPT !.ok = FALSE]
  BY DEF ReplayStep, v
<1>2. /\ [done EXCEPT !.ok = FALSE].ok = FALSE /\ "ok" \in DOMAIN [done EXCEPT !.ok = FALSE]
  OBVIOUS
<1>3. CASE done.ok /\ v.ok /\ Header[h].prev = done.tip
  BY <1>1, <1>3 DEF v
<1>4. CASE ~ (done.ok /\ v.ok /\ Header[h].prev = done.tip)
  BY <1>1, <1>2, <1>4 DEF v
<1> QED
  BY <1>3, <1>4

LEMMA ReplayShape ==
  ASSUME NEW height, NEW st
  PROVE  \A P \in Seq(Blk) \ {<<>>} : "ok" \in DOMAIN Replay(P, height, st)
<1> DEFINE K == {P \in Seq(Blk) \ {<<>>} : "ok" \in DOMAIN Replay(P, height, st)}
<1>1. ASSUME NEW h \in Blk
      PROVE  <<h>> \in K
  <2>1. <<h>> \in Seq(Blk) \ {<<>>}
    OBVIOUS
  <2>2. "ok" \in DOMAIN [ok |-> TRUE, st |-> st, height |-> height, tip |-> h]
    OBVIOUS
  <2> QED
    BY <2>1, <2>2, ReplayOne
<1>2. ASSUME NEW P \in Seq(Blk) \ {<<>>}, NEW h \in Blk, P \in K
      PROVE  Append(P, h) \in K
  <2>1. Append(P, h) \in Seq(Blk) \ {<<>>}
    BY AppendProperties
  <2>2. "ok" \in DOMAIN ReplayStep(Replay(P, height, st), h)
    BY <1>2, StepOk
  <2> QED
    BY <2>1, <2>2, ReplayMore
<1> HIDE DEF K
<1>3. Seq(Blk) \ {<<>>} \subseteq K
  BY <1>1, <1>2, PathSet
<1> QED
  BY <1>3 DEF K

-----------------------------------------------------------------------------
(* Blocks that are valid from genesis on. *)

\* What a replay has come to at the genuine block h.
Reached(h) == [ok |-> TRUE, st |-> Header[h].root, height |-> Depth(h), tip |-> h]

LEMMA PathType == \A h \in Blk : PathTo[h] \in Seq(Blk) \ {<<>>} /\ PathTo[h][Len(PathTo[h])] = h
  BY PathToIs DEF IsPath

LEMMA DepthNat == \A h \in Blk : Depth(h) \in Nat /\ Len(PathTo[h]) = Depth(h) + 1
  BY PathType DEF Depth

LEMMA DepthGenesis == Depth(Genesis) = 0
  BY PathToGenesis DEF Depth

LEMMA DepthNext ==
  ASSUME NEW h \in Blk \ {Genesis}
  PROVE  Header[h].prev \in Blk /\ Depth(h) = Depth(Header[h].prev) + 1
<1>1. Header[h].prev \in Blk
  BY HeaderAssumption
<1> DEFINE P == PathTo[Header[h].prev]
<1>2. PathTo[h] = Append(P, h) /\ P \in Seq(Blk)
  BY <1>1, PathToNext, PathType
<1>3. Depth(h) = Len(PathTo[h]) - 1 /\ Depth(Header[h].prev) = Len(P) - 1
  BY DEF Depth
<1> HIDE DEF P
<1> QED
  BY <1>1, <1>2, <1>3

\* What validates has the root of its header.
LEMMA ValidateRoot ==
  ASSUME NEW h, NEW height, NEW st, Validate(h, height, st).ok
  PROVE  Validate(h, height, st).st = Header[h].root
  BY DEF Validate, StateRoot

LEMMA FullReplayGenesis == FullReplay(Genesis) = Reached(Genesis)
  BY PathToGenesis, ReplayOne, DepthGenesis, HeaderAssumption DEF FullReplay, Reached

\* The replay from genesis to a block goes by way of its parent.
LEMMA FullReplayNext ==
  ASSUME NEW h \in Blk \ {Genesis}
  PROVE  FullReplay(h) = ReplayStep(FullReplay(Header[h].prev), h)
<1> DEFINE P == PathTo[Header[h].prev]
<1>1. P \in Seq(Blk) \ {<<>>} /\ PathTo[h] = Append(P, h)
  BY DepthNext, PathToNext, PathType
<1>2. FullReplay(h) = Replay(Append(P, h), 0, EmptyLedger)
  BY <1>1 DEF FullReplay
<1>3. FullReplay(Header[h].prev) = Replay(P, 0, EmptyLedger)
  BY DEF FullReplay
<1> HIDE DEF P
<1> QED
  BY <1>1, <1>2, <1>3, ReplayMore

LEMMA FullReplayShape == \A h \in Blk : "ok" \in DOMAIN FullReplay(h)
  BY PathType, ReplayShape DEF FullReplay

\* The replay to a valid block comes to the block's own root.
LEMMA GenuineAt ==
  \A h \in Blk : h \in Genuine => FullReplay(h) = Reached(h)
<1> DEFINE K == {h \in Blk : h \in Genuine => FullReplay(h) = Reached(h)}
<1>1. Genesis \in K
  BY FullReplayGenesis
<1>2. ASSUME NEW h \in Blk \ {Genesis}, Header[h].prev \in K
      PROVE  h \in K
  <2> DEFINE p == Header[h].prev
             before == FullReplay(p)
             v == Validate(h, before.height + 1, before.st)
  <2>1. SUFFICES ASSUME h \in Genuine
                 PROVE  FullReplay(h) = Reached(h)
    OBVIOUS
  <2>2. p \in Blk /\ Depth(h) = Depth(p) + 1 /\ "ok" \in DOMAIN before
    BY DepthNext, FullReplayShape
  <2>3. FullReplay(h) = ReplayStep(before, h) /\ FullReplay(h).ok
    BY <2>1, FullReplayNext DEF Genuine
  <2> HIDE DEF before
  <2>4. /\ before.ok /\ v.ok
        /\ FullReplay(h) = [ok |-> TRUE, st |-> v.st, height |-> before.height + 1, tip |-> h]
    BY <2>2, <2>3, StepOk
  <2>5. before = Reached(p)
    BY <1>2, <2>2, <2>4 DEF Genuine, before
  <2>6. before.height = Depth(p) /\ v.st = Header[h].root
    BY <2>4, <2>5, ValidateRoot DEF Reached
  <2> QED
    BY <2>2, <2>4, <2>6 DEF Reached
<1> HIDE DEF K
<1>3. Blk \subseteq K
  BY <1>1, <1>2, BlkSet
<1> QED
  BY <1>3 DEF K

LEMMA GenuineGenesis == Genesis \in Genuine
  BY FullReplayGenesis, GenesisIn DEF Genuine, Reached

\* A valid block stands on a valid one.
LEMMA GenuineParent ==
  ASSUME NEW h \in Genuine, h # Genesis
  PROVE  Header[h].prev \in Genuine
<1>1. h \in Blk \ {Genesis} /\ FullReplay(h).ok
  BY DEF Genuine
<1>2. "ok" \in DOMAIN FullReplay(Header[h].prev) /\ Header[h].prev \in Blk
  BY <1>1, FullReplayShape, DepthNext
<1>3. FullReplay(Header[h].prev).ok
  BY <1>1, <1>2, FullReplayNext, StepOk
<1> QED
  BY <1>2, <1>3 DEF Genuine

\* A replay that has come to p goes on to h just if h is a valid child of p.
LEMMA GenuineStep ==
  ASSUME NEW p \in Genuine, NEW h \in Blk
  PROVE  LET next == ReplayStep(Reached(p), h)
         IN /\ "ok" \in DOMAIN next
            /\ next.ok <=> (h \in Genuine /\ h # Genesis /\ Header[h].prev = p)
            /\ next.ok => next = Reached(h)
<1> DEFINE next == ReplayStep(Reached(p), h)
<1>1. p \in Blk /\ FullReplay(p) = Reached(p)
  BY GenuineAt DEF Genuine
<1>2. "ok" \in DOMAIN Reached(p) /\ Reached(p).tip = p
  BY DEF Reached
<1>3. "ok" \in DOMAIN next /\ (next.ok => Header[h].prev = p)
  BY <1>2, StepOk
<1>4. Header[h].prev = p => h # Genesis
  BY <1>1, HeaderAssumption
<1>5. Header[h].prev = p => next = FullReplay(h)
  BY <1>1, <1>4, FullReplayNext
<1>6. h \in Genuine <=> FullReplay(h).ok
  BY DEF Genuine
<1>7. h \in Genuine => FullReplay(h) = Reached(h)
  BY GenuineAt
<1> HIDE DEF next
<1>8. /\ "ok" \in DOMAIN next
      /\ next.ok <=> (h \in Genuine /\ h # Genesis /\ Header[h].prev = p)
      /\ next.ok => next = Reached(h)
  BY <1>3, <1>4, <1>5, <1>6, <1>7
<1> QED
  BY <1>8 DEF next

\* The same for Validate: tryAddBlock and a replay agree.
LEMMA GenuineValid ==
  ASSUME NEW p \in Genuine, NEW h \in Blk, Header[h].prev = p
  PROVE  /\ h \in Genuine <=> Validate(h, Depth(p) + 1, Header[p].root).ok
         /\ h \in Genuine => Validate(h, Depth(p) + 1, Header[p].root).st = Header[h].root
<1>1. /\ "ok" \in DOMAIN Reached(p) /\ Reached(p).ok /\ Reached(p).tip = p /\ Reached(p).height = Depth(p)
      /\ Reached(p).st = Header[p].root
  BY DEF Reached
<1>2. h # Genesis
  BY HeaderAssumption DEF Genuine
<1>3. h \in Genuine <=> Validate(h, Depth(p) + 1, Header[p].root).ok
  BY <1>1, <1>2, StepOk, GenuineStep
<1> QED
  BY <1>3, ValidateRoot

-----------------------------------------------------------------------------
(* Pieces of the chain: valid blocks, each on the one before it. *)

IsPiece(Q) ==
  /\ Q \in Seq(Blk) \ {<<>>}
  /\ \A i \in 1..Len(Q) : Q[i] \in Genuine
  /\ \A i \in 2..Len(Q) : Q[i] # Genesis /\ Header[Q[i]].prev = Q[i - 1]

LEMMA AppendAt ==
  ASSUME NEW P \in Seq(Blk) \ {<<>>}, NEW h \in Blk
  PROVE  /\ Append(P, h) \in Seq(Blk) \ {<<>>}
         /\ Len(Append(P, h)) = Len(P) + 1 /\ Len(P) \in Nat \ {0}
         /\ Append(P, h)[Len(P) + 1] = h
         /\ \A i \in 1..Len(P) : Append(P, h)[i] = P[i]
<1>1. Append(P, h) # <<>>
  BY AppendProperties
<1> QED
  BY <1>1

LEMMA PieceOne ==
  ASSUME NEW h \in Genuine
  PROVE  IsPiece(<<h>>)
<1>1. h \in Blk
  BY DEF Genuine
<1>2. <<h>> \in Seq(Blk) \ {<<>>} /\ Len(<<h>>) = 1 /\ <<h>>[1] = h
  BY <1>1
<1>3. \A i \in 2..1 : FALSE
  OBVIOUS
<1> QED
  BY <1>2, <1>3 DEF IsPiece

\* A piece a block longer is a piece and a valid child of its last block.
LEMMA PieceMore ==
  ASSUME NEW P \in Seq(Blk) \ {<<>>}, NEW h \in Blk
  PROVE  IsPiece(Append(P, h)) <=>
           IsPiece(P) /\ h \in Genuine /\ h # Genesis /\ Header[h].prev = P[Len(P)]
<1> DEFINE Q == Append(P, h)
           n == Len(P)
<1>1. /\ Q \in Seq(Blk) \ {<<>>} /\ Len(Q) = n + 1 /\ n \in Nat \ {0} /\ Q[n + 1] = h
      /\ \A i \in 1..n : Q[i] = P[i]
  BY AppendAt
<1> HIDE DEF Q
<1>2. ASSUME IsPiece(Q)
      PROVE  IsPiece(P) /\ h \in Genuine /\ h # Genesis /\ Header[h].prev = P[n]
  <2>1. \A i \in 1..n : i \in 1..Len(Q) /\ P[i] \in Genuine
    BY <1>1, <1>2 DEF IsPiece
  <2>2. ASSUME NEW i \in 2..n
        PROVE  P[i] # Genesis /\ Header[P[i]].prev = P[i - 1]
    <3>1. i \in 2..Len(Q) /\ i \in 1..n /\ i - 1 \in 1..n
      BY <1>1
    <3> QED
      BY <1>1, <1>2, <3>1 DEF IsPiece
  <2>3. Q[n + 1] \in Genuine /\ Q[n + 1] # Genesis /\ Header[Q[n + 1]].prev = Q[n]
    <3>1. n + 1 \in 1..Len(Q) /\ n + 1 \in 2..Len(Q) /\ (n + 1) - 1 = n
      BY <1>1
    <3> QED
      BY <1>2, <3>1 DEF IsPiece
  <2>4. n \in 1..n
    BY <1>1
  <2> QED
    BY <1>1, <2>1, <2>2, <2>3, <2>4 DEF IsPiece
<1>3. ASSUME IsPiece(P), h \in Genuine, h # Genesis, Header[h].prev = P[n]
      PROVE  IsPiece(Q)
  <2>1. ASSUME NEW i \in 1..Len(Q)
        PROVE  Q[i] \in Genuine
    BY <1>1, <1>3 DEF IsPiece
  <2>2. ASSUME NEW i \in 2..Len(Q)
        PROVE  Q[i] # Genesis /\ Header[Q[i]].prev = Q[i - 1]
    <3>1. i \in 2..n \/ i = n + 1
      BY <1>1
    <3>2. CASE i = n + 1
      BY <1>1, <1>3, <3>2
    <3>3. CASE i \in 2..n
      <4>1. i \in 1..n /\ i - 1 \in 1..n
        BY <1>1, <3>3
      <4> QED
        BY <1>1, <1>3, <3>3, <4>1 DEF IsPiece
    <3> QED
      BY <3>1, <3>2, <3>3
  <2> QED
    BY <1>1, <2>1, <2>2 DEF IsPiece
<1> QED
  BY <1>2, <1>3 DEF Q

\* What is cut out of a piece is one.
LEMMA PieceSub ==
  ASSUME NEW Q, IsPiece(Q), NEW a \in 1..Len(Q), NEW b \in a..Len(Q)
  PROVE  /\ IsPiece(SubSeq(Q, a, b)) /\ Len(SubSeq(Q, a, b)) = b - a + 1
         /\ \A i \in 1..(b - a + 1) : SubSeq(Q, a, b)[i] = Q[a + i - 1]
<1> DEFINE R == SubSeq(Q, a, b)
           n == b - a + 1
<1>1. Q \in Seq(Blk) /\ Len(Q) \in Nat /\ a \in Nat /\ b \in Nat /\ 1 <= a /\ a <= b /\ b <= Len(Q)
  BY DEF IsPiece
<1>2. /\ R \in Seq(Blk) /\ Len(R) = n /\ n \in Nat \ {0}
      /\ \A i \in 1..n : R[i] = Q[a + i - 1]
  <2>1. \A i \in a..b : Q[i] \in Blk
    BY <1>1
  <2>2. /\ R \in Seq(Blk) /\ Len(R) = IF a <= b THEN b - a + 1 ELSE 0
        /\ \A i \in 1..(b - a + 1) : R[i] = Q[a + i - 1]
    BY <1>1, <2>1, SubSeqProperties
  <2> QED
    BY <1>1, <2>2
<1> HIDE DEF R
<1>3. R # <<>>
  BY <1>2
<1>4. ASSUME NEW i \in 1..n
      PROVE  R[i] \in Genuine
  <2>1. a + i - 1 \in 1..Len(Q)
    BY <1>1
  <2> QED
    BY <1>2, <2>1 DEF IsPiece
<1>5. ASSUME NEW i \in 2..n
      PROVE  R[i] # Genesis /\ Header[R[i]].prev = R[i - 1]
  <2>1. /\ i \in 1..n /\ i - 1 \in 1..n /\ a + i - 1 \in 2..Len(Q)
        /\ a + (i - 1) - 1 = (a + i - 1) - 1
    BY <1>1
  <2>2. R[i] = Q[a + i - 1] /\ R[i - 1] = Q[(a + i - 1) - 1]
    BY <1>2, <2>1
  <2> QED
    BY <2>1, <2>2 DEF IsPiece
<1> HIDE DEF n
<1>6. IsPiece(R)
  BY <1>2, <1>3, <1>4, <1>5 DEF IsPiece
<1> QED
  BY <1>2, <1>6 DEF R, n

\* Induction on pieces.
LEMMA PieceSet ==
  ASSUME NEW K, \A h \in Genuine : <<h>> \in K,
         \A P \in Seq(Blk) \ {<<>>}, h \in Genuine \ {Genesis} :
           IsPiece(P) /\ Header[h].prev = P[Len(P)] /\ P \in K => Append(P, h) \in K
  PROVE  \A Q : IsPiece(Q) => Q \in K
<1> DEFINE L == {P \in Seq(Blk) \ {<<>>} : IsPiece(P) => P \in K}
<1>1. ASSUME NEW h \in Blk
      PROVE  <<h>> \in L
  <2>1. <<h>> \in Seq(Blk) \ {<<>>} /\ Len(<<h>>) = 1 /\ <<h>>[1] = h /\ 1 \in 1..1
    OBVIOUS
  <2>2. IsPiece(<<h>>) => h \in Genuine
    BY <2>1 DEF IsPiece
  <2> QED
    BY <2>1, <2>2
<1>2. ASSUME NEW P \in Seq(Blk) \ {<<>>}, NEW h \in Blk, P \in L
      PROVE  Append(P, h) \in L
  <2>1. Append(P, h) \in Seq(Blk) \ {<<>>}
    BY AppendAt
  <2> QED
    BY <1>2, <2>1, PieceMore
<1> HIDE DEF L
<1>3. Seq(Blk) \ {<<>>} \subseteq L
  BY <1>1, <1>2, PathSet
<1> QED
  BY <1>3 DEF L, IsPiece

LEMMA PieceEnds ==
  ASSUME NEW Q, IsPiece(Q)
  PROVE  /\ Len(Q) \in Nat \ {0} /\ 1 \in 1..Len(Q) /\ Len(Q) \in 1..Len(Q)
         /\ Q \in Seq(Blk) /\ Q # <<>>
         /\ Q[1] \in Genuine /\ Q[1] \in Blk /\ Q[Len(Q)] \in Genuine /\ Q[Len(Q)] \in Blk
         /\ Head(Q) = Q[1] /\ Last(Q) = Q[Len(Q)]
         /\ \A i \in 1..Len(Q) : Q[i] \in Blk
<1>1. Q \in Seq(Blk) /\ Q # <<>>
  BY DEF IsPiece
<1>2. Len(Q) \in Nat \ {0}
  BY <1>1
<1>3. 1 \in 1..Len(Q) /\ Len(Q) \in 1..Len(Q)
  BY <1>2
<1> QED
  BY <1>1, <1>2, <1>3 DEF IsPiece, Last

\* The ends of a piece and of the piece a block longer.
LEMMA MoreEnds ==
  ASSUME NEW P \in Seq(Blk) \ {<<>>}, NEW h \in Blk, IsPiece(P)
  PROVE  /\ Append(P, h)[1] = P[1] /\ Append(P, h)[Len(Append(P, h))] = h
         /\ Len(Append(P, h)) = Len(P) + 1 /\ Len(P) \in Nat \ {0}
         /\ P[1] \in Blk /\ P[Len(P)] \in Blk
  BY AppendAt, PieceEnds

\* A replay of a piece ends at its last block, with the root of its header.
LEMMA PieceReplay ==
  \A Q : IsPiece(Q) => Replay(Q, Depth(Q[1]), Header[Q[1]].root) = Reached(Q[Len(Q)])
<1> DEFINE K == {Q \in Seq(Blk) : Replay(Q, Depth(Q[1]), Header[Q[1]].root) = Reached(Q[Len(Q)])}
<1>1. ASSUME NEW h \in Genuine
      PROVE  <<h>> \in K
  <2>1. <<h>> \in Seq(Blk) /\ <<h>>[1] = h /\ Len(<<h>>) = 1
    BY DEF Genuine
  <2>2. Replay(<<h>>, Depth(h), Header[h].root) = Reached(h)
    BY ReplayOne DEF Reached
  <2> QED
    BY <2>1, <2>2
<1>2. ASSUME NEW P \in Seq(Blk) \ {<<>>}, NEW h \in Genuine \ {Genesis}, IsPiece(P),
             Header[h].prev = P[Len(P)], P \in K
      PROVE  Append(P, h) \in K
  <2> DEFINE Q == Append(P, h)
             p == P[Len(P)]
  <2>1. h \in Blk /\ p \in Genuine
    BY <1>2, PieceEnds DEF Genuine
  <2>2. Q \in Seq(Blk) /\ Q[1] = P[1] /\ Q[Len(Q)] = h
    BY <1>2, <2>1, MoreEnds
  <2>3. Replay(Q, Depth(P[1]), Header[P[1]].root) = ReplayStep(Reached(p), h)
    BY <1>2, <2>1, ReplayMore
  <2>4. ReplayStep(Reached(p), h) = Reached(h)
    BY <1>2, <2>1, GenuineStep
  <2> HIDE DEF Q
  <2>5. Q \in K
    BY <2>2, <2>3, <2>4
  <2> QED
    BY <2>5 DEF Q
<1> HIDE DEF K
<1>3. \A Q : IsPiece(Q) => Q \in K
  BY <1>1, <1>2, PieceSet
<1> QED
  BY <1>3 DEF K

\* A piece spans as many heights as it has blocks.
LEMMA PieceDepth ==
  \A Q : IsPiece(Q) => Depth(Q[Len(Q)]) = Depth(Q[1]) + Len(Q) - 1
<1> DEFINE K == {Q \in Seq(Blk) : Depth(Q[Len(Q)]) = Depth(Q[1]) + Len(Q) - 1}
<1>1. ASSUME NEW h \in Genuine
      PROVE  <<h>> \in K
  <2>1. <<h>> \in Seq(Blk) /\ <<h>>[1] = h /\ Len(<<h>>) = 1 /\ Depth(h) \in Nat
    BY DepthNat DEF Genuine
  <2> QED
    BY <2>1
<1>2. ASSUME NEW P \in Seq(Blk) \ {<<>>}, NEW h \in Genuine \ {Genesis}, IsPiece(P),
             Header[h].prev = P[Len(P)], P \in K
      PROVE  Append(P, h) \in K
  <2> DEFINE Q == Append(P, h)
  <2>1. h \in Blk \ {Genesis} /\ Q \in Seq(Blk)
    BY <1>2 DEF Genuine
  <2>2. /\ Q[1] = P[1] /\ Q[Len(Q)] = h /\ Len(Q) = Len(P) + 1 /\ Len(P) \in Nat
        /\ P[1] \in Blk /\ P[Len(P)] \in Blk
    BY <1>2, <2>1, MoreEnds
  <2>3. Depth(h) = Depth(P[Len(P)]) + 1 /\ Depth(P[1]) \in Nat /\ Depth(P[Len(P)]) \in Nat
    BY <1>2, <2>1, <2>2, DepthNext, DepthNat
  <2>4. Depth(P[Len(P)]) = Depth(P[1]) + Len(P) - 1
    BY <1>2
  <2> HIDE DEF Q
  <2>5. Q \in K
    BY <2>1, <2>2, <2>3, <2>4
  <2> QED
    BY <2>5 DEF Q
<1> HIDE DEF K
<1>3. \A Q : IsPiece(Q) => Q \in K
  BY <1>1, <1>2, PieceSet
<1> QED
  BY <1>3 DEF K

\* Heights along a piece.
LEMMA PieceHeights ==
  ASSUME NEW Q, IsPiece(Q), NEW i \in 1..Len(Q)
  PROVE  Depth(Q[i]) = Depth(Q[1]) + i - 1
<1> DEFINE R == SubSeq(Q, 1, i)
<1>1. Len(Q) \in Nat /\ 1 \in 1..Len(Q) /\ i \in 1..Len(Q) /\ i \in Nat /\ i - 1 + 1 = i
  BY PieceEnds
<1>2. IsPiece(R) /\ Len(R) = i - 1 + 1 /\ \A k \in 1..(i - 1 + 1) : R[k] = Q[1 + k - 1]
  BY <1>1, PieceSub
<1> HIDE DEF R
<1>3. Len(R) = i /\ R[1] = Q[1] /\ R[i] = Q[i]
  BY <1>1, <1>2
<1> QED
  BY <1>2, <1>3, PieceDepth

\* Slices of sequences.
LEMMA SliceOne ==
  ASSUME NEW S, NEW s \in Seq(S), NEW n \in 1..Len(s)
  PROVE  SubSeq(s, n, n) = <<s[n]>>
<1>1. \A i \in n..n : s[i] \in S
  OBVIOUS
<1>2. SubSeq(s, n, n) \in Seq(S) /\ Len(SubSeq(s, n, n)) = 1 /\ SubSeq(s, n, n)[1] = s[n]
  <2>1. n \in Int /\ n - n + 1 = 1 /\ n + 1 - 1 = n /\ 1 \in 1..1
    OBVIOUS
  <2> QED
    BY <1>1, <2>1, SubSeqProperties
<1>3. <<s[n]>> \in Seq(S) /\ Len(<<s[n]>>) = 1 /\ <<s[n]>>[1] = s[n]
  OBVIOUS
<1> DEFINE L == SubSeq(s, n, n)
           R == <<s[n]>>
<1>4. /\ L \in Seq(S) /\ R \in Seq(S) /\ Len(L) = Len(R)
      /\ \A i \in 1..Len(L) : L[i] = R[i]
  BY <1>2, <1>3
<1> HIDE DEF L, R
<1>5. L = R
  BY <1>4, SeqEqual
<1> QED
  BY <1>5 DEF L, R

LEMMA SliceMore ==
  ASSUME NEW S, NEW s \in Seq(S), NEW x \in S, NEW a \in 1..Len(s), NEW n, n = Len(s)
  PROVE  SubSeq(Append(s, x), a, n + 1) = Append(SubSeq(s, a, n), x)
<1> DEFINE t == Append(s, x)
           L == SubSeq(t, a, n + 1)
           F == SubSeq(s, a, n)
           R == Append(F, x)
           k == n - a + 1
<1>1. /\ n \in Nat /\ a \in Nat /\ 1 <= a /\ a <= n /\ k \in Nat /\ n + 1 \in Nat
      /\ t \in Seq(S) /\ Len(t) = n + 1 /\ t[n + 1] = x /\ \A i \in 1..n : t[i] = s[i]
  BY AppendProperties
<1> HIDE DEF t
<1>2. L \in Seq(S) /\ Len(L) = k + 1 /\ \A i \in 1..(k + 1) : L[i] = t[a + i - 1]
  <2>1. \A i \in a..(n + 1) : t[i] \in S
    BY <1>1
  <2>2. /\ L \in Seq(S) /\ Len(L) = IF a <= n + 1 THEN (n + 1) - a + 1 ELSE 0
        /\ \A i \in 1..((n + 1) - a + 1) : L[i] = t[a + i - 1]
    BY <1>1, <2>1, SubSeqProperties
  <2>3. (n + 1) - a + 1 = k + 1 /\ a <= n + 1
    BY <1>1
  <2> QED
    BY <2>2, <2>3
<1>3. F \in Seq(S) /\ Len(F) = k /\ \A i \in 1..k : F[i] = s[a + i - 1]
  <2>1. \A i \in a..n : s[i] \in S
    BY <1>1
  <2> QED
    BY <1>1, <2>1, SubSeqProperties
<1> HIDE DEF L, F
<1>4. /\ R \in Seq(S) /\ Len(R) = k + 1 /\ R[k + 1] = x /\ \A i \in 1..k : R[i] = F[i]
  BY <1>3, AppendProperties
<1> HIDE DEF R
<1>5. ASSUME NEW i \in 1..(k + 1)
      PROVE  L[i] = R[i]
  <2>1. CASE i = k + 1
    <3>1. a + i - 1 = n + 1
      BY <1>1, <2>1
    <3> QED
      BY <1>1, <1>2, <1>4, <2>1, <3>1
  <2>2. CASE i # k + 1
    <3>1. i \in 1..k /\ a + i - 1 \in 1..n
      BY <1>1, <2>2
    <3> QED
      BY <1>1, <1>2, <1>3, <1>4, <3>1
  <2> QED
    BY <2>1, <2>2
<1>6. L = R
  BY <1>1, <1>2, <1>4, <1>5, SeqEqual
<1> QED
  BY <1>6 DEF L, R, F, t

\* A piece is the end of the path to its last block.
LEMMA PieceOfPath ==
  \A Q : IsPiece(Q) =>
    Q = SubSeq(PathTo[Q[Len(Q)]], Depth(Q[1]) + 1, Depth(Q[Len(Q)]) + 1)
<1> DEFINE Rest(Q) == SubSeq(PathTo[Q[Len(Q)]], Depth(Q[1]) + 1, Depth(Q[Len(Q)]) + 1)
           K == {Q \in Seq(Blk) : Q = Rest(Q)}
<1>1. ASSUME NEW h \in Genuine
      PROVE  <<h>> \in K
  <2>1. <<h>> \in Seq(Blk) /\ <<h>>[1] = h /\ Len(<<h>>) = 1 /\ h \in Blk
    BY DEF Genuine
  <2> DEFINE P == PathTo[h]
             n == Depth(h) + 1
  <2>2. P \in Seq(Blk) /\ n \in Nat \ {0} /\ Len(P) = n /\ P[n] = h
    BY <2>1, PathType, DepthNat
  <2>3. Rest(<<h>>) = SubSeq(P, n, n)
    BY <2>1
  <2> HIDE DEF P, n, Rest
  <2>4. n \in 1..Len(P)
    BY <2>2
  <2>5. SubSeq(P, n, n) = <<h>>
    BY <2>2, <2>4, SliceOne
  <2> QED
    BY <2>1, <2>3, <2>5
<1>2. ASSUME NEW P \in Seq(Blk) \ {<<>>}, NEW h \in Genuine \ {Genesis}, IsPiece(P),
             Header[h].prev = P[Len(P)], P \in K
      PROVE  Append(P, h) \in K
  <2> DEFINE Q == Append(P, h)
             p == P[Len(P)]
             T == PathTo[p]
             a == Depth(P[1]) + 1
             n == Depth(p) + 1
  <2>1. h \in Blk \ {Genesis} /\ Q \in Seq(Blk)
    BY <1>2 DEF Genuine
  <2>2. /\ Q[1] = P[1] /\ Q[Len(Q)] = h /\ Len(P) \in Nat \ {0} /\ P[1] \in Blk /\ p \in Blk
    BY <1>2, <2>1, MoreEnds
  <2>3. PathTo[h] = Append(T, h) /\ Depth(h) = n
    BY <1>2, <2>1, DepthNext, PathToNext
  <2>4. T \in Seq(Blk) /\ Len(T) = n /\ n \in Nat
    BY <2>2, DepthNat, PathType
  <2>5. a \in 1..n
    <3>1. Depth(p) = Depth(P[1]) + Len(P) - 1 /\ Depth(P[1]) \in Nat /\ Depth(p) \in Nat
      BY <1>2, <2>2, PieceDepth, DepthNat
    <3> QED
      BY <2>2, <3>1
  <2>6. P = SubSeq(T, a, n)
    BY <1>2
  <2>7. Rest(Q) = SubSeq(Append(T, h), a, n + 1)
    BY <2>2, <2>3
  <2> HIDE DEF T, a, n, Q, Rest
  <2>8. SubSeq(Append(T, h), a, n + 1) = Append(SubSeq(T, a, n), h)
    BY <2>1, <2>4, <2>5, SliceMore
  <2>9. Q \in K
    BY <2>1, <2>6, <2>7, <2>8 DEF Q
  <2> QED
    BY <2>9 DEF Q
<1> HIDE DEF K
<1>3. \A Q : IsPiece(Q) => Q \in K
  BY <1>1, <1>2, PieceSet
<1> QED
  BY <1>3 DEF K

\* A replay that succeeds went along a piece.
LEMMA ReplayPiece ==
  \A Q \in Seq(Blk) \ {<<>>} :
    Q[1] \in Genuine /\ Replay(Q, Depth(Q[1]), Header[Q[1]].root).ok => IsPiece(Q)
<1> DEFINE All(Q) == Replay(Q, Depth(Q[1]), Header[Q[1]].root)
           K == {Q \in Seq(Blk) \ {<<>>} : Q[1] \in Genuine /\ All(Q).ok => IsPiece(Q)}
<1>1. ASSUME NEW h \in Blk
      PROVE  <<h>> \in K
  <2>1. <<h>> \in Seq(Blk) \ {<<>>} /\ <<h>>[1] = h
    OBVIOUS
  <2> QED
    BY <2>1, PieceOne
<1>2. ASSUME NEW P \in Seq(Blk) \ {<<>>}, NEW h \in Blk, P \in K
      PROVE  Append(P, h) \in K
  <2> DEFINE Q == Append(P, h)
             before == All(P)
  <2>1. Q \in Seq(Blk) \ {<<>>} /\ Q[1] = P[1] /\ Len(P) \in Nat \ {0}
    BY AppendAt
  <2>2. All(Q) = ReplayStep(before, h)
    BY <2>1, ReplayMore
  <2>3. "ok" \in DOMAIN before
    BY ReplayShape
  <2> HIDE DEF before, Q, All
  <2>4. SUFFICES ASSUME P[1] \in Genuine, All(Q).ok
                 PROVE  IsPiece(Q)
    BY <2>1 DEF Q
  <2>5. before.ok
    BY <2>2, <2>3, <2>4, StepOk
  <2>6. IsPiece(P)
    BY <1>2, <2>4, <2>5 DEF before
  <2>7. before = Reached(P[Len(P)]) /\ P[Len(P)] \in Genuine
    BY <2>6, PieceReplay, PieceEnds DEF before, All
  <2>8. h \in Genuine /\ h # Genesis /\ Header[h].prev = P[Len(P)]
    BY <2>2, <2>4, <2>7, GenuineStep
  <2> QED
    BY <2>6, <2>8, PieceMore DEF Q
<1> HIDE DEF K
<1>3. Seq(Blk) \ {<<>>} \subseteq K
  BY <1>1, <1>2, PathSet
<1> QED
  BY <1>3 DEF K

\* Whatever ledger a replay starts on, it ends on the one of its last header.
LEMMA ReplayRoot ==
  ASSUME NEW P \in Seq(Blk) \ {<<>>}, NEW h \in Blk, NEW height, NEW st,
         Replay(Append(P, h), height, st).ok
  PROVE  Replay(Append(P, h), height, st).st = Header[h].root
<1> DEFINE before == Replay(P, height, st)
<1>1. Replay(Append(P, h), height, st) = ReplayStep(before, h)
  BY ReplayMore
<1>2. "ok" \in DOMAIN before
  BY ReplayShape
<1> HIDE DEF before
<1> QED
  BY <1>1, <1>2, StepOk, ValidateRoot

-----------------------------------------------------------------------------
(* Work. *)

WorkTo(h) == Work(PathTo[h])

Burden(h) == 16 ^ Header[h].difficulty

LEMMA BurdenNat == \A h \in Blk : Burden(h) \in Nat \ {0}
  BY HeaderAssumption DEF Burden

\* Every block adds work.
LEMMA WorkNat == \A P \in Seq(Blk) \ {<<>>} : Work(P) \in Nat
<1> DEFINE K == {P \in Seq(Blk) \ {<<>>} : Work(P) \in Nat}
<1>1. ASSUME NEW h \in Blk
      PROVE  <<h>> \in K
  <2>1. <<h>> \in Seq(Blk) \ {<<>>} /\ Work(<<h>>) = 0
    BY WorkOne
  <2> QED
    BY <2>1
<1>2. ASSUME NEW P \in Seq(Blk) \ {<<>>}, NEW h \in Blk, P \in K
      PROVE  Append(P, h) \in K
  <2>1. Append(P, h) \in Seq(Blk) \ {<<>>} /\ Work(Append(P, h)) = Work(P) + Burden(h)
    BY AppendAt, WorkMore DEF Burden
  <2> QED
    BY <1>2, <2>1, BurdenNat
<1> HIDE DEF K
<1>3. Seq(Blk) \ {<<>>} \subseteq K
  BY <1>1, <1>2, PathSet
<1> QED
  BY <1>3 DEF K

LEMMA WorkToNat == \A h \in Blk : WorkTo(h) \in Nat
  BY PathType, WorkNat DEF WorkTo

LEMMA WorkToNext ==
  ASSUME NEW h \in Blk \ {Genesis}
  PROVE  /\ Header[h].prev \in Blk
         /\ WorkTo(h) = WorkTo(Header[h].prev) + Burden(h)
         /\ WorkTo(h) > WorkTo(Header[h].prev)
<1> DEFINE P == PathTo[Header[h].prev]
<1>1. Header[h].prev \in Blk /\ P \in Seq(Blk) \ {<<>>} /\ PathTo[h] = Append(P, h)
  BY DepthNext, PathType, PathToNext
<1>2. WorkTo(h) = Work(Append(P, h)) /\ WorkTo(Header[h].prev) = Work(P)
  BY <1>1 DEF WorkTo
<1> HIDE DEF P
<1>3. WorkTo(h) = WorkTo(Header[h].prev) + Burden(h)
  BY <1>1, <1>2, WorkMore DEF Burden
<1>4. WorkTo(Header[h].prev) \in Nat /\ Burden(h) \in Nat \ {0}
  BY <1>1, WorkToNat, BurdenNat
<1> HIDE DEF WorkTo, Burden
<1> QED
  BY <1>1, <1>3, <1>4

\* The work of a piece is what its last block has more than its first.
LEMMA PieceWork ==
  \A Q : IsPiece(Q) => WorkTo(Q[Len(Q)]) = WorkTo(Q[1]) + Work(Q)
<1> DEFINE K == {Q \in Seq(Blk) : WorkTo(Q[Len(Q)]) = WorkTo(Q[1]) + Work(Q)}
<1>1. ASSUME NEW h \in Genuine
      PROVE  <<h>> \in K
  <2>1. <<h>> \in Seq(Blk) /\ <<h>>[1] = h /\ Len(<<h>>) = 1 /\ Work(<<h>>) = 0 /\ WorkTo(h) \in Nat
    BY WorkOne, WorkToNat DEF Genuine
  <2> QED
    BY <2>1
<1>2. ASSUME NEW P \in Seq(Blk) \ {<<>>}, NEW h \in Genuine \ {Genesis}, IsPiece(P),
             Header[h].prev = P[Len(P)], P \in K
      PROVE  Append(P, h) \in K
  <2> DEFINE Q == Append(P, h)
  <2>1. h \in Blk \ {Genesis} /\ Q \in Seq(Blk)
    BY <1>2 DEF Genuine
  <2>2. /\ Q[1] = P[1] /\ Q[Len(Q)] = h /\ P[1] \in Blk /\ P[Len(P)] \in Blk
        /\ Work(Q) = Work(P) + Burden(h)
    BY <1>2, <2>1, MoreEnds, WorkMore DEF Burden
  <2>3. /\ WorkTo(h) = WorkTo(P[Len(P)]) + Burden(h) /\ WorkTo(P[Len(P)]) = WorkTo(P[1]) + Work(P)
    BY <1>2, <2>1, WorkToNext
  <2>4. WorkTo(P[1]) \in Nat /\ Work(P) \in Nat /\ Burden(h) \in Nat
    BY <2>1, <2>2, WorkToNat, WorkNat, BurdenNat
  <2> HIDE DEF Q
  <2>5. Q \in K
    BY <2>1, <2>2, <2>3, <2>4
  <2> QED
    BY <2>5 DEF Q
<1> HIDE DEF K
<1>3. \A Q : IsPiece(Q) => Q \in K
  BY <1>1, <1>2, PieceSet
<1> QED
  BY <1>3 DEF K

\* No block of a piece has more work than its last.
LEMMA PieceRises ==
  ASSUME NEW Q, IsPiece(Q), NEW i \in 1..Len(Q)
  PROVE  WorkTo(Q[i]) <= WorkTo(Q[Len(Q)])
<1> DEFINE n == Len(Q)
           R == SubSeq(Q, i, n)
<1>1. n \in Nat /\ n \in 1..n /\ i \in 1..n /\ n \in i..n
  BY PieceEnds
<1>2. IsPiece(R) /\ Len(R) = n - i + 1 /\ \A k \in 1..(n - i + 1) : R[k] = Q[i + k - 1]
  BY <1>1, PieceSub
<1> HIDE DEF R
<1>3. R[1] = Q[i] /\ R[Len(R)] = Q[n]
  <2>1. 1 \in 1..(n - i + 1) /\ n - i + 1 \in 1..(n - i + 1) /\ i + 1 - 1 = i /\ i + (n - i + 1) - 1 = n
    BY <1>1
  <2>2. R[1] = Q[i + 1 - 1] /\ R[n - i + 1] = Q[i + (n - i + 1) - 1]
    BY <1>2, <2>1
  <2> QED
    BY <1>2, <2>1, <2>2
<1>4. WorkTo(Q[n]) = WorkTo(Q[i]) + Work(R) /\ Work(R) \in Nat /\ WorkTo(Q[i]) \in Nat
  BY <1>2, <1>3, PieceWork, WorkNat, WorkToNat, PieceEnds
<1> QED
  BY <1>4

-----------------------------------------------------------------------------
(* Orphans: of their pool only the type of the order matters here. *)

\* What is kept of a sequence is one.
LEMMA WithinSeq ==
  ASSUME NEW S, NEW s \in Seq(S), NEW T
  PROVE  Within(s, T) \in Seq(S)
<1>1. Within(s, T) \in Seq(S \cap T)
  BY Replaying!WithinSeq DEF Within, Replaying!Within
<1> QED
  BY <1>1

OrphansOk(o) ==
  /\ DOMAIN o = {"blks", "order", "old", "byPrev"}
  /\ o.order \in Seq(Blk)

LEMMA EmptyOrphansOk == OrphansOk(EmptyOrphans)
  BY DEF OrphansOk, EmptyOrphans

\* Every operation on the pool keeps it a sequence of hashes.
LEMMA RemoveOrphansOk ==
  ASSUME NEW o, OrphansOk(o), NEW hs
  PROVE  OrphansOk(RemoveOrphans(o, hs))
<1>1. Within(o.order, o.blks \ (hs \cap o.blks)) \in Seq(Blk)
  BY WithinSeq DEF OrphansOk
<1>2. CASE hs \cap o.blks = {}
  BY <1>2 DEF RemoveOrphans
<1>3. CASE hs \cap o.blks # {}
  BY <1>1, <1>3 DEF RemoveOrphans, OrphansOk
<1> QED
  BY <1>2, <1>3

LEMMA RemoveSubtreesOk ==
  ASSUME NEW o, OrphansOk(o), NEW roots
  PROVE  OrphansOk(RemoveSubtrees(o, roots))
  BY RemoveOrphansOk DEF RemoveSubtrees

LEMMA EvictOldestOk ==
  ASSUME NEW o, OrphansOk(o)
  PROVE  OrphansOk(EvictOldest(o))
  BY RemoveSubtreesOk DEF EvictOldest

LEMMA PruneOrphansOk ==
  ASSUME NEW o, OrphansOk(o), NEW known
  PROVE  OrphansOk(PruneOrphans(o, known))
  BY RemoveSubtreesOk, EvictOldestOk DEF PruneOrphans, PruneDangling, PruneExpired

LEMMA StoreOrphanOk ==
  ASSUME NEW o, OrphansOk(o), NEW h \in Blk, NEW known
  PROVE  OrphansOk(StoreOrphan(o, h, known))
<1> DEFINE kept == PruneOrphans(o, known)
           p == Header[h].prev
           stored == [kept EXCEPT
                        !.blks = @ \cup {h},
                        !.order = Append(@, h),
                        !.byPrev = [q \in DOMAIN @ \cup {p} |->
                                      IF q = p THEN Children(kept, p) \cup {h} ELSE @[q]]]
<1>1. OrphansOk(kept)
  BY PruneOrphansOk
<1>2. StoreOrphan(o, h, known) = IF h \in known \cup kept.blks THEN kept ELSE EvictOldest(stored)
  BY DEF StoreOrphan
<1> HIDE DEF kept
<1>3. OrphansOk(stored)
  BY <1>1 DEF OrphansOk
<1> HIDE DEF stored
<1> QED
  BY <1>1, <1>2, <1>3, EvictOldestOk

-----------------------------------------------------------------------------
(* A node in order, and what its handlers keep. *)

Sits(Q, at) ==
  /\ IsPiece(Q)
  /\ at = [height |-> Depth(Q[1]), state |-> Header[Q[1]].root]

Good(n) ==
  /\ DOMAIN n = {"blocks", "anchor", "cache", "pool", "orphans", "pruning", "saved"}
  /\ Sits(n.blocks, n.anchor)
  /\ n.cache = Header[Last(n.blocks)].root
  /\ OrphansOk(n.orphans)
  /\ Sits(n.saved.blocks, n.saved.anchor)

\* m is in order and stands where n does, or on more work.
Onward(m, n) ==
  /\ Good(m)
  /\ \/ Last(m.blocks) = Last(n.blocks)
     \/ WorkTo(Last(m.blocks)) > WorkTo(Last(n.blocks))

\* What a node in order says of its tip.
LEMMA GoodTip ==
  ASSUME NEW n, Good(n)
  PROVE  /\ IsPiece(n.blocks) /\ Last(n.blocks) = n.blocks[Len(n.blocks)]
         /\ Last(n.blocks) \in Genuine /\ Last(n.blocks) \in Blk /\ Last(n.blocks) \in Known(n)
         /\ WorkTo(Last(n.blocks)) \in Nat
         /\ n.anchor.height = Depth(n.blocks[1]) /\ n.anchor.state = Header[n.blocks[1]].root
         /\ Height(n) = Depth(Last(n.blocks))
<1>1. IsPiece(n.blocks) /\ n.anchor.height = Depth(n.blocks[1]) /\ n.anchor.state = Header[n.blocks[1]].root
  BY DEF Good, Sits
<1>2. /\ Last(n.blocks) = n.blocks[Len(n.blocks)] /\ Last(n.blocks) \in Genuine /\ Last(n.blocks) \in Blk
      /\ n.blocks \in Seq(Blk) /\ Len(n.blocks) \in 1..Len(n.blocks)
  BY <1>1, PieceEnds
<1>3. Last(n.blocks) \in Known(n)
  BY <1>2 DEF Known, ToSet
<1>4. Height(n) = Depth(Last(n.blocks))
  BY <1>1, <1>2, PieceDepth DEF Height
<1> QED
  BY <1>1, <1>2, <1>3, <1>4, WorkToNat

LEMMA OnwardSelf ==
  ASSUME NEW n, Good(n)
  PROVE  Onward(n, n)
  BY DEF Onward

LEMMA OnwardTrans ==
  ASSUME NEW l, NEW m, NEW n, Good(n), Onward(m, n), Onward(l, m)
  PROVE  Onward(l, n)
<1>1. /\ WorkTo(Last(l.blocks)) \in Nat /\ WorkTo(Last(m.blocks)) \in Nat
      /\ WorkTo(Last(n.blocks)) \in Nat
  BY GoodTip DEF Onward
<1> QED
  BY <1>1 DEF Onward

\* Only the orphans change.
LEMMA GoodOrphans ==
  ASSUME NEW n, Good(n), NEW o, OrphansOk(o)
  PROVE  LET m == [n EXCEPT !.orphans = o]
         IN /\ Good(m) /\ Onward(m, n)
            /\ m.blocks = n.blocks /\ m.anchor = n.anchor /\ m.cache = n.cache
            /\ m.orphans = o /\ m.pool = n.pool /\ m.saved = n.saved /\ m.pruning = n.pruning
            /\ Known(m) = Known(n) /\ Height(m) = Height(n)
<1> DEFINE m == [n EXCEPT !.orphans = o]
<1>1. /\ DOMAIN m = DOMAIN n
      /\ m.blocks = n.blocks /\ m.anchor = n.anchor /\ m.cache = n.cache
      /\ m.orphans = o /\ m.pool = n.pool /\ m.saved = n.saved /\ m.pruning = n.pruning
  BY DEF Good
<1> HIDE DEF m
<1>2. Good(m)
  BY <1>1 DEF Good
<1> QED
  BY <1>1, <1>2 DEF m, Onward, Known, Height

\* pruneOrphans, removeOrphanSubtree, storeOrphan.
LEMMA SweptGood ==
  ASSUME NEW n, Good(n)
  PROVE  /\ Good(Swept(n)) /\ Onward(Swept(n), n)
         /\ Swept(n).blocks = n.blocks /\ Swept(n).anchor = n.anchor /\ Swept(n).cache = n.cache
         /\ Swept(n).pool = n.pool
         /\ Known(Swept(n)) = Known(n) /\ Height(Swept(n)) = Height(n)
<1>1. OrphansOk(PruneOrphans(n.orphans, Known(n)))
  BY PruneOrphansOk DEF Good
<1> QED
  BY <1>1, GoodOrphans DEF Swept

LEMMA ForgetGood ==
  ASSUME NEW n, Good(n), NEW h
  PROVE  Good(Forget(n, h)) /\ Onward(Forget(n, h), n)
<1>1. OrphansOk(RemoveSubtrees(n.orphans, {h}))
  BY RemoveSubtreesOk DEF Good
<1> QED
  BY <1>1, GoodOrphans DEF Forget

LEMMA StoreWaitingGood ==
  ASSUME NEW n, Good(n), NEW h \in Blk
  PROVE  Good(StoreWaiting(n, h)) /\ Onward(StoreWaiting(n, h), n)
<1>1. OrphansOk(StoreOrphan(n.orphans, h, Known(n)))
  BY StoreOrphanOk DEF Good
<1> QED
  BY <1>1, GoodOrphans DEF StoreWaiting

\* The ledger after some of the blocks is the one of the header there.
LEMMA StateAtRoot ==
  ASSUME NEW n, Good(n), NEW count \in 1..Len(n.blocks)
  PROVE  StateAt(n, count) = Header[n.blocks[count]].root
<1> DEFINE Q == n.blocks
           R == SubSeq(Q, 1, count)
<1>1. IsPiece(Q) /\ Len(Q) \in Nat /\ 1 \in 1..Len(Q) /\ count \in 1..Len(Q) /\ count \in Nat
  BY GoodTip, PieceEnds
<1>2. StateAt(n, count) = Replay(R, Depth(Q[1]), Header[Q[1]].root).st
  BY GoodTip DEF StateAt, Replayed
<1> HIDE DEF Q
<1>3. IsPiece(R) /\ Len(R) = count - 1 + 1 /\ \A k \in 1..(count - 1 + 1) : R[k] = Q[1 + k - 1]
  BY <1>1, PieceSub
<1> HIDE DEF R
<1>4. Len(R) = count /\ R[1] = Q[1] /\ R[count] = Q[count]
  BY <1>1, <1>3
<1>5. Replay(R, Depth(Q[1]), Header[Q[1]].root) = Reached(Q[count])
  BY <1>3, <1>4, PieceReplay
<1> QED
  BY <1>2, <1>5 DEF Reached, Q

\* What the blocks of a chain confirm; its first, genesis or an anchor, counts for nothing.
Confirms(Q) == UNION {ToSet(Header[Q[i]].txs) : i \in 2..Len(Q)}

\* The first blocks are dropped, and nothing else.
Shorter(m, n) ==
  /\ m.cache = n.cache /\ m.pool = n.pool /\ m.orphans = n.orphans /\ m.pruning = n.pruning
  /\ Last(m.blocks) = Last(n.blocks) /\ Known(m) \subseteq Known(n)
  /\ Confirms(m.blocks) \subseteq Confirms(n.blocks)

\* Pruning puts the checkpoint at the first block it keeps.
LEMMA MaybePruneGood ==
  ASSUME NEW n, Good(n)
  PROVE  Good(MaybePrune(n)) /\ Onward(MaybePrune(n), n) /\ Shorter(MaybePrune(n), n)
<1> DEFINE height == Height(n) - Retention
           kept == height - n.anchor.height + 1
           Q == n.blocks
           R == SubSeq(Q, kept, Len(Q))
           m == [n EXCEPT !.anchor = [height |-> height, state |-> StateAt(n, kept)],
                          !.blocks = R]
<1>1. MaybePrune(n) = IF n.pruning /\ height > n.anchor.height THEN m ELSE n
  BY DEF MaybePrune, Good
<1>2. CASE ~ (n.pruning /\ height > n.anchor.height)
  <2>1. Shorter(n, n)
    BY DEF Shorter
  <2> HIDE DEF m, height
  <2> QED
    BY <1>1, <1>2, <2>1, OnwardSelf
<1>3. CASE n.pruning /\ height > n.anchor.height
  <2>1. /\ IsPiece(Q) /\ Len(Q) \in Nat \ {0} /\ Q[1] \in Blk /\ Depth(Q[1]) \in Nat
        /\ n.anchor.height = Depth(Q[1]) /\ Height(n) = Depth(Q[1]) + Len(Q) - 1
    BY GoodTip, PieceEnds, DepthNat DEF Height
  <2>2. Retention \in Nat \ {0}
    OBVIOUS
  <2>3. /\ kept \in 1..Len(Q) /\ Len(Q) \in kept..Len(Q) /\ kept = Len(Q) - Retention
        /\ height = Depth(Q[1]) + kept - 1
    BY <1>3, <2>1, <2>2
  <2>4. StateAt(n, kept) = Header[Q[kept]].root /\ Depth(Q[kept]) = height
    BY <2>1, <2>3, StateAtRoot, PieceHeights
  <2>5. /\ DOMAIN m = DOMAIN n /\ m.blocks = R /\ m.cache = n.cache /\ m.orphans = n.orphans
        /\ m.saved = n.saved /\ m.anchor = [height |-> height, state |-> StateAt(n, kept)]
        /\ m.pool = n.pool /\ m.pruning = n.pruning
    BY DEF Good
  <2> HIDE DEF m, height, kept, Q
  <2>6. /\ IsPiece(R) /\ Len(R) = Len(Q) - kept + 1
        /\ \A k \in 1..(Len(Q) - kept + 1) : R[k] = Q[kept + k - 1]
    BY <2>1, <2>3, PieceSub
  <2> HIDE DEF R
  <2>7. R[1] = Q[kept] /\ Last(R) = Last(Q)
    <3>1. /\ 1 \in 1..(Len(Q) - kept + 1) /\ Len(R) \in 1..(Len(Q) - kept + 1)
          /\ kept + 1 - 1 = kept /\ kept + Len(R) - 1 = Len(Q)
      BY <2>1, <2>3, <2>6
    <3>2. R[1] = Q[kept + 1 - 1] /\ R[Len(R)] = Q[kept + Len(R) - 1]
      BY <2>6, <3>1
    <3> QED
      BY <3>1, <3>2 DEF Last
  <2>8. Sits(m.blocks, m.anchor)
    BY <2>4, <2>5, <2>6, <2>7 DEF Sits
  <2>9. Last(m.blocks) = Last(n.blocks)
    BY <2>5, <2>7 DEF Q
  <2>10. Good(m)
    BY <2>5, <2>8, <2>9 DEF Good
  <2>11. Known(m) \subseteq Known(n)
    <3>1. SUFFICES ASSUME NEW k \in DOMAIN R
                   PROVE  R[k] \in ToSet(Q)
      BY <2>5 DEF Known, ToSet, Q
    <3>2. k \in 1..(Len(Q) - kept + 1) /\ kept + k - 1 \in 1..Len(Q)
      BY <2>1, <2>3, <2>6, PieceEnds
    <3>3. R[k] = Q[kept + k - 1] /\ DOMAIN Q = 1..Len(Q)
      BY <2>1, <2>6, <3>2, PieceEnds
    <3> QED
      BY <3>2, <3>3 DEF ToSet
  <2>12. Confirms(m.blocks) \subseteq Confirms(n.blocks)
    <3>1. SUFFICES ASSUME NEW k \in 2..Len(R)
                   PROVE  ToSet(Header[R[k]].txs) \subseteq Confirms(Q)
      BY <2>5 DEF Confirms, Q
    <3> DEFINE length == Len(Q)
    <3>2. length \in Nat /\ kept \in 1..length /\ k \in 2..(length - kept + 1)
      <4>1. length \in Nat /\ kept \in 1..length
        BY <2>1, <2>3, Zenon
      <4>2. Len(R) = length - kept + 1
        BY <2>6, Zenon
      <4> QED
        BY <4>1, <4>2, Zenon
    <3>3. k \in 1..(Len(Q) - kept + 1) /\ kept + k - 1 \in 2..Len(Q)
      <4> HIDE DEF length
      <4>1. k \in 1..(length - kept + 1) /\ kept + k - 1 \in 2..length
        BY <3>2
      <4> QED
        BY <4>1 DEF length
    <3>4. R[k] = Q[kept + k - 1]
      BY <2>6, <3>3, Zenon
    <3> QED
      BY <3>3, <3>4 DEF Confirms
  <2>13. Shorter(m, n)
    BY <2>5, <2>9, <2>11, <2>12 DEF Shorter
  <2> QED
    BY <1>1, <1>3, <2>9, <2>10, <2>13 DEF Onward
<1> QED
  BY <1>2, <1>3

\* A save writes a piece that can be loaded.
LEMMA SaveGood ==
  ASSUME NEW n, Good(n)
  PROVE  Good(Save(n)) /\ Onward(Save(n), n) /\ Last(Save(n).blocks) \in Blk
<1> DEFINE m == Swept(MaybePrune(n))
           w == [blocks |-> m.blocks, anchor |-> m.anchor, txs |-> m.pool.txs, pruning |-> m.pruning]
           l == [m EXCEPT !.saved = w]
<1>1. Save(n) = l
  BY DEF Save
<1>2. Good(m) /\ Onward(m, n)
  BY MaybePruneGood, SweptGood, OnwardTrans
<1> HIDE DEF m
<1>3. /\ DOMAIN l = DOMAIN m /\ l.blocks = m.blocks /\ l.anchor = m.anchor /\ l.cache = m.cache
      /\ l.orphans = m.orphans /\ l.saved = w /\ w.blocks = m.blocks /\ w.anchor = m.anchor
  BY <1>2 DEF Good
<1> HIDE DEF l, w
<1>4. Good(l)
  BY <1>2, <1>3 DEF Good
<1> QED
  BY <1>1, <1>2, <1>3, <1>4, GoodTip DEF Onward

-----------------------------------------------------------------------------
(* tryAddBlock, and the orphans it goes on to. *)

Trying == INSTANCE Folding WITH op <- TryOrphan
Rounds == INSTANCE Folding WITH op <- Round
Adding == INSTANCE Folding WITH op <- AddNext

\* The loops' results, step by step.
TryingTrace(r, base, s) ==
  /\ r[0] = base /\ r[Len(s)] = Trying!Fold(base, s)
  /\ \A k \in Nat : k < Len(s) => \E x \in Blk : r[k + 1] = TryOrphan(r[k], x)

LEMMA TryingSteps ==
  ASSUME NEW base, NEW s \in Seq(Blk)
  PROVE  \E r : TryingTrace(r, base, s)
  BY Trying!FoldSteps DEF TryingTrace

RoundsTrace(r, base, s) ==
  /\ r[0] = base /\ r[Len(s)] = Rounds!Fold(base, s)
  /\ \A k \in Nat : k < Len(s) => \E x \in Nat : r[k + 1] = Round(r[k], x)

LEMMA RoundsSteps ==
  ASSUME NEW base, NEW s \in Seq(Nat)
  PROVE  \E r : RoundsTrace(r, base, s)
  BY Rounds!FoldSteps DEF RoundsTrace

AddingTrace(r, base, s) ==
  /\ r[0] = base /\ r[Len(s)] = Adding!Fold(base, s)
  /\ \A k \in Nat : k < Len(s) => \E x \in Blk : r[k + 1] = AddNext(r[k], x)

LEMMA AddingSteps ==
  ASSUME NEW base, NEW s \in Seq(Blk)
  PROVE  \E r : AddingTrace(r, base, s)
  BY Adding!FoldSteps DEF AddingTrace

\* A valid child of the tip is appended: more work.
LEMMA ConnectGood ==
  ASSUME NEW n, Good(n), NEW h \in Blk, Header[h].prev = Last(n.blocks),
         Validate(h, Height(n) + 1, n.cache).ok
  PROVE  Good(Connect(n, h)) /\ Onward(Connect(n, h), n)
<1> DEFINE v == Validate(h, Height(n) + 1, n.cache)
           p == Last(n.blocks)
           m == [n EXCEPT !.blocks = Append(@, h), !.cache = v.st,
                          !.pool = Rebuilt(@.txs \ ToSet(Header[h].txs), v.st)]
<1>1. /\ p \in Genuine /\ p \in Blk /\ Height(n) = Depth(p) /\ n.cache = Header[p].root
      /\ IsPiece(n.blocks) /\ n.blocks \in Seq(Blk) \ {<<>>} /\ p = n.blocks[Len(n.blocks)]
  BY GoodTip, PieceEnds DEF Good
<1>2. h \in Genuine /\ v.st = Header[h].root /\ h # Genesis /\ h \in Blk \ {Genesis}
  <2>1. h # Genesis
    BY <1>1, HeaderAssumption
  <2> QED
    BY <1>1, <2>1, GenuineValid
<1>3. Connect(n, h) = Save(Forget(m, h))
  BY DEF Connect, v
<1>4. /\ DOMAIN m = DOMAIN n /\ m.blocks = Append(n.blocks, h) /\ m.cache = v.st
      /\ m.anchor = n.anchor /\ m.orphans = n.orphans /\ m.saved = n.saved
  BY DEF Good
<1> HIDE DEF m, v, p
<1>5. IsPiece(m.blocks) /\ m.blocks[1] = n.blocks[1] /\ Last(m.blocks) = h
  BY <1>1, <1>2, <1>4, PieceMore, MoreEnds DEF p, Last
<1>6. Good(m)
  BY <1>2, <1>4, <1>5 DEF Good, Sits
<1>7. WorkTo(h) > WorkTo(p)
  BY <1>2, WorkToNext DEF p
<1>8. Onward(m, n)
  BY <1>5, <1>6, <1>7 DEF Onward, p
<1>9. Good(Forget(m, h)) /\ Onward(Forget(m, h), n)
  BY <1>6, <1>8, ForgetGood, OnwardTrans
<1>10. Good(Save(Forget(m, h))) /\ Onward(Save(Forget(m, h)), n)
  BY <1>9, SaveGood, OnwardTrans
<1> QED
  BY <1>3, <1>10

LEMMA TryConnectGood ==
  ASSUME NEW n, Good(n), NEW h \in Blk
  PROVE  Good(TryConnect(n, h)) /\ Onward(TryConnect(n, h), n)
<1> DEFINE m == Swept(n)
           r == TryConnect(n, h)
<1>1. Good(m) /\ Onward(m, n)
  BY SweptGood
<1>2. /\ r = IF /\ h \notin Known(m) /\ Header[h].prev = Last(m.blocks)
                /\ Validate(h, Height(m) + 1, m.cache).ok
             THEN Connect(m, h)
             ELSE IF h \notin Known(m) /\ Header[h].prev \notin Known(m) THEN StoreWaiting(m, h)
             ELSE Forget(m, h)
  BY DEF TryConnect
<1> HIDE DEF m, r
<1>3. Good(r) /\ Onward(r, m)
  BY <1>1, <1>2, ConnectGood, StoreWaitingGood, ForgetGood
<1> QED
  BY <1>1, <1>3, OnwardTrans DEF r

LEMMA TryOrphanGood ==
  ASSUME NEW n, Good(n), NEW h \in Blk
  PROVE  Good(TryOrphan(n, h)) /\ Onward(TryOrphan(n, h), n)
<1> DEFINE o == RemoveOrphans(n.orphans, {h})
           l == [n EXCEPT !.orphans = o]
           m == TryConnect(l, h)
           r == TryOrphan(n, h)
<1>1. OrphansOk(o)
  BY RemoveOrphansOk DEF Good
<1>2. l = [n EXCEPT !.orphans = RemoveOrphans(@, {h})]
  BY DEF Good
<1>3. r = IF h \in Known(m) THEN m
          ELSE IF Header[h].prev \notin Known(m) THEN StoreWaiting(m, h)
          ELSE Forget(m, h)
  BY <1>2 DEF TryOrphan
<1> HIDE DEF o, r
<1>4. Good(l) /\ Onward(l, n)
  BY <1>1, GoodOrphans
<1> HIDE DEF l
<1>5. Good(m) /\ Onward(m, n)
  BY <1>4, TryConnectGood, OnwardTrans
<1> HIDE DEF m
<1>6. Good(r) /\ Onward(r, m)
  BY <1>3, <1>5, StoreWaitingGood, ForgetGood, OnwardSelf
<1> QED
  BY <1>5, <1>6, OnwardTrans DEF r

\* The loops over the waiting children, over the queue of parents, over a range.
LEMMA TryAllGood ==
  ASSUME NEW n, Good(n), NEW tried \in Seq(Blk), NEW queue
  PROVE  /\ Good(TryAll(n, tried, queue).node) /\ Onward(TryAll(n, tried, queue).node, n)
<1> DEFINE m == FoldLeft(TryOrphan, n, tried)
<1>1. m = Trying!Fold(n, tried)
  BY DEF Trying!Fold, Trying!MapThenFoldSet, Trying!Max, Max,
         FoldLeft, MapThenFoldSet
<1>2. TryAll(n, tried, queue).node = m
  BY DEF TryAll
<1> HIDE DEF m
<1>3. PICK r : /\ r[0] = n /\ r[Len(tried)] = Trying!Fold(n, tried)
               /\ \A k \in Nat : k < Len(tried) => \E x \in Blk : r[k + 1] = TryOrphan(r[k], x)
  <2>1. \E r : TryingTrace(r, n, tried)
    BY TryingSteps
  <2> QED
    BY <2>1 DEF TryingTrace
<1> DEFINE K == {k \in Nat : k <= Len(tried) => Good(r[k]) /\ Onward(r[k], n)}
<1>4. 0 \in K
  BY <1>3, OnwardSelf
<1>5. ASSUME NEW k \in Nat, k \in K
      PROVE  k + 1 \in K
  <2>1. SUFFICES ASSUME k + 1 <= Len(tried)
                 PROVE  Good(r[k + 1]) /\ Onward(r[k + 1], n)
    OBVIOUS
  <2>2. k < Len(tried) /\ k <= Len(tried)
    BY <2>1
  <2>3. PICK x \in Blk : r[k + 1] = TryOrphan(r[k], x)
    BY <1>3, <2>2
  <2>4. Good(r[k]) /\ Onward(r[k], n)
    BY <1>5, <2>2
  <2>5. Good(r[k + 1]) /\ Onward(r[k + 1], r[k])
    BY <2>3, <2>4, TryOrphanGood
  <2> QED
    BY <2>4, <2>5, OnwardTrans
<1> HIDE DEF K
<1>6. Nat \subseteq K
  BY <1>4, <1>5, Trying!NatSet
<1> QED
  BY <1>1, <1>2, <1>3, <1>6 DEF K

LEMMA RoundGood ==
  ASSUME NEW acc, Good(acc.node), NEW i
  PROVE  Good(Round(acc, i).node) /\ Onward(Round(acc, i).node, acc.node)
<1> DEFINE n == acc.node
           tried == Within(n.orphans.order, Children(n.orphans, Head(acc.queue)))
<1>1. tried \in Seq(Blk)
  BY WithinSeq DEF Good, OrphansOk
<1>2. Round(acc, i) = IF acc.queue = <<>> THEN acc ELSE TryAll(n, tried, Tail(acc.queue))
  BY DEF Round
<1> HIDE DEF tried
<1> QED
  BY <1>1, <1>2, TryAllGood, OnwardSelf

LEMMA ProcessGood ==
  ASSUME NEW n, Good(n), NEW parent
  PROVE  Good(ProcessOrphansFrom(n, parent)) /\ Onward(ProcessOrphansFrom(n, parent), n)
<1> DEFINE start == [node |-> Swept(n), queue |-> <<parent>>]
           rounds == [i \in 1..(MaxOrphans + 1) |-> i]
           last == FoldLeft(Round, start, rounds)
<1>1. last = Rounds!Fold(start, rounds)
  BY DEF Rounds!Fold, Rounds!MapThenFoldSet, Rounds!Max, Max,
         FoldLeft, MapThenFoldSet
<1>2. ProcessOrphansFrom(n, parent) = Swept(last.node)
  BY DEF ProcessOrphansFrom
<1>3. Good(start.node) /\ Onward(start.node, n)
  BY SweptGood
<1>4. rounds \in Seq(Nat) /\ Len(rounds) \in Nat
  <2>1. MaxOrphans + 1 \in Nat
    BY OrphanAssumption
  <2> QED
    BY <2>1
<1> HIDE DEF start, rounds, last
<1>5. PICK r : /\ r[0] = start /\ r[Len(rounds)] = Rounds!Fold(start, rounds)
               /\ \A k \in Nat : k < Len(rounds) => \E x \in Nat : r[k + 1] = Round(r[k], x)
  <2>1. \E r : RoundsTrace(r, start, rounds)
    BY <1>4, RoundsSteps
  <2> QED
    BY <2>1 DEF RoundsTrace
<1> DEFINE K == {k \in Nat : k <= Len(rounds) => Good(r[k].node) /\ Onward(r[k].node, n)}
<1>6. 0 \in K
  BY <1>3, <1>5
<1>7. ASSUME NEW k \in Nat, k \in K
      PROVE  k + 1 \in K
  <2>1. SUFFICES ASSUME k + 1 <= Len(rounds)
                 PROVE  Good(r[k + 1].node) /\ Onward(r[k + 1].node, n)
    OBVIOUS
  <2>2. k < Len(rounds) /\ k <= Len(rounds)
    BY <1>4, <2>1
  <2>3. PICK x \in Nat : r[k + 1] = Round(r[k], x)
    BY <1>5, <2>2
  <2>4. Good(r[k].node) /\ Onward(r[k].node, n)
    BY <1>7, <2>2
  <2>5. Good(r[k + 1].node) /\ Onward(r[k + 1].node, r[k].node)
    BY <2>3, <2>4, RoundGood
  <2> QED
    BY <2>4, <2>5, OnwardTrans
<1> HIDE DEF K
<1>8. Nat \subseteq K
  BY <1>6, <1>7, Rounds!NatSet
<1>9. Good(last.node) /\ Onward(last.node, n)
  BY <1>1, <1>4, <1>5, <1>8 DEF K
<1> QED
  BY <1>2, <1>9, SweptGood, OnwardTrans

LEMMA TryAddBlockGood ==
  ASSUME NEW n, Good(n), NEW h \in Blk
  PROVE  Good(TryAddBlock(n, h)) /\ Onward(TryAddBlock(n, h), n)
<1> DEFINE m == TryConnect(n, h)
<1>1. Good(m) /\ Onward(m, n)
  BY TryConnectGood
<1>2. TryAddBlock(n, h) = IF h \in Known(m) \ Known(n) THEN ProcessOrphansFrom(m, h) ELSE m
  BY DEF TryAddBlock
<1> HIDE DEF m
<1> QED
  BY <1>1, <1>2, ProcessGood, OnwardTrans

LEMMA AddRangeGood ==
  ASSUME NEW n, Good(n), NEW tail \in Seq(Blk)
  PROVE  Good(AddRange(n, tail)) /\ Onward(AddRange(n, tail), n)
<1> DEFINE start == [ok |-> TRUE, node |-> n]
           last == FoldLeft(AddNext, start, tail)
<1>1. last = Adding!Fold(start, tail)
  BY DEF Adding!Fold, Adding!MapThenFoldSet, Adding!Max, Max,
         FoldLeft, MapThenFoldSet
<1>2. AddRange(n, tail) = Swept(last.node)
  BY DEF AddRange
<1>3. Good(start.node) /\ Onward(start.node, n)
  BY OnwardSelf
<1> HIDE DEF start, last
<1>4. PICK r : /\ r[0] = start /\ r[Len(tail)] = Adding!Fold(start, tail)
               /\ \A k \in Nat : k < Len(tail) => \E x \in Blk : r[k + 1] = AddNext(r[k], x)
  <2>1. \E r : AddingTrace(r, start, tail)
    BY AddingSteps
  <2> QED
    BY <2>1 DEF AddingTrace
<1> DEFINE K == {k \in Nat : k <= Len(tail) => Good(r[k].node) /\ Onward(r[k].node, n)}
<1>5. 0 \in K
  BY <1>3, <1>4
<1>6. ASSUME NEW k \in Nat, k \in K
      PROVE  k + 1 \in K
  <2>1. SUFFICES ASSUME k + 1 <= Len(tail)
                 PROVE  Good(r[k + 1].node) /\ Onward(r[k + 1].node, n)
    OBVIOUS
  <2>2. k < Len(tail) /\ k <= Len(tail)
    BY <2>1
  <2>3. PICK x \in Blk : r[k + 1] = AddNext(r[k], x)
    BY <1>4, <2>2
  <2>4. Good(r[k].node) /\ Onward(r[k].node, n)
    BY <1>6, <2>2
  <2>5. r[k + 1].node = TryAddBlock(r[k].node, x) \/ r[k + 1].node = r[k].node
    BY <2>3 DEF AddNext
  <2>6. Good(r[k + 1].node) /\ Onward(r[k + 1].node, r[k].node)
    BY <2>4, <2>5, TryAddBlockGood, OnwardSelf
  <2> QED
    BY <2>4, <2>6, OnwardTrans
<1> HIDE DEF K
<1>7. Nat \subseteq K
  BY <1>5, <1>6, Adding!NatSet
<1>8. Good(last.node) /\ Onward(last.node, n)
  BY <1>1, <1>4, <1>7 DEF K
<1> QED
  BY <1>2, <1>8, SweptGood, OnwardTrans

LEMMA SettleGood ==
  ASSUME NEW n, Good(n)
  PROVE  Good(Settle(n)) /\ Onward(Settle(n), n)
<1> DEFINE m == Save(Swept(n))
           l == ProcessOrphansFrom(m, Last(m.blocks))
<1>1. Settle(n) = Swept(l)
  BY DEF Settle
<1>2. Good(m) /\ Onward(m, n)
  BY SweptGood, SaveGood, OnwardTrans
<1> HIDE DEF m
<1>3. Good(l) /\ Onward(l, n)
  BY <1>2, ProcessGood, OnwardTrans
<1> HIDE DEF l
<1> QED
  BY <1>1, <1>3, SweptGood, OnwardTrans

-----------------------------------------------------------------------------
(* Reorganisations. *)

LEMMA MaxTwo ==
  ASSUME NEW a \in Int, NEW b \in Int
  PROVE  Max({a, b}) \in {a, b} /\ Max({a, b}) >= a /\ Max({a, b}) >= b
<1>1. \E x \in {a, b} : \A y \in {a, b} : x >= y
  OBVIOUS
<1>2. Max({a, b}) \in {a, b} /\ \A y \in {a, b} : Max({a, b}) >= y
  BY <1>1 DEF Max
<1> QED
  BY <1>2

LEMMA MinTwo ==
  ASSUME NEW a \in Int, NEW b \in Int
  PROVE  Min({a, b}) \in {a, b} /\ Min({a, b}) <= a /\ Min({a, b}) <= b
<1>1. \E x \in {a, b} : \A y \in {a, b} : x <= y
  OBVIOUS
<1>2. Min({a, b}) \in {a, b} /\ \A y \in {a, b} : Min({a, b}) <= y
  BY <1>1 DEF Min
<1> QED
  BY <1>2

\* What replaces the local blocks starts with the first of them.
LEMMA IncomingStart ==
  ASSUME NEW n, Good(n), NEW from \in Nat, NEW tail \in Seq(Blk)
  PROVE  /\ Incoming(n, from, tail) \in Seq(Blk) \ {<<>>}
         /\ Incoming(n, from, tail)[1] = n.blocks[1]
<1> DEFINE low == n.anchor.height
           high == Height(n)
           below == from - 1
           upper == Max({low, below})
           common == Min({upper, high})
           k == common - low + 1
           Q == n.blocks
           R == SubSeq(Q, 1, k)
<1>1. IsPiece(Q) /\ Q \in Seq(Blk) /\ Len(Q) \in Nat \ {0} /\ Q[1] \in Blk /\ low = Depth(Q[1])
  BY GoodTip, PieceEnds
<1>2. low \in Nat /\ high = low + Len(Q) - 1 /\ high \in Nat /\ below \in Int
  <2>1. Depth(Q[1]) \in Nat
    BY <1>1, DepthNat
  <2>2. high = low + Len(Q) - 1
    BY DEF Height
  <2> QED
    BY <1>1, <2>1, <2>2
<1>5. Incoming(n, from, tail) = R \o tail
  BY DEF Incoming
<1> HIDE DEF low, high, below, Q
<1>3. common \in Int /\ common >= low /\ common <= high
  <2>1. low \in Int /\ below \in Int /\ high \in Int
    BY <1>2
  <2>2. upper \in {low, below} /\ upper >= low
    BY <2>1, MaxTwo, Zenon
  <2> HIDE DEF upper
  <2>3. upper \in Int
    BY <2>1, <2>2
  <2>4. common \in {upper, high} /\ common <= high
    BY <2>1, <2>3, MinTwo, Zenon
  <2> QED
    BY <1>1, <1>2, <2>2, <2>3, <2>4
<1> HIDE DEF common
<1>4. k \in 1..Len(Q) /\ k \in Nat \ {0} /\ k - 1 + 1 = k /\ 1 \in 1..Len(Q) /\ k \in 1..k
  BY <1>1, <1>2, <1>3
<1> HIDE DEF k
<1>6. IsPiece(R) /\ Len(R) = k /\ \A i \in 1..k : R[i] = Q[1 + i - 1]
  BY <1>1, <1>4, PieceSub
<1> HIDE DEF R
<1>7. R \in Seq(Blk) /\ R[1] = Q[1]
  <2>1. 1 \in 1..k /\ 1 + 1 - 1 = 1
    BY <1>4
  <2> QED
    BY <1>6, <2>1 DEF IsPiece
<1>8. R \o tail \in Seq(Blk) /\ (R \o tail)[1] = R[1] /\ Len(R \o tail) >= 1
  BY <1>4, <1>6, <1>7
<1>9. R \o tail # <<>>
  BY <1>8
<1> QED
  BY <1>5, <1>7, <1>8, <1>9 DEF Q

\* What is adopted is a piece on the same first block, with more work to its end.
LEMMA AdoptableBetter ==
  ASSUME NEW n, Good(n), NEW Q \in Seq(Blk) \ {<<>>}, Q[1] = n.blocks[1], Adoptable(n, Q)
  PROVE  /\ IsPiece(Q) /\ Last(Q) \in Blk
         /\ Replayed(Q, n.anchor).st = Header[Last(Q)].root
         /\ WorkTo(Last(Q)) > WorkTo(Last(n.blocks))
<1>1. /\ IsPiece(n.blocks) /\ n.anchor.height = Depth(Q[1]) /\ n.anchor.state = Header[Q[1]].root
      /\ Last(n.blocks) = n.blocks[Len(n.blocks)] /\ Q[1] \in Genuine /\ Q[1] \in Blk
      /\ n.blocks \in Seq(Blk) \ {<<>>} /\ Last(n.blocks) \in Blk
  BY GoodTip, PieceEnds
<1>2. Replayed(Q, n.anchor) = Replay(Q, Depth(Q[1]), Header[Q[1]].root)
  BY <1>1 DEF Replayed
<1>3. Work(Q) > Work(n.blocks) /\ Replayed(Q, n.anchor).ok
  BY DEF Adoptable
<1>4. IsPiece(Q)
  BY <1>1, <1>2, <1>3, ReplayPiece
<1>5. Last(Q) = Q[Len(Q)] /\ Last(Q) \in Blk
  BY <1>4, PieceEnds
<1>6. Replayed(Q, n.anchor).st = Header[Last(Q)].root
  <2>1. Replayed(Q, n.anchor) = Reached(Last(Q))
    BY <1>2, <1>4, <1>5, PieceReplay
  <2>2. Reached(Last(Q)).st = Header[Last(Q)].root
    BY DEF Reached
  <2> QED
    BY <2>1, <2>2
<1>7. /\ WorkTo(Last(Q)) = WorkTo(Q[1]) + Work(Q)
      /\ WorkTo(Last(n.blocks)) = WorkTo(Q[1]) + Work(n.blocks)
  BY <1>1, <1>4, <1>5, PieceWork
<1>8. WorkTo(Q[1]) \in Nat /\ Work(Q) \in Nat /\ Work(n.blocks) \in Nat
  BY <1>1, WorkToNat, WorkNat
<1> QED
  BY <1>3, <1>4, <1>5, <1>6, <1>7, <1>8

\* The undo cannot have spoilt a ledger on which the redo succeeds: at least one block is redone.
LEMMA RedoRoot ==
  ASSUME NEW n, Good(n), NEW Q \in Seq(Blk) \ {<<>>}, Q[1] = n.blocks[1], Adoptable(n, Q),
         Redo(n, Q).ok
  PROVE  Redo(n, Q).st = Header[Last(Q)].root
<1> DEFINE S == {i \in DOMAIN Q : Q[i] \in Known(n)}
           fork == ForkPoint(n, Q)
<1>1. PICK P \in Seq(Blk), x \in Blk : Q = Append(P, x)
  BY SequenceEmptyOrAppend
<1>2. /\ Len(P) \in Nat /\ Len(Q) = Len(P) + 1 /\ DOMAIN Q = 1..(Len(P) + 1)
      /\ Last(Q) = x /\ Q[Len(P) + 1] = x
  BY <1>1 DEF Last
<1>3. IsPiece(n.blocks) /\ WorkTo(Last(Q)) > WorkTo(Last(n.blocks))
  BY GoodTip, AdoptableBetter
<1>4. fork \in S
  <2>1. 1 \in S
    <3>1. 1 \in DOMAIN Q /\ 1 \in DOMAIN n.blocks
      BY <1>2, <1>3, PieceEnds
    <3> QED
      BY <3>1 DEF Known, ToSet
  <2>2. S \in SUBSET (1..(Len(P) + 1)) /\ S # {} /\ Len(P) + 1 \in Nat
    BY <1>2, <2>1
  <2>3. fork = Max(S)
    BY DEF ForkPoint
  <2> HIDE DEF S, fork
  <2>4. Max(S) \in S
    BY <2>2, Replaying!MaxIn DEF Max, Replaying!Max
  <2> QED
    BY <2>3, <2>4
<1>5. fork # Len(P) + 1
  <2>1. SUFFICES ASSUME x \in Known(n)
                 PROVE  FALSE
    BY <1>2, <1>4
  <2>2. PICK j \in 1..Len(n.blocks) : x = n.blocks[j]
    BY <1>3, <2>1, PieceEnds DEF Known, ToSet
  <2>3. WorkTo(x) <= WorkTo(Last(n.blocks))
    BY <1>3, <2>2, PieceRises, GoodTip
  <2>4. WorkTo(x) \in Nat /\ WorkTo(Last(n.blocks)) \in Nat
    BY WorkToNat, GoodTip
  <2> QED
    BY <1>2, <1>3, <2>3, <2>4
<1>6. fork \in 1..Len(P)
  BY <1>2, <1>4, <1>5
<1> HIDE DEF fork, S
<1> DEFINE R == SubSeq(P, fork, Len(P))
<1>7. SubSeq(Q, fork, Len(Q)) = Append(R, x)
  BY <1>1, <1>2, <1>6, SliceMore
<1>8. R \in Seq(Blk) \ {<<>>}
  <2>1. /\ fork \in Int /\ Len(P) \in Int /\ fork <= Len(P)
        /\ \A i \in fork..Len(P) : P[i] \in Blk
    BY <1>1, <1>2, <1>6
  <2>2. R \in Seq(Blk) /\ Len(R) = Len(P) - fork + 1
    BY <2>1, SubSeqProperties
  <2>3. Len(R) # 0
    BY <1>2, <1>6, <2>2
  <2> HIDE DEF R
  <2> QED
    BY <2>2, <2>3
<1> HIDE DEF R
<1>9. \E st : Redo(n, Q) = Replay(Append(R, x), n.anchor.height + fork - 1, st)
  BY <1>7 DEF Redo, fork
<1> QED
  BY <1>2, <1>8, <1>9, ReplayRoot

\* The local blocks are replaced by an adoptable range.
LEMMA MovedGood ==
  ASSUME NEW n, Good(n), NEW Q \in Seq(Blk) \ {<<>>}, Q[1] = n.blocks[1], Adoptable(n, Q), NEW m,
         DOMAIN m = DOMAIN n, m.blocks = Q, m.cache = Header[Last(Q)].root,
         m.anchor = n.anchor, m.orphans = n.orphans, m.saved = n.saved
  PROVE  Good(m) /\ Onward(m, n)
<1>1. IsPiece(Q) /\ WorkTo(Last(Q)) > WorkTo(Last(n.blocks))
  BY AdoptableBetter
<1>2. Good(m)
  BY <1>1 DEF Good, Sits
<1> QED
  BY <1>1, <1>2 DEF Onward

LEMMA AdoptByReplayGood ==
  ASSUME NEW n, Good(n), NEW Q \in Seq(Blk) \ {<<>>}, Q[1] = n.blocks[1], Adoptable(n, Q)
  PROVE  Good(AdoptByReplay(n, Q)) /\ Onward(AdoptByReplay(n, Q), n)
<1> DEFINE st == Replayed(Q, n.anchor).st
           m == [n EXCEPT !.blocks = Q, !.cache = st, !.pool = Rebuilt(@.txs, st)]
<1>1. AdoptByReplay(n, Q) = Settle(m)
  BY DEF AdoptByReplay
<1>2. st = Header[Last(Q)].root
  BY AdoptableBetter
<1> HIDE DEF st
<1>3. /\ DOMAIN m = DOMAIN n /\ m.blocks = Q /\ m.cache = st /\ m.anchor = n.anchor
      /\ m.orphans = n.orphans /\ m.saved = n.saved
  BY DEF Good
<1> HIDE DEF m
<1>4. Good(m) /\ Onward(m, n)
  BY <1>2, <1>3, MovedGood
<1> QED
  BY <1>1, <1>4, SettleGood, OnwardTrans

LEMMA AdoptByUndoGood ==
  ASSUME NEW n, Good(n), NEW Q \in Seq(Blk) \ {<<>>}, Q[1] = n.blocks[1], Adoptable(n, Q),
         Redo(n, Q).ok
  PROVE  Good(AdoptByUndo(n, Q)) /\ Onward(AdoptByUndo(n, Q), n)
<1> DEFINE st == Redo(n, Q).st
           m == [n EXCEPT !.blocks = Q, !.cache = st, !.pool = EmptyPool]
<1>1. AdoptByUndo(n, Q) = m
  BY DEF AdoptByUndo
<1>2. st = Header[Last(Q)].root
  BY RedoRoot
<1> HIDE DEF st
<1>3. /\ DOMAIN m = DOMAIN n /\ m.blocks = Q /\ m.cache = st /\ m.anchor = n.anchor
      /\ m.orphans = n.orphans /\ m.saved = n.saved
  BY DEF Good
<1> HIDE DEF m
<1>4. Good(m) /\ Onward(m, n)
  BY <1>2, <1>3, MovedGood
<1> QED
  BY <1>1, <1>4

LEMMA FinishedGood ==
  ASSUME NEW n, Good(n), NEW left
  PROVE  Good(Finished(n, left)) /\ Onward(Finished(n, left), n)
  BY SettleGood, OnwardSelf DEF Finished

LEMMA OfferedGood ==
  ASSUME NEW n, Good(n), NEW outcome
  PROVE  Good(Offered(n, outcome)) /\ Onward(Offered(n, outcome), n)
<1> DEFINE m == [n EXCEPT !.pool = outcome.pool]
<1>1. Offered(n, outcome) = IF outcome.added THEN Save(m) ELSE m
  BY DEF Offered
<1>2. /\ DOMAIN m = DOMAIN n /\ m.blocks = n.blocks /\ m.cache = n.cache /\ m.anchor = n.anchor
      /\ m.orphans = n.orphans /\ m.saved = n.saved
  BY DEF Good
<1> HIDE DEF m
<1>3. Good(m) /\ Onward(m, n)
  BY <1>2 DEF Good, Onward
<1> QED
  BY <1>1, <1>3, SaveGood, OnwardTrans

-----------------------------------------------------------------------------
(* The invariant. *)

IInv == Good(Node)

LEMMA NodeFields ==
  /\ DOMAIN Node = {"blocks", "anchor", "cache", "pool", "orphans", "pruning", "saved"}
  /\ Node.blocks = blocks /\ Node.anchor = anchor /\ Node.cache = cache /\ Node.pool = pool
  /\ Node.orphans = orphans /\ Node.pruning = pruning /\ Node.saved = saved
  BY DEF Node

\* The node has become a node in order.
LEMMA Became ==
  ASSUME NEW n, Good(n), Become(n)
  PROVE  IInv' /\ blocks' = n.blocks
<1>1. /\ blocks' = n.blocks /\ anchor' = n.anchor /\ cache' = n.cache
      /\ orphans' = n.orphans /\ saved' = n.saved
  BY DEF Become
<1>2. /\ DOMAIN Node' = {"blocks", "anchor", "cache", "pool", "orphans", "pruning", "saved"}
      /\ Node'.blocks = blocks' /\ Node'.anchor = anchor' /\ Node'.cache = cache'
      /\ Node'.orphans = orphans' /\ Node'.saved = saved'
  BY DEF Node
<1>3. Good(Node')
  BY <1>1, <1>2 DEF Good
<1>4. Node' = Node' /\ IInv' = Good(Node')
  BY DEF IInv
<1> QED
  BY <1>1, <1>3, <1>4

LEMMA InitInv == Init => IInv
<1>1. SUFFICES ASSUME Init
               PROVE  Good(Node)
  BY DEF IInv
<1>2. /\ IsPiece(<<Genesis>>) /\ Last(<<Genesis>>) = Genesis /\ <<Genesis>>[1] = Genesis
  BY PieceOne, GenuineGenesis DEF Last
<1>3. Sits(<<Genesis>>, NoCheckpoint)
  BY <1>2, DepthGenesis, HeaderAssumption DEF Sits, NoCheckpoint
<1>4. /\ Node.blocks = <<Genesis>> /\ Node.anchor = NoCheckpoint /\ Node.cache = EmptyLedger
      /\ Node.orphans = EmptyOrphans
      /\ Node.saved.blocks = <<Genesis>> /\ Node.saved.anchor = NoCheckpoint
  BY <1>1, NodeFields DEF Init
<1> QED
  BY <1>2, <1>3, <1>4, NodeFields, EmptyOrphansOk, HeaderAssumption DEF Good

\* What a step does to the tip, import and restart apart.
Rises == Last(blocks') = Last(blocks) \/ WorkTo(Last(blocks')) > WorkTo(Last(blocks))

LEMMA Risen ==
  ASSUME IInv, NEW n, Good(n), Onward(n, Node), Become(n)
  PROVE  IInv' /\ Rises
<1>1. IInv' /\ blocks' = n.blocks
  BY Became
<1> QED
  BY <1>1, NodeFields DEF Onward, Rises

\* Action by action.
LEMMA ReceiveInv ==
  ASSUME IInv, NEW h \in Blk, Receive(h)
  PROVE  IInv' /\ Rises
  BY TryAddBlockGood, Risen DEF IInv, Receive

LEMMA TailType == \A tail \in Tails : tail \in Seq(Blk) /\ tail # <<>>
  OBVIOUS

LEMMA ReceiveLinearInv ==
  ASSUME IInv, NEW from, NEW tail \in Tails, ReceiveLinear(from, tail)
  PROVE  IInv' /\ Rises
<1>1. Good(Swept(Node)) /\ Onward(Swept(Node), Node)
  BY SweptGood DEF IInv
<1>2. Good(AddRange(Swept(Node), tail)) /\ Onward(AddRange(Swept(Node), tail), Node)
  BY <1>1, TailType, AddRangeGood, OnwardTrans DEF IInv
<1> QED
  BY <1>2, Risen DEF ReceiveLinear

LEMMA RefuseForkInv ==
  ASSUME IInv, NEW from, NEW tail, RefuseFork(from, tail)
  PROVE  IInv' /\ Rises
  BY SweptGood, Risen DEF IInv, RefuseFork

\* Sweeping the orphans changes nothing a reorganisation looks at.
LEMMA SweptSame ==
  ASSUME NEW n, Good(n), NEW Q
  PROVE  /\ Adoptable(Swept(n), Q) <=> Adoptable(n, Q)
         /\ Redo(Swept(n), Q) = Redo(n, Q)
<1>1. /\ Swept(n).blocks = n.blocks /\ Swept(n).anchor = n.anchor /\ Swept(n).cache = n.cache
      /\ Known(Swept(n)) = Known(n)
  BY SweptGood
<1>2. Adoptable(Swept(n), Q) <=> Adoptable(n, Q)
  BY <1>1 DEF Adoptable
<1>3. ForkPoint(Swept(n), Q) = ForkPoint(n, Q)
  BY <1>1 DEF ForkPoint
<1>4. Redo(Swept(n), Q) = Redo(n, Q)
  BY <1>1, <1>3 DEF Redo
<1> QED
  BY <1>2, <1>4

LEMMA ReplayForkInv ==
  ASSUME IInv, NEW from \in Nat, NEW tail \in Tails, ReplayFork(from, tail)
  PROVE  IInv' /\ Rises
<1> DEFINE Q == Incoming(Node, from, tail)
           m == Swept(Node)
<1>1. /\ Good(Node) /\ Good(m) /\ Onward(m, Node) /\ m.blocks = Node.blocks
      /\ Q \in Seq(Blk) \ {<<>>} /\ Q[1] = Node.blocks[1]
  BY TailType, SweptGood, IncomingStart DEF IInv
<1>2. Adoptable(Node, Q) /\ Become(AdoptByReplay(m, Q))
  BY DEF ReplayFork
<1>3. Adoptable(m, Q)
  BY <1>1, <1>2, SweptSame
<1> HIDE DEF Q, m
<1>4. Good(AdoptByReplay(m, Q)) /\ Onward(AdoptByReplay(m, Q), Node)
  BY <1>1, <1>3, AdoptByReplayGood, OnwardTrans
<1> QED
  BY <1>2, <1>4, Risen

LEMMA RedoForkInv ==
  ASSUME IInv, NEW from \in Nat, NEW tail \in Tails, RedoFork(from, tail)
  PROVE  IInv' /\ Rises
<1> DEFINE Q == Incoming(Node, from, tail)
           m == Swept(Node)
           l == AdoptByUndo(m, Q)
<1>1. /\ Good(Node) /\ Good(m) /\ Onward(m, Node) /\ m.blocks = Node.blocks
      /\ Q \in Seq(Blk) \ {<<>>} /\ Q[1] = Node.blocks[1]
  BY TailType, SweptGood, IncomingStart DEF IInv
<1>2. Adoptable(Node, Q) /\ Redo(Node, Q).ok /\ Become(Finished(l, readmit'))
  BY DEF RedoFork
<1>3. Adoptable(m, Q) /\ Redo(m, Q).ok
  BY <1>1, <1>2, SweptSame
<1> HIDE DEF Q, m
<1>4. Good(l) /\ Onward(l, Node)
  BY <1>1, <1>3, AdoptByUndoGood, OnwardTrans
<1> HIDE DEF l
<1>5. Good(Finished(l, readmit')) /\ Onward(Finished(l, readmit'), Node)
  BY <1>1, <1>4, FinishedGood, OnwardTrans
<1> QED
  BY <1>2, <1>5, Risen

LEMMA ReadmitInv ==
  ASSUME IInv, Readmit
  PROVE  IInv' /\ Rises
<1>1. PICK outcome : Become(Finished(Offered(Node, outcome), readmit'))
  BY DEF Readmit
<1> DEFINE m == Offered(Node, outcome)
<1>2. Good(Node) /\ Good(m) /\ Onward(m, Node)
  BY OfferedGood DEF IInv
<1> HIDE DEF m
<1>3. Good(Finished(m, readmit')) /\ Onward(Finished(m, readmit'), Node)
  BY <1>2, FinishedGood, OnwardTrans
<1> QED
  BY <1>1, <1>3, Risen DEF m

LEMMA SubmitInv ==
  ASSUME IInv, NEW t, Submit(t)
  PROVE  IInv' /\ Rises
<1>1. PICK outcome : Become(Offered(Node, outcome))
  BY DEF Submit
<1>2. Good(Offered(Node, outcome)) /\ Onward(Offered(Node, outcome), Node)
  BY OfferedGood DEF IInv
<1> QED
  BY <1>1, <1>2, Risen

LEMMA ExpireInv ==
  ASSUME IInv, Expire
  PROVE  IInv' /\ Rises
<1>1. /\ blocks' = blocks /\ anchor' = anchor /\ cache' = cache /\ saved' = saved
      /\ DOMAIN orphans' = DOMAIN orphans /\ orphans'.order = orphans.order
  BY NodeFields DEF Expire, IInv, Good, OrphansOk
<1>2. /\ DOMAIN Node' = {"blocks", "anchor", "cache", "pool", "orphans", "pruning", "saved"}
      /\ Node'.blocks = blocks' /\ Node'.anchor = anchor' /\ Node'.cache = cache'
      /\ Node'.orphans = orphans' /\ Node'.saved = saved'
  BY DEF Node
<1>3. Good(Node')
  BY <1>1, <1>2, NodeFields DEF Good, IInv, OrphansOk
<1>4. IInv' = Good(Node')
  BY DEF IInv
<1> QED
  BY <1>1, <1>3, <1>4 DEF Rises

LEMMA SetStorageModeInv ==
  ASSUME IInv, NEW on, SetStorageMode(on)
  PROVE  IInv' /\ Rises
<1> DEFINE m == [Node EXCEPT !.pruning = on]
<1>1. Become(Save(m))
  BY DEF SetStorageMode
<1>2. /\ DOMAIN m = DOMAIN Node /\ m.blocks = Node.blocks /\ m.cache = Node.cache
      /\ m.anchor = Node.anchor /\ m.orphans = Node.orphans /\ m.saved = Node.saved
  BY NodeFields
<1> HIDE DEF m
<1>3. Good(m) /\ Onward(m, Node)
  BY <1>2 DEF IInv, Good, Onward
<1>4. Good(Save(m)) /\ Onward(Save(m), Node)
  BY <1>3, SaveGood, OnwardTrans DEF IInv
<1> QED
  BY <1>1, <1>4, Risen

LEMMA ImportInv ==
  ASSUME IInv, NEW h \in Genuine, ImportCheckpoint(h)
  PROVE  IInv'
<1> DEFINE m == [Node EXCEPT !.blocks = <<h>>, !.anchor = SnapshotOf(h),
                             !.cache = SnapshotOf(h).state,
                             !.pool = EmptyPool, !.orphans = EmptyOrphans]
<1>1. Become(Save(m))
  BY DEF ImportCheckpoint
<1>2. /\ DOMAIN m = DOMAIN Node /\ m.blocks = <<h>> /\ m.cache = SnapshotOf(h).state
      /\ m.anchor = SnapshotOf(h) /\ m.orphans = EmptyOrphans /\ m.saved = saved
  BY NodeFields
<1> HIDE DEF m
<1>3. SnapshotOf(h) = [height |-> Depth(h), state |-> Header[h].root]
  <2>1. FullReplay(h) = Reached(h)
    BY GenuineAt DEF Genuine
  <2> QED
    BY <2>1 DEF SnapshotOf, Reached
<1>4. IsPiece(<<h>>) /\ <<h>>[1] = h /\ Last(<<h>>) = h
  BY PieceOne DEF Last
<1>5. Good(m)
  BY <1>2, <1>3, <1>4, EmptyOrphansOk, NodeFields DEF Good, Sits, IInv
<1> QED
  BY <1>1, <1>5, SaveGood, Became

LEMMA RestartInv ==
  ASSUME IInv, Restart
  PROVE  IInv'
<1> DEFINE loaded == Replayed(saved.blocks, saved.anchor)
           m == [blocks |-> saved.blocks, anchor |-> saved.anchor, cache |-> loaded.st,
                 pool |-> Rebuilt({t \in saved.txs : PolicyOk(t)}, loaded.st),
                 orphans |-> EmptyOrphans, pruning |-> saved.pruning, saved |-> saved]
<1>1. Become(m)
  BY DEF Restart
<1>2. /\ DOMAIN m = {"blocks", "anchor", "cache", "pool", "orphans", "pruning", "saved"}
      /\ m.blocks = saved.blocks /\ m.cache = loaded.st
      /\ m.anchor = saved.anchor /\ m.orphans = EmptyOrphans /\ m.saved = saved
  OBVIOUS
<1>3. Sits(saved.blocks, saved.anchor)
  BY NodeFields DEF IInv, Good
<1>4. loaded.st = Header[Last(saved.blocks)].root
  <2>1. loaded = Reached(Last(saved.blocks))
    BY <1>3, PieceReplay, PieceEnds DEF Sits, Replayed
  <2> HIDE DEF loaded
  <2> QED
    BY <2>1 DEF Reached
<1> HIDE DEF m, loaded
<1>5. Good(m)
  BY <1>2, <1>3, <1>4, EmptyOrphansOk DEF Good
<1> QED
  BY <1>1, <1>5, Became

LEMMA StepInv ==
  ASSUME IInv, [Next]_vars
  PROVE  /\ IInv'
         /\ Rises \/ Restart \/ \E h \in Genuine : ImportCheckpoint(h)
<1>1. ASSUME NEW h \in Blk, Receive(h)
      PROVE  IInv' /\ Rises
  BY <1>1, ReceiveInv
<1>2. ASSUME NEW from \in 0..(MaxHeight + 1), NEW tail \in Tails,
             \/ ReceiveLinear(from, tail) \/ RefuseFork(from, tail)
             \/ ReplayFork(from, tail) \/ RedoFork(from, tail)
      PROVE  IInv' /\ Rises
  <2>1. from \in Nat
    OBVIOUS
  <2> QED
    BY <1>2, <2>1, ReceiveLinearInv, RefuseForkInv, ReplayForkInv, RedoForkInv
<1>3. CASE Readmit
  BY <1>3, ReadmitInv
<1>4. ASSUME NEW t \in Tx, Submit(t)
      PROVE  IInv' /\ Rises
  BY <1>4, SubmitInv
<1>5. CASE Expire
  BY <1>5, ExpireInv
<1>6. ASSUME NEW on \in BOOLEAN, SetStorageMode(on)
      PROVE  IInv' /\ Rises
  BY <1>6, SetStorageModeInv
<1>7. ASSUME NEW h \in Genuine \ {Genesis}, ImportCheckpoint(h)
      PROVE  IInv'
  BY <1>7, ImportInv
<1>8. CASE Restart
  BY <1>8, RestartInv
<1>9. CASE UNCHANGED vars
  <2>1. Node' = Node /\ blocks' = blocks
    BY <1>9 DEF vars, Node
  <2> QED
    BY <2>1 DEF IInv, Rises
<1> QED
  BY <1>1, <1>2, <1>3, <1>4, <1>5, <1>6, <1>7, <1>8, <1>9 DEF Next

(* A node is always in order: each handler of chain.ts takes it from one    *)
(* such state to another.                                                   *)
THEOREM Invariant == Spec => []IInv
<1>1. Init => IInv
  BY InitInv
<1>2. IInv /\ [Next]_vars => IInv'
  BY StepInv
<1> QED
  BY <1>1, <1>2, PTL DEF Spec

-----------------------------------------------------------------------------
(* Sums over finite sets. *)

LEMMA OneLess ==
  ASSUME NEW T, IsFiniteSet(T), NEW x \in T
  PROVE  /\ IsFiniteSet(T \ {x}) /\ Cardinality(T) \in Nat /\ Cardinality(T \ {x}) \in Nat
         /\ Cardinality(T) = Cardinality(T \ {x}) + 1
<1> DEFINE n == Cardinality(T)
           k == Cardinality(T \ {x})
<1>1. IsFiniteSet(T \ {x}) /\ n \in Nat
  BY FS_RemoveElement, FS_CardinalityType
<1>2. k = IF x \in T THEN n - 1 ELSE n
  BY FS_RemoveElement
<1>3. k \in Nat
  BY <1>1, FS_CardinalityType
<1> HIDE DEF n, k
<1>4. n = k + 1
  BY <1>1, <1>2, <1>3
<1> QED
  BY <1>1, <1>3, <1>4 DEF n, k

\* A set with {} in it, and with T and one element more whenever it has T, has every finite set.
LEMMA FiniteSet ==
  ASSUME NEW S, IsFiniteSet(S), NEW K, {} \in K,
         \A T \in SUBSET S, x \in S : T \in K /\ x \notin T => T \cup {x} \in K
  PROVE  SUBSET S \subseteq K
<1> DEFINE N == {n \in Nat : \A T \in SUBSET S : Cardinality(T) = n => T \in K}
<1>1. 0 \in N
  BY FS_EmptySet, FS_Subset
<1>2. ASSUME NEW n \in Nat, n \in N
      PROVE  n + 1 \in N
  <2>1. SUFFICES ASSUME NEW T \in SUBSET S, Cardinality(T) = n + 1
                 PROVE  T \in K
    OBVIOUS
  <2>2. IsFiniteSet(T) /\ T # {}
    BY <2>1, FS_Subset, FS_EmptySet
  <2>3. PICK x \in T : TRUE
    BY <2>2
  <2>4. Cardinality(T \ {x}) = n
    <3> DEFINE k == Cardinality(T \ {x})
    <3>1. k \in Nat /\ Cardinality(T) = k + 1
      BY <2>2, OneLess
    <3> HIDE DEF k
    <3>2. k = n
      BY <2>1, <3>1
    <3> QED
      BY <3>2 DEF k
  <2>5. T \ {x} \in SUBSET S /\ x \in S /\ x \notin T \ {x} /\ (T \ {x}) \cup {x} = T
    BY <2>3
  <2> QED
    BY <1>2, <2>4, <2>5
<1> HIDE DEF N
<1>3. Nat \subseteq N
  BY <1>1, <1>2, Replaying!NatSet
<1>4. ASSUME NEW T \in SUBSET S
      PROVE  T \in K
  <2>1. Cardinality(T) \in Nat
    BY FS_Subset, FS_CardinalityType
  <2> QED
    BY <1>3, <2>1 DEF N
<1> QED
  BY <1>4

\* What a sum takes from a set first, and what it is: an equation over the set's parts.
Pick(T) == CHOOSE x \in T : TRUE
SumSolves(it, f, S) ==
  it = [T \in SUBSET S |-> IF T = {} THEN 0 ELSE f[Pick(T)] + it[T \ {Pick(T)}]]

LEMMA SumIs ==
  ASSUME NEW f, NEW S
  PROVE  SumFunctionOnSet(f, S) = (CHOOSE it : SumSolves(it, f, S))[S]
  BY DEF SumFunctionOnSet, FoldFunctionOnSet, MapThenFoldSet, SumSolves, Pick

LEMMA PickIn ==
  ASSUME NEW T, T # {}
  PROVE  Pick(T) \in T
  BY DEF Pick

\* By the size of the parts: those of n elements as before, and those of one more.
LEMMA SumSolvable ==
  ASSUME NEW f, NEW S, IsFiniteSet(S)
  PROVE  \E it : SumSolves(it, f, S)
<1> DEFINE Do(it, T) == IF T = {} THEN 0 ELSE f[Pick(T)] + it[T \ {Pick(T)}]
           Upto(it, n) == \A T \in SUBSET S : Cardinality(T) <= n => it[T] = Do(it, T)
           N == {n \in Nat : \E it : it = [T \in SUBSET S |-> it[T]] /\ Upto(it, n)}
<1>0. \A T \in SUBSET S : /\ IsFiniteSet(T) /\ Cardinality(T) \in Nat /\ (Cardinality(T) = 0 <=> T = {})
                          /\ Cardinality(T) <= Cardinality(S) /\ Cardinality(S) \in Nat
  BY FS_Subset, FS_CardinalityType, FS_EmptySet
<1>1. 0 \in N
  <2> DEFINE it == [T \in SUBSET S |-> 0]
  <2>1. it = [T \in SUBSET S |-> it[T]]
    OBVIOUS
  <2>2. Upto(it, 0)
    BY <1>0
  <2> QED
    BY <2>1, <2>2
<1>2. ASSUME NEW n \in Nat, n \in N
      PROVE  n + 1 \in N
  <2>1. PICK it : it = [T \in SUBSET S |-> it[T]] /\ Upto(it, n)
    BY <1>2
  <2> DEFINE next == [T \in SUBSET S |-> Do(it, T)]
  <2>2. ASSUME NEW T \in SUBSET S, Cardinality(T) <= n
        PROVE  next[T] = it[T]
    BY <2>1, <2>2
  <2>3. ASSUME NEW T \in SUBSET S, Cardinality(T) <= n + 1
        PROVE  next[T] = Do(next, T)
    <3>1. CASE T = {}
      BY <3>1
    <3>2. CASE T # {}
      <4> DEFINE R == T \ {Pick(T)}
      <4>1. R \in SUBSET S /\ Cardinality(R) \in Nat /\ Cardinality(T) = Cardinality(R) + 1
        BY <1>0, <3>2, PickIn, OneLess
      <4>2. next[R] = it[R]
        <5> HIDE DEF R
        <5>1. Cardinality(R) <= n
          BY <2>3, <4>1
        <5> QED
          BY <2>2, <4>1, <5>1
      <4> QED
        BY <3>2, <4>2
    <3> QED
      BY <3>1, <3>2
  <2>4. next = [T \in SUBSET S |-> next[T]]
    OBVIOUS
  <2> HIDE DEF next, Do
  <2>5. Upto(next, n + 1)
    BY <2>3
  <2> HIDE DEF Upto
  <2> QED
    BY <2>4, <2>5
<1> HIDE DEF N
<1>3. Cardinality(S) \in N
  BY <1>0, <1>1, <1>2, Replaying!NatSet
<1>4. PICK it : it = [T \in SUBSET S |-> it[T]] /\ Upto(it, Cardinality(S))
  BY <1>3 DEF N
<1>5. \A T \in SUBSET S : it[T] = Do(it, T)
  BY <1>0, <1>4
<1>6. it = [T \in SUBSET S |-> Do(it, T)]
  BY <1>4, <1>5
<1> QED
  BY <1>6 DEF SumSolves

\* Two solutions agree where both speak.
LEMMA SumUnique ==
  ASSUME NEW f, NEW S, IsFiniteSet(S), NEW R \in SUBSET S,
         NEW i, SumSolves(i, f, S), NEW j, SumSolves(j, f, R)
  PROVE  \A T \in SUBSET R : i[T] = j[T]
<1> DEFINE K == {n \in Nat : \A T \in SUBSET R : Cardinality(T) = n => i[T] = j[T]}
<1>0. \A T \in SUBSET R : T \in SUBSET S /\ IsFiniteSet(T) /\ Cardinality(T) \in Nat
                          /\ (Cardinality(T) = 0 <=> T = {})
  BY FS_Subset, FS_CardinalityType, FS_EmptySet
<1>i. \A T \in SUBSET S : i[T] = IF T = {} THEN 0 ELSE f[Pick(T)] + i[T \ {Pick(T)}]
  BY DEF SumSolves
<1>j. \A T \in SUBSET R : j[T] = IF T = {} THEN 0 ELSE f[Pick(T)] + j[T \ {Pick(T)}]
  BY DEF SumSolves
<1>1. 0 \in K
  BY <1>0, <1>i, <1>j
<1>2. ASSUME NEW n \in Nat, n \in K
      PROVE  n + 1 \in K
  <2>1. SUFFICES ASSUME NEW T \in SUBSET R, Cardinality(T) = n + 1
                 PROVE  i[T] = j[T]
    OBVIOUS
  <2>2. T # {} /\ Pick(T) \in T
    BY <1>0, <2>1, PickIn
  <2> DEFINE Q == T \ {Pick(T)}
  <2>3. Q \in SUBSET R /\ Cardinality(Q) = n
    <3>1. Cardinality(T) = Cardinality(Q) + 1 /\ Cardinality(Q) \in Nat
      BY <1>0, <2>2, OneLess
    <3> QED
      BY <2>1, <3>1
  <2>4. i[Q] = j[Q]
    BY <1>2, <2>3
  <2> QED
    BY <1>0, <1>i, <1>j, <2>2, <2>4
<1> HIDE DEF K
<1>3. Nat \subseteq K
  BY <1>1, <1>2, Replaying!NatSet
<1> QED
  BY <1>0, <1>3 DEF K
\* The sum's own step.
LEMMA SumStep ==
  ASSUME NEW f, NEW S, IsFiniteSet(S)
  PROVE  /\ S = {} => SumFunctionOnSet(f, S) = 0
         /\ S # {} => SumFunctionOnSet(f, S) = f[Pick(S)] + SumFunctionOnSet(f, S \ {Pick(S)})
<1> DEFINE R == S \ {Pick(S)}
           i == CHOOSE it : SumSolves(it, f, S)
           j == CHOOSE it : SumSolves(it, f, R)
<1>1. IsFiniteSet(R) /\ R \in SUBSET S /\ R \in SUBSET R
  BY FS_Subset
<1>2. SumSolves(i, f, S) /\ SumSolves(j, f, R)
  BY <1>1, SumSolvable
<1>3. SumFunctionOnSet(f, S) = i[S] /\ SumFunctionOnSet(f, R) = j[R]
  BY SumIs
<1> HIDE DEF i, j
<1>4. i[R] = j[R]
  <2> HIDE DEF R
  <2> QED
    BY <1>1, <1>2, SumUnique
<1>5. i[S] = IF S = {} THEN 0 ELSE f[Pick(S)] + i[R]
  BY <1>2 DEF SumSolves
<1> QED
  BY <1>3, <1>4, <1>5

LEMMA SumEmpty ==
  ASSUME NEW f
  PROVE  SumFunctionOnSet(f, {}) = 0
  BY SumStep, FS_EmptySet

\* Every element may be the one taken first.
LEMMA SumTake ==
  ASSUME NEW f, NEW S, IsFiniteSet(S), \A x \in S : f[x] \in Int
  PROVE  \A T \in SUBSET S : /\ SumFunctionOnSet(f, T) \in Int
                             /\ \A x \in T : SumFunctionOnSet(f, T) = f[x] + SumFunctionOnSet(f, T \ {x})
<1> DEFINE Sum(T) == SumFunctionOnSet(f, T)
           Fine(T) == Sum(T) \in Int /\ \A x \in T : Sum(T) = f[x] + Sum(T \ {x})
           K == {n \in Nat : \A T \in SUBSET S : Cardinality(T) <= n => Fine(T)}
<1>0. \A T \in SUBSET S : IsFiniteSet(T) /\ Cardinality(T) \in Nat /\ (Cardinality(T) = 0 <=> T = {})
  BY FS_Subset, FS_CardinalityType, FS_EmptySet
<1>s. \A T \in SUBSET S : T # {} => Sum(T) = f[Pick(T)] + Sum(T \ {Pick(T)})
  BY <1>0, SumStep
<1>e. Sum({}) = 0
  BY SumEmpty
<1> HIDE DEF Sum
<1>r. ASSUME NEW T \in SUBSET S, NEW x \in T
      PROVE  /\ T \ {x} \in SUBSET S /\ Cardinality(T \ {x}) \in Nat
             /\ Cardinality(T) = Cardinality(T \ {x}) + 1
  BY <1>0, OneLess
<1>1. 0 \in K
  <2>1. \A T \in SUBSET S : Cardinality(T) <= 0 => T = {}
    BY <1>0
  <2>2. Fine({})
    BY <1>e
  <2> HIDE DEF Fine
  <2> QED
    BY <2>1, <2>2
<1>2. ASSUME NEW n \in Nat, n \in K
      PROVE  n + 1 \in K
  <2>e. Fine({})
    BY <1>e
  <2>1. SUFFICES ASSUME NEW T \in SUBSET S, Cardinality(T) <= n + 1
                 PROVE  Fine(T)
    OBVIOUS
  <2>n. SUFFICES ASSUME T # {}
                 PROVE  Fine(T)
    BY <2>e
  <2> DEFINE c == Pick(T)
  <2>2. c \in T /\ Sum(T) = f[c] + Sum(T \ {c})
    BY <1>0, <1>s, <2>n, PickIn
  <2> HIDE DEF c
  <2>3. \A x \in T : T \ {x} \in SUBSET S /\ Fine(T \ {x}) /\ f[x] \in Int
    <3>1. SUFFICES ASSUME NEW x \in T PROVE T \ {x} \in SUBSET S /\ Fine(T \ {x}) /\ f[x] \in Int
      OBVIOUS
    <3>2. T \ {x} \in SUBSET S /\ Cardinality(T \ {x}) <= n
      BY <1>r, <2>1
    <3> HIDE DEF Fine
    <3> QED
      BY <1>2, <3>2
  <2>4. Sum(T) \in Int
    BY <2>2, <2>3
  <2>5. ASSUME NEW x \in T
        PROVE  Sum(T) = f[x] + Sum(T \ {x})
    <3>1. CASE x = c
      BY <2>2, <3>1
    <3>2. CASE x # c
      <4> DEFINE Q == T \ {c, x}
      <4>1. (T \ {c}) \ {x} = Q /\ (T \ {x}) \ {c} = Q /\ x \in T \ {c} /\ c \in T \ {x}
        BY <2>2, <3>2
      <4>2. Sum(T \ {c}) = f[x] + Sum(Q) /\ Sum(T \ {x}) = f[c] + Sum(Q)
        BY <2>2, <2>3, <4>1
      <4>3. Q \in SUBSET S /\ Cardinality(Q) <= n
        <5>1. T \ {c} \in SUBSET S /\ x \in T \ {c}
          BY <4>1
        <5>2. Cardinality(T \ {c}) = Cardinality(Q) + 1 /\ Cardinality(Q) \in Nat
          BY <1>r, <4>1, <5>1
        <5>3. Cardinality(T) = Cardinality(T \ {c}) + 1 /\ Cardinality(T \ {c}) \in Nat
          BY <1>r, <2>2
        <5> HIDE DEF Q
        <5>4. Cardinality(Q) <= n
          BY <2>1, <5>2, <5>3
        <5> QED
          BY <5>4 DEF Q
      <4>4. Sum(Q) \in Int
        BY <1>2, <4>3
      <4> HIDE DEF Q
      <4> QED
        BY <2>2, <2>3, <4>2, <4>4
    <3> QED
      BY <3>1, <3>2
  <2> QED
    BY <2>4, <2>5
<1> HIDE DEF K
<1>3. Nat \subseteq K
  BY <1>1, <1>2, Replaying!NatSet
<1> QED
  BY <1>0, <1>3 DEF K, Sum
LEMMA SumAdd ==
  ASSUME NEW f, NEW S, IsFiniteSet(S), NEW x, x \notin S, f[x] \in Int, \A y \in S : f[y] \in Int
  PROVE  SumFunctionOnSet(f, S \cup {x}) = f[x] + SumFunctionOnSet(f, S)
<1> DEFINE T == S \cup {x}
<1>1. IsFiniteSet(T) /\ \A y \in T : f[y] \in Int
  BY FS_AddElement
<1>2. T \in SUBSET T /\ x \in T /\ T \ {x} = S
  OBVIOUS
<1> HIDE DEF T
<1>3. SumFunctionOnSet(f, T) = f[x] + SumFunctionOnSet(f, T \ {x})
  BY <1>1, <1>2, SumTake
<1> QED
  BY <1>2, <1>3 DEF T

LEMMA SumInt ==
  ASSUME NEW f, NEW S, IsFiniteSet(S), \A y \in S : f[y] \in Int
  PROVE  SumFunctionOnSet(f, S) \in Int
  BY SumTake

\* What is equal on a set has equal sums.
LEMMA SumSame ==
  ASSUME NEW f, NEW g, NEW S, IsFiniteSet(S), \A y \in S : f[y] \in Int /\ g[y] = f[y]
  PROVE  SumFunctionOnSet(g, S) = SumFunctionOnSet(f, S)
<1> DEFINE K == {T \in SUBSET S : SumFunctionOnSet(g, T) = SumFunctionOnSet(f, T)}
<1>1. {} \in K
  BY SumEmpty
<1>2. ASSUME NEW T \in SUBSET S, NEW x \in S, T \in K, x \notin T
      PROVE  T \cup {x} \in K
  <2>1. IsFiniteSet(T) /\ g[x] = f[x] /\ f[x] \in Int /\ \A y \in T : f[y] \in Int /\ g[y] \in Int
    BY FS_Subset
  <2>2. /\ SumFunctionOnSet(f, T \cup {x}) = f[x] + SumFunctionOnSet(f, T)
        /\ SumFunctionOnSet(g, T \cup {x}) = g[x] + SumFunctionOnSet(g, T)
    BY <1>2, <2>1, SumAdd
  <2> QED
    BY <1>2, <2>1, <2>2
<1> HIDE DEF K
<1>3. SUBSET S \subseteq K
  BY <1>1, <1>2, FiniteSet
<1> QED
  BY <1>3 DEF K

\* One element more or less.
LEMMA SumMove ==
  ASSUME NEW f, NEW g, NEW S, IsFiniteSet(S), \A y \in S : f[y] \in Int,
         NEW x \in S, NEW d \in Int, g[x] = f[x] + d, \A y \in S \ {x} : g[y] = f[y]
  PROVE  SumFunctionOnSet(g, S) = SumFunctionOnSet(f, S) + d
<1> DEFINE R == S \ {x}
<1>1. IsFiniteSet(R) /\ S \in SUBSET S /\ R \subseteq S /\ \A y \in S : g[y] \in Int
  BY FS_Subset
<1>2. /\ SumFunctionOnSet(f, S) = f[x] + SumFunctionOnSet(f, R)
      /\ SumFunctionOnSet(g, S) = g[x] + SumFunctionOnSet(g, R)
  BY <1>1, SumTake
<1> HIDE DEF R
<1>3. \A y \in R : f[y] \in Int /\ g[y] = f[y]
  BY <1>1 DEF R
<1>4. SumFunctionOnSet(g, R) = SumFunctionOnSet(f, R) /\ SumFunctionOnSet(f, R) \in Int
  BY <1>1, <1>3, SumSame, SumInt
<1> QED
  BY <1>2, <1>4

\* A sum over a set and zeros beside it.
LEMMA SumZeros ==
  ASSUME NEW g, NEW D, IsFiniteSet(D), NEW S \in SUBSET D,
         \A y \in S : g[y] \in Int, \A y \in D \ S : g[y] = 0
  PROVE  SumFunctionOnSet(g, D) = SumFunctionOnSet(g, S)
<1> DEFINE R == D \ S
           K == {T \in SUBSET R : SumFunctionOnSet(g, S \cup T) = SumFunctionOnSet(g, S)}
<1>1. S \cup {} = S /\ {} \in K
  OBVIOUS
<1>2. ASSUME NEW T \in SUBSET R, NEW x \in R, T \in K, x \notin T
      PROVE  T \cup {x} \in K
  <2>1. /\ IsFiniteSet(S \cup T) /\ x \notin S \cup T /\ g[x] = 0 /\ \A y \in S \cup T : g[y] \in Int
        /\ (S \cup T) \cup {x} = S \cup (T \cup {x})
    BY <1>2, FS_Subset
  <2>2. SumFunctionOnSet(g, (S \cup T) \cup {x}) = g[x] + SumFunctionOnSet(g, S \cup T)
    BY <2>1, SumAdd
  <2>3. SumFunctionOnSet(g, S \cup T) \in Int
    BY <2>1, SumInt
  <2>4. SumFunctionOnSet(g, (S \cup T) \cup {x}) = SumFunctionOnSet(g, S \cup T)
    BY <2>1, <2>2, <2>3
  <2>5. SumFunctionOnSet(g, S \cup (T \cup {x})) = SumFunctionOnSet(g, S)
    BY <1>2, <2>1, <2>4
  <2> QED
    BY <2>5
<1>3. IsFiniteSet(R) /\ R \in SUBSET R /\ S \cup R = D
  BY FS_Subset
<1> HIDE DEF K, R
<1>4. R \in K
  BY <1>1, <1>2, <1>3, FiniteSet
<1> QED
  BY <1>3, <1>4 DEF K

\* A balance is set.
LEMMA SumPut ==
  ASSUME NEW m, m = [a \in DOMAIN m |-> m[a]], IsFiniteSet(DOMAIN m), \A a \in DOMAIN m : m[a] \in Int,
         NEW k, NEW v \in Int
  PROVE  SumFunction(Put(m, k, v)) = SumFunction(m) + (v - Num(m, k))
<1> DEFINE D == DOMAIN m
           p == Put(m, k, v)
<1>1. DOMAIN p = D \cup {k} /\ p[k] = v /\ \A a \in D \ {k} : p[a] = m[a]
  BY DEF Put
<1> HIDE DEF p
<1>2. SumFunction(m) = SumFunctionOnSet(m, D) /\ SumFunction(p) = SumFunctionOnSet(p, D \cup {k})
  BY <1>1 DEF SumFunction
<1>3. CASE k \in D
  <2>1. Num(m, k) = m[k] /\ m[k] \in Int /\ D \cup {k} = D
    BY <1>3 DEF Num
  <2> DEFINE d == v - m[k]
  <2>2. d \in Int /\ p[k] = m[k] + d
    BY <1>1, <2>1
  <2> HIDE DEF d, D
  <2>3. SumFunctionOnSet(p, D) = SumFunctionOnSet(m, D) + d
    BY <1>1, <1>3, <2>2, SumMove DEF D
  <2> QED
    BY <1>2, <2>1, <2>3 DEF d, p
<1>4. CASE k \notin D
  <2>1. Num(m, k) = 0 /\ \A a \in D : p[a] = m[a] /\ m[a] \in Int
    BY <1>1, <1>4 DEF Num
  <2>2. SumFunctionOnSet(p, D \cup {k}) = v + SumFunctionOnSet(p, D)
    BY <1>1, <1>4, <2>1, SumAdd
  <2>3. SumFunctionOnSet(p, D) = SumFunctionOnSet(m, D) /\ SumFunctionOnSet(m, D) \in Int
    BY <2>1, SumSame, SumInt
  <2> QED
    BY <1>2, <2>1, <2>2, <2>3 DEF p
<1> QED
  BY <1>3, <1>4

-----------------------------------------------------------------------------
(* The ledger's books. *)

Reward == [to : Account, amount : Nat, unlock : Int]

LEMMA AmountsOn ==
  ASSUME NEW P, IsFiniteSet(P), P \subseteq Reward, NEW R \in SUBSET P
  PROVE  Amounts(R) = SumFunctionOnSet([p \in P |-> p.amount], R)
<1> DEFINE f == [p \in P |-> p.amount]
           g == [p \in R |-> p.amount]
<1>1. IsFiniteSet(R) /\ DOMAIN g = R /\ \A p \in R : f[p] \in Int /\ g[p] = f[p]
  BY FS_Subset DEF Reward
<1>2. Amounts(R) = SumFunctionOnSet(g, R)
  BY DEF Amounts, Total, SumFunction
<1> HIDE DEF f, g
<1>3. SumFunctionOnSet(g, R) = SumFunctionOnSet(f, R)
  BY <1>1, SumSame
<1> QED
  BY <1>2, <1>3 DEF f

LEMMA AmountsNat ==
  ASSUME NEW P, IsFiniteSet(P), P \subseteq Reward
  PROVE  Amounts(P) \in Int
<1>1. \A p \in P : [q \in P |-> q.amount][p] \in Int
  BY DEF Reward
<1>2. SumFunctionOnSet([p \in P |-> p.amount], P) \in Int
  BY <1>1, SumInt
<1> QED
  BY <1>2, AmountsOn

LEMMA AmountsEmpty == Amounts({}) = 0
<1>1. {} \in SUBSET {} /\ {} \subseteq Reward
  OBVIOUS
<1> QED
  BY <1>1, AmountsOn, FS_EmptySet, SumEmpty

LEMMA AmountsAdd ==
  ASSUME NEW P, IsFiniteSet(P), P \subseteq Reward, NEW q \in Reward, q \notin P
  PROVE  Amounts(P \cup {q}) = Amounts(P) + q.amount
<1> DEFINE T == P \cup {q}
           f == [p \in T |-> p.amount]
<1>1. /\ IsFiniteSet(T) /\ T \subseteq Reward /\ T \in SUBSET T /\ P \in SUBSET T
      /\ f[q] = q.amount /\ f[q] \in Int /\ \A p \in P : f[p] \in Int
  BY FS_AddElement DEF Reward
<1>2. Amounts(T) = SumFunctionOnSet(f, T) /\ Amounts(P) = SumFunctionOnSet(f, P)
  BY <1>1, AmountsOn
<1> HIDE DEF f
<1>3. SumFunctionOnSet(f, T) = f[q] + SumFunctionOnSet(f, P) /\ SumFunctionOnSet(f, P) \in Int
  BY <1>1, SumAdd, SumInt
<1> QED
  BY <1>1, <1>2, <1>3

LEMMA AmountsPositive ==
  ASSUME NEW P, IsFiniteSet(P), P \subseteq Reward
  PROVE  \A R \in SUBSET P : Amounts(R) \in Nat
<1> DEFINE K == {R \in SUBSET P : Amounts(R) \in Nat}
<1>1. {} \in K
  BY AmountsEmpty
<1>2. ASSUME NEW R \in SUBSET P, NEW x \in P, R \in K, x \notin R
      PROVE  R \cup {x} \in K
  <2>1. IsFiniteSet(R) /\ R \subseteq Reward /\ x \in Reward /\ x.amount \in Nat
    BY FS_Subset DEF Reward
  <2>2. Amounts(R \cup {x}) = Amounts(R) + x.amount
    BY <1>2, <2>1, AmountsAdd
  <2> QED
    BY <1>2, <2>1, <2>2
<1> HIDE DEF K
<1>3. SUBSET P \subseteq K
  BY <1>1, <1>2, FiniteSet
<1> QED
  BY <1>3 DEF K

LEMMA AmountsPart ==
  ASSUME NEW P, IsFiniteSet(P), P \subseteq Reward, NEW R \in SUBSET P
  PROVE  Amounts(P) = Amounts(R) + Amounts(P \ R)
<1> DEFINE Q == P \ R
           K == {T \in SUBSET R : Amounts(T \cup Q) = Amounts(T) + Amounts(Q)}
<1>0. /\ IsFiniteSet(R) /\ IsFiniteSet(Q) /\ Q \subseteq Reward /\ R \subseteq Reward /\ R \cup Q = P
      /\ R \in SUBSET R
  BY FS_Subset
<1>1. {} \in K
  <2>1. {} \cup Q = Q /\ Amounts(Q) \in Int
    BY <1>0, AmountsNat
  <2> QED
    BY <2>1, AmountsEmpty
<1>2. ASSUME NEW T \in SUBSET R, NEW x \in R, T \in K, x \notin T
      PROVE  T \cup {x} \in K
  <2>1. /\ IsFiniteSet(T \cup Q) /\ T \cup Q \subseteq Reward /\ x \notin T \cup Q /\ x \in Reward
        /\ IsFiniteSet(T) /\ T \subseteq Reward /\ (T \cup Q) \cup {x} = (T \cup {x}) \cup Q
    BY <1>0, <1>2, FS_Subset
  <2>2. /\ Amounts((T \cup Q) \cup {x}) = Amounts(T \cup Q) + x.amount
        /\ Amounts(T \cup {x}) = Amounts(T) + x.amount
    BY <1>2, <2>1, AmountsAdd
  <2>3. Amounts(T) \in Int /\ Amounts(Q) \in Int /\ x.amount \in Int
    BY <1>0, <2>1, AmountsNat DEF Reward
  <2>4. Amounts((T \cup {x}) \cup Q) = Amounts(T \cup Q) + x.amount
    BY <2>1, <2>2
  <2>5. Amounts((T \cup {x}) \cup Q) = Amounts(T \cup {x}) + Amounts(Q)
    BY <1>2, <2>2, <2>3, <2>4
  <2> QED
    BY <2>5
<1> HIDE DEF K, Q
<1>3. R \in K
  BY <1>0, <1>1, <1>2, FiniteSet
<1> QED
  BY <1>0, <1>3 DEF K, Q

\* What ripens goes to its owners and nowhere else.
LEMMA RipeSum ==
  ASSUME NEW m, m = [a \in DOMAIN m |-> m[a]], IsFiniteSet(DOMAIN m), \A a \in DOMAIN m : m[a] \in Int,
         NEW R, IsFiniteSet(R), R \subseteq Reward
  PROVE  LET paid == [a \in DOMAIN m \cup {p.to : p \in R} |->
                        Num(m, a) + Amounts({p \in R : p.to = a})]
         IN SumFunction(paid) = SumFunction(m) + Amounts(R)
<1> DEFINE D == DOMAIN m \cup {p.to : p \in R}
           Owed(T, a) == Amounts({p \in T : p.to = a})
           G(T) == [a \in D |-> Num(m, a) + Owed(T, a)]
           K == {T \in SUBSET R : SumFunctionOnSet(G(T), D) = SumFunctionOnSet(m, DOMAIN m) + Amounts(T)}
<1>0. IsFiniteSet(D)
  <2>1. IsFiniteSet({p.to : p \in R})
    <3> DEFINE T == {p.to : p \in R}
               f == [p \in R |-> p.to]
    <3>1. f \in Surjection(R, T)
      BY DEF Surjection
    <3> QED
      BY <3>1, FS_Surjection
  <2> QED
    BY <2>1, FS_Union
<1>n. \A a : Num(m, a) \in Int
  BY DEF Num
<1>o. ASSUME NEW T \in SUBSET R, NEW a
      PROVE  Owed(T, a) \in Int
  <2>1. IsFiniteSet({p \in T : p.to = a}) /\ {p \in T : p.to = a} \subseteq Reward
    BY FS_Subset
  <2> QED
    BY <2>1, AmountsNat
<1>1. {} \in K
  <2> DEFINE g == G({})
  <2>1. \A a : Owed({}, a) = 0
    <3>1. \A a : {p \in {} : p.to = a} = {}
      OBVIOUS
    <3> QED
      BY <3>1, AmountsEmpty
  <2>2. \A a \in D : g[a] = Num(m, a)
    <3> HIDE DEF Owed
    <3> QED
      BY <1>n, <2>1
  <2>3. /\ \A a \in DOMAIN m : g[a] = m[a] /\ g[a] \in Int
        /\ \A a \in D \ DOMAIN m : g[a] = 0
    BY <2>2 DEF Num
  <2>4. DOMAIN m \in SUBSET D
    OBVIOUS
  <2> HIDE DEF g, D
  <2>5. SumFunctionOnSet(g, D) = SumFunctionOnSet(g, DOMAIN m)
    BY <1>0, <2>3, <2>4, SumZeros
  <2>6. /\ SumFunctionOnSet(g, DOMAIN m) = SumFunctionOnSet(m, DOMAIN m)
        /\ SumFunctionOnSet(m, DOMAIN m) \in Int
    BY <2>3, SumSame, SumInt
  <2>7. SumFunctionOnSet(g, D) = SumFunctionOnSet(m, DOMAIN m) + Amounts({})
    BY <2>5, <2>6, AmountsEmpty
  <2> QED
    BY <2>7 DEF g
<1>2. ASSUME NEW T \in SUBSET R, NEW x \in R, T \in K, x \notin T
      PROVE  T \cup {x} \in K
  <2> DEFINE f == G(T)
             g == G(T \cup {x})
  <2>1. x.to \in D /\ x.amount \in Int /\ x \in Reward /\ T \cup {x} \in SUBSET R
    BY DEF Reward
  <2>2. Owed(T \cup {x}, x.to) = Owed(T, x.to) + x.amount
    <3> DEFINE S == {p \in T : p.to = x.to}
    <3>1. {p \in T \cup {x} : p.to = x.to} = S \cup {x} /\ x \notin S /\ S \subseteq Reward
      BY <1>2
    <3>2. IsFiniteSet(S)
      BY FS_Subset
    <3> HIDE DEF S
    <3>3. Amounts(S \cup {x}) = Amounts(S) + x.amount
      BY <2>1, <3>1, <3>2, AmountsAdd
    <3> QED
      BY <3>1, <3>3 DEF S
  <2>3. ASSUME NEW a, a # x.to
        PROVE  Owed(T \cup {x}, a) = Owed(T, a)
    <3>1. {p \in T \cup {x} : p.to = a} = {p \in T : p.to = a}
      BY <2>3
    <3> QED
      BY <3>1
  <2> HIDE DEF Owed
  <2>4. /\ \A a \in D : f[a] \in Int
        /\ g[x.to] = f[x.to] + x.amount
        /\ \A a \in D \ {x.to} : g[a] = f[a]
    <3>1. \A a \in D : f[a] = Num(m, a) + Owed(T, a) /\ g[a] = Num(m, a) + Owed(T \cup {x}, a)
      OBVIOUS
    <3>2. \A a \in D : Owed(T, a) \in Int /\ Num(m, a) \in Int
      BY <1>n, <1>o
    <3> HIDE DEF f, g, D
    <3>3. \A a \in D : f[a] \in Int
      BY <3>1, <3>2
    <3>4. \A a \in D \ {x.to} : g[a] = f[a]
      BY <2>3, <3>1
    <3>5. g[x.to] = f[x.to] + x.amount
      <4> DEFINE n == Num(m, x.to)
                 o == Owed(T, x.to)
      <4>1. n \in Int /\ o \in Int /\ x.amount \in Int
        BY <2>1, <3>2
      <4>2. f[x.to] = n + o /\ g[x.to] = n + Owed(T \cup {x}, x.to)
        BY <2>1, <3>1
      <4>3. Owed(T \cup {x}, x.to) = o + x.amount
        BY <2>2
      <4> HIDE DEF n, o
      <4> QED
        BY <4>1, <4>2, <4>3
    <3> QED
      BY <3>3, <3>4, <3>5
  <2> HIDE DEF f, g, D
  <2>5. SumFunctionOnSet(g, D) = SumFunctionOnSet(f, D) + x.amount
    BY <1>0, <2>1, <2>4, SumMove
  <2>6. SumFunctionOnSet(f, D) = SumFunctionOnSet(m, DOMAIN m) + Amounts(T)
    BY <1>2 DEF f, D
  <2>7. Amounts(T \cup {x}) = Amounts(T) + x.amount
    <3>1. IsFiniteSet(T) /\ T \subseteq Reward
      BY FS_Subset
    <3> QED
      BY <1>2, <2>1, <3>1, AmountsAdd
  <2>8. SumFunctionOnSet(m, DOMAIN m) \in Int /\ Amounts(T) \in Int
    <3>1. IsFiniteSet(T) /\ T \subseteq Reward
      BY FS_Subset
    <3> QED
      BY <3>1, SumInt, AmountsNat
  <2>9. SumFunctionOnSet(g, D) = SumFunctionOnSet(m, DOMAIN m) + Amounts(T \cup {x})
    BY <2>1, <2>5, <2>6, <2>7, <2>8
  <2> QED
    BY <2>1, <2>9 DEF g, D
<1>3. R \in SUBSET R
  OBVIOUS
<1>4. R \in K
  <2> HIDE DEF K
  <2> QED
    BY <1>1, <1>2, <1>3, FiniteSet
<1>5. SumFunction(m) = SumFunctionOnSet(m, DOMAIN m) /\ SumFunction(G(R)) = SumFunctionOnSet(G(R), D)
  BY DEF SumFunction
<1> QED
  BY <1>4, <1>5

\* A ledger whose balances and immature rewards are what was minted and the excess,
\* with no reward that unlocks later than those of block n.
Booked(st, n, excess) ==
  /\ st = [bal |-> st.bal, nonce |-> st.nonce, pend |-> st.pend, minted |-> st.minted]
  /\ st.bal = [a \in DOMAIN st.bal |-> st.bal[a]] /\ IsFiniteSet(DOMAIN st.bal)
  /\ \A a \in DOMAIN st.bal : st.bal[a] \in Nat
  /\ IsFiniteSet(st.pend) /\ st.pend \subseteq Reward
  /\ \A p \in st.pend : p.unlock <= n + Maturity
  /\ st.minted \in Nat /\ st.minted <= MaxSupply
  /\ Balances(st) + Immature(st) = st.minted + excess

LEMMA Numbers == MaxSupply \in Nat /\ Maturity \in Nat /\ MinFee \in Nat
  BY LedgerAssumption

LEMMA BookedInts ==
  ASSUME NEW st, NEW n, NEW excess, Booked(st, n, excess)
  PROVE  Balances(st) \in Int /\ Immature(st) \in Int /\ \A a : Num(st.bal, a) \in Nat
<1>1. \A a \in DOMAIN st.bal : st.bal[a] \in Int
  BY DEF Booked
<1>2. Balances(st) \in Int
  BY <1>1, SumInt DEF Booked, Balances, SumFunction
<1>3. Immature(st) \in Int
  BY AmountsNat DEF Booked, Immature
<1> QED
  BY <1>2, <1>3 DEF Booked, Num

LEMMA NumPut ==
  ASSUME NEW m, NEW k, NEW v
  PROVE  \A a : Num(Put(m, k, v), a) = IF a = k THEN v ELSE Num(m, a)
  BY DEF Num, Put

\* A reward that ripens is no longer pending and in its owner's balance.
LEMMA UnlockBooked ==
  ASSUME NEW st, NEW n \in Int, NEW excess, Booked(st, n, excess), NEW height
  PROVE  /\ Booked(UnlockMatured(st, height), n, excess)
         /\ UnlockMatured(st, height).nonce = st.nonce
         /\ UnlockMatured(st, height).minted = st.minted
<1> DEFINE ripe == {p \in st.pend : p.unlock <= height}
           paid == [a \in DOMAIN st.bal \cup {p.to : p \in ripe} |->
                      Num(st.bal, a) + Amounts({p \in ripe : p.to = a})]
           next == UnlockMatured(st, height)
<1>1. next = [st EXCEPT !.bal = paid, !.pend = st.pend \ ripe]
  BY DEF UnlockMatured
<1>2. next = [bal |-> paid, nonce |-> st.nonce, pend |-> st.pend \ ripe, minted |-> st.minted]
  BY <1>1 DEF Booked
<1>3. IsFiniteSet(ripe) /\ ripe \subseteq Reward /\ ripe \in SUBSET st.pend
  BY FS_Subset DEF Booked
<1>4. SumFunction(paid) = SumFunction(st.bal) + Amounts(ripe)
  <2>1. \A a \in DOMAIN st.bal : st.bal[a] \in Int
    BY DEF Booked
  <2> HIDE DEF ripe
  <2> QED
    BY <1>3, <2>1, RipeSum DEF Booked
<1>5. Amounts(st.pend) = Amounts(ripe) + Amounts(st.pend \ ripe)
  <2> HIDE DEF ripe
  <2> QED
    BY <1>3, AmountsPart DEF Booked
<1>6. Amounts(ripe) \in Int /\ Amounts(st.pend \ ripe) \in Int
  <2>1. IsFiniteSet(st.pend \ ripe) /\ st.pend \ ripe \subseteq Reward
    BY FS_Subset DEF Booked
  <2> HIDE DEF ripe
  <2> QED
    BY <1>3, <2>1, AmountsNat
<1>7. /\ DOMAIN paid = DOMAIN st.bal \cup {p.to : p \in ripe} /\ IsFiniteSet(DOMAIN paid)
      /\ paid = [a \in DOMAIN paid |-> paid[a]]
  <2> DEFINE T == {p.to : p \in ripe}
             f == [p \in ripe |-> p.to]
  <2>1. f \in Surjection(ripe, T)
    BY DEF Surjection
  <2>2. IsFiniteSet(T)
    BY <1>3, <2>1, FS_Surjection
  <2> QED
    BY <2>2, FS_Union DEF Booked
<1>8. ASSUME NEW a \in DOMAIN paid
      PROVE  paid[a] \in Nat
  <2>1. {p \in ripe : p.to = a} \in SUBSET st.pend
    OBVIOUS
  <2>2. Amounts({p \in ripe : p.to = a}) \in Nat
    BY <2>1, AmountsPositive DEF Booked
  <2>3. Num(st.bal, a) \in Nat
    BY BookedInts
  <2> QED
    BY <2>2, <2>3
<1>9. Balances(next) + Immature(next) = st.minted + excess
  <2>1. Balances(next) = SumFunction(paid) /\ Immature(next) = Amounts(st.pend \ ripe)
    BY <1>2 DEF Balances, Immature
  <2>2. Balances(st) = SumFunction(st.bal) /\ Immature(st) = Amounts(st.pend)
    BY DEF Balances, Immature
  <2>3. Balances(st) + Immature(st) = st.minted + excess /\ Balances(st) \in Int
    BY BookedInts DEF Booked
  <2> HIDE DEF next, paid, ripe
  <2> QED
    BY <1>4, <1>5, <1>6, <2>1, <2>2, <2>3
<1>10. IsFiniteSet(st.pend \ ripe) /\ st.pend \ ripe \subseteq Reward
       /\ \A p \in st.pend \ ripe : p.unlock <= n + Maturity
  BY FS_Subset DEF Booked
<1> HIDE DEF next, paid, ripe
<1>11. next.bal = paid /\ next.nonce = st.nonce /\ next.pend = st.pend \ ripe /\ next.minted = st.minted
  BY <1>2
<1> QED
  BY <1>2, <1>7, <1>8, <1>9, <1>10, <1>11 DEF Booked, next

\* The coinbase of block n is a new reward: what it pays is the subsidy, minted, and the fees.
LEMMA CoinbaseBooked ==
  ASSUME NEW st, NEW n \in Nat, Booked(st, n - 1, 0), NEW b, b.miner \in Account,
         BlockReward(n) \in Nat, Fees(b) \in Nat, CoinbaseOk(st, b, n)
  PROVE  /\ Booked(PayCoinbase(st, b, n), n, Fees(b))
         /\ PayCoinbase(st, b, n).nonce = st.nonce
<1> DEFINE q == RewardOf(b, n)
           r == BlockReward(n)
           f == Fees(b)
           next == PayCoinbase(st, b, n)
<1>1. b.reward = r + f /\ r \in Nat /\ f \in Nat
  BY DEF CoinbaseOk
<1>2. q \in Reward /\ q.amount = r + f /\ q.unlock = n + Maturity
  BY <1>1, Numbers DEF RewardOf, Reward
<1>3. \A p \in st.pend : p.unlock <= (n - 1) + Maturity /\ p.unlock \in Int
  BY DEF Booked, Reward
<1>4. q \notin st.pend /\ \A p \in st.pend \cup {q} : p.unlock <= n + Maturity
  BY <1>2, <1>3, Numbers
<1>5. next = [bal |-> st.bal, nonce |-> st.nonce, pend |-> st.pend \cup {q}, minted |-> st.minted + r]
  <2>1. st = [bal |-> st.bal, nonce |-> st.nonce, pend |-> st.pend, minted |-> st.minted]
    BY DEF Booked
  <2>2. next = [st EXCEPT !.pend = st.pend \cup {q}, !.minted = st.minted + r]
    BY DEF PayCoinbase
  <2> HIDE DEF q, r, next
  <2> QED
    BY <2>1, <2>2
<1>6. next.bal = st.bal /\ next.nonce = st.nonce /\ next.pend = st.pend \cup {q} /\ next.minted = st.minted + r
  BY <1>5
<1>7. st.minted + r \in Nat /\ st.minted + r <= MaxSupply /\ st.minted \in Nat
  <2>1. r > 0 => st.minted + r <= MaxSupply
    BY DEF CoinbaseOk
  <2>2. st.minted \in Nat /\ st.minted <= MaxSupply
    BY DEF Booked
  <2> HIDE DEF r
  <2> QED
    BY <1>1, <2>1, <2>2
<1> HIDE DEF q
<1>8. IsFiniteSet(st.pend \cup {q}) /\ st.pend \cup {q} \subseteq Reward
  BY <1>2, FS_AddElement DEF Booked
<1>9. Amounts(st.pend \cup {q}) = Amounts(st.pend) + (r + f)
  <2>1. Amounts(st.pend \cup {q}) = Amounts(st.pend) + q.amount
    BY <1>2, <1>4, AmountsAdd DEF Booked
  <2> QED
    BY <1>2, <2>1
<1>10. Balances(next) + Immature(next) = (st.minted + r) + f
  <2>1. Balances(next) = Balances(st) /\ Immature(next) = Amounts(st.pend \cup {q})
        /\ Immature(st) = Amounts(st.pend)
    BY <1>6 DEF Balances, Immature
  <2>2. Balances(st) \in Int /\ Immature(st) \in Int /\ Balances(st) + Immature(st) = st.minted + 0
    BY BookedInts DEF Booked
  <2> DEFINE v == Balances(st)
             i == Immature(st)
             m == st.minted
             i1 == Immature(next)
  <2>3. v \in Int /\ i \in Int /\ v + i = m + 0 /\ i1 = i + (r + f)
    BY <1>9, <2>1, <2>2
  <2>4. m \in Nat /\ r \in Nat /\ f \in Nat
    BY <1>1, <1>7
  <2>5. Balances(next) = v
    BY <2>1
  <2> HIDE DEF r, f, next, v, i, m, i1
  <2>6. v + i1 = (m + r) + f
    BY <2>3, <2>4
  <2> QED
    BY <2>5, <2>6 DEF m, i1
<1> HIDE DEF next, r, f
<1> QED
  BY <1>4, <1>5, <1>6, <1>7, <1>8, <1>10 DEF Booked, next, r, f

LEMMA PutNats ==
  ASSUME NEW m, IsFiniteSet(DOMAIN m), \A a \in DOMAIN m : m[a] \in Nat, NEW k, NEW v \in Nat
  PROVE  /\ DOMAIN Put(m, k, v) = DOMAIN m \cup {k} /\ IsFiniteSet(DOMAIN Put(m, k, v))
         /\ Put(m, k, v) = [a \in DOMAIN Put(m, k, v) |-> Put(m, k, v)[a]]
         /\ \A a \in DOMAIN Put(m, k, v) : Put(m, k, v)[a] \in Nat
<1> DEFINE p == Put(m, k, v)
           D == DOMAIN m \cup {k}
<1>1. p = [a \in D |-> IF a = k THEN v ELSE m[a]]
  BY DEF Put
<1>2. IsFiniteSet(D)
  BY FS_AddElement
<1>3. \A a \in D : (IF a = k THEN v ELSE m[a]) \in Nat
  OBVIOUS
<1>4. D = DOMAIN m \cup {k}
  OBVIOUS
<1> HIDE DEF p, D
<1>5. DOMAIN p = D /\ p = [a \in DOMAIN p |-> p[a]]
  BY <1>1
<1>6. \A a \in DOMAIN p : p[a] \in Nat
  BY <1>1, <1>3, <1>5
<1> QED
  BY <1>2, <1>4, <1>5, <1>6 DEF p

\* A transfer moves its amount and leaves its fee to nobody.
LEMMA TransferBooked ==
  ASSUME NEW st, NEW n, NEW excess \in Int, Booked(st, n, excess),
         NEW t \in TransferType, TransferOk(st, t)
  PROVE  /\ Booked(Transfer(st, t), n, excess - t.fee)
         /\ Transfer(st, t).nonce = Put(st.nonce, t.from, t.nonce)
<1> DEFINE cost == Cost(t)
           v == Num(st.bal, t.from) - cost
           paid == Put(st.bal, t.from, v)
           w == Num(paid, t.to) + t.amount
           end == Put(paid, t.to, w)
           next == Transfer(st, t)
<1>1. cost = t.amount + t.fee /\ t.amount \in Nat /\ t.fee \in Nat /\ cost \in Nat
  BY DEF Cost, TransferType
<1>2. v \in Nat
  <2>1. Num(st.bal, t.from) \in Nat /\ Num(st.bal, t.from) >= cost
    BY BookedInts DEF TransferOk
  <2> HIDE DEF cost
  <2> QED
    BY <1>1, <2>1
<1>3. /\ DOMAIN paid = DOMAIN st.bal \cup {t.from} /\ IsFiniteSet(DOMAIN paid)
      /\ paid = [a \in DOMAIN paid |-> paid[a]] /\ \A a \in DOMAIN paid : paid[a] \in Nat
  <2>1. IsFiniteSet(DOMAIN st.bal) /\ \A a \in DOMAIN st.bal : st.bal[a] \in Nat
    BY DEF Booked
  <2> HIDE DEF v
  <2> QED
    BY <1>2, <2>1, PutNats
<1>4. SumFunction(paid) = SumFunction(st.bal) + (v - Num(st.bal, t.from))
  <2>1. v \in Int /\ \A a \in DOMAIN st.bal : st.bal[a] \in Int
    BY <1>2 DEF Booked
  <2> HIDE DEF v
  <2> QED
    BY <2>1, SumPut DEF Booked
<1> HIDE DEF paid
<1>5. w \in Nat /\ Num(paid, t.to) \in Nat
  BY <1>1, <1>3 DEF Num
<1> HIDE DEF w
<1>6. /\ DOMAIN end = DOMAIN paid \cup {t.to} /\ IsFiniteSet(DOMAIN end)
      /\ end = [a \in DOMAIN end |-> end[a]] /\ \A a \in DOMAIN end : end[a] \in Nat
  BY <1>3, <1>5, PutNats
<1>7. SumFunction(end) = SumFunction(paid) + (w - Num(paid, t.to))
  <2>1. w \in Int /\ \A a \in DOMAIN paid : paid[a] \in Int
    BY <1>3, <1>5
  <2> QED
    BY <1>3, <2>1, SumPut
<1>8. next = [bal |-> end, nonce |-> Put(st.nonce, t.from, t.nonce), pend |-> st.pend, minted |-> st.minted]
  <2>1. st = [bal |-> st.bal, nonce |-> st.nonce, pend |-> st.pend, minted |-> st.minted]
    BY DEF Booked
  <2>2. next = [st EXCEPT !.bal = end, !.nonce = Put(st.nonce, t.from, t.nonce)]
    BY DEF Transfer, paid, w
  <2> HIDE DEF end, next
  <2> QED
    BY <2>1, <2>2
<1> HIDE DEF end
<1>9. /\ next.bal = end /\ next.nonce = Put(st.nonce, t.from, t.nonce)
      /\ next.pend = st.pend /\ next.minted = st.minted
  BY <1>8
<1>10. Balances(next) + Immature(next) = st.minted + (excess - t.fee)
  <2>1. Balances(next) = SumFunction(end) /\ Immature(next) = Immature(st)
        /\ Balances(st) = SumFunction(st.bal)
    BY <1>9 DEF Balances, Immature
  <2>2. /\ Balances(st) \in Int /\ Immature(st) \in Int /\ st.minted \in Int
        /\ Balances(st) + Immature(st) = st.minted + excess
    <3>1. st.minted \in Int /\ Balances(st) + Immature(st) = st.minted + excess
      BY DEF Booked
    <3> QED
      BY <3>1, BookedInts
  <2> DEFINE k == Num(paid, t.to)
             j == Num(st.bal, t.from)
  <2>3. k \in Int /\ w = k + t.amount
    BY <1>5 DEF w
  <2>4. j \in Int /\ v = j - (t.amount + t.fee)
    BY <1>1, BookedInts
  <2> HIDE DEF next, k, j, v
  <2>5. v \in Int /\ w \in Int
    BY <1>2, <1>5
  <2>6. w - k = t.amount /\ v - j = 0 - (t.amount + t.fee)
    BY <1>1, <2>3, <2>4
  <2>7. SumFunction(end) = (SumFunction(st.bal) + (v - j)) + (w - k)
    BY <1>4, <1>7 DEF k, j
  <2>8. SumFunction(end) = Balances(st) - t.fee
    BY <1>1, <2>1, <2>2, <2>6, <2>7
  <2> DEFINE x == Balances(st)
             y == Immature(st)
             z == st.minted
             fee == t.fee
  <2>9. x \in Int /\ y \in Int /\ z \in Int /\ fee \in Int /\ x + y = z + excess
    BY <1>1, <2>2
  <2>10. Balances(next) = x - fee /\ Immature(next) = y
    BY <2>1, <2>8
  <2> HIDE DEF x, y, z, fee
  <2>11. Balances(next) + Immature(next) = z + (excess - fee)
    BY <2>9, <2>10
  <2> QED
    BY <2>11 DEF z, fee
<1> HIDE DEF next
<1> QED
  BY <1>6, <1>8, <1>9, <1>10 DEF Booked, next

-----------------------------------------------------------------------------
(* Nothing is confirmed twice. *)

\* The transfers of q, all different, are behind the nonces of the ledger.
Spent(q, nonce) ==
  /\ q \in Seq(TransferType) /\ IsInjective(q)
  /\ \A i \in 1..Len(q) : q[i].nonce <= Num(nonce, q[i].from)
  /\ \A a \in DOMAIN nonce : nonce[a] \in Nat

LEMMA SpentMore ==
  ASSUME NEW q, NEW nonce, Spent(q, nonce), NEW t \in TransferType,
         t.nonce = Num(nonce, t.from) + 1
  PROVE  Spent(Append(q, t), Put(nonce, t.from, t.nonce))
<1> DEFINE a == Append(q, t)
           l == Len(q)
           n == Put(nonce, t.from, t.nonce)
<1>1. /\ q \in Seq(TransferType) /\ IsInjective(q) /\ l \in Nat
      /\ \A i \in 1..l : q[i].nonce <= Num(nonce, q[i].from)
  BY DEF Spent
<1>2. /\ a \in Seq(TransferType) /\ Len(a) = l + 1 /\ a[l + 1] = t
      /\ \A i \in 1..l : a[i] = q[i] /\ q[i] \in TransferType
  BY <1>1
<1>3. t.nonce \in Int /\ \A x : Num(n, x) = IF x = t.from THEN t.nonce ELSE Num(nonce, x)
  BY NumPut DEF TransferType
<1>4. DOMAIN a = 1..(l + 1) /\ DOMAIN q = 1..l
  BY <1>1, <1>2
<1> HIDE DEF a, l, n
<1>5. \A i \in 1..l : q[i].nonce \in Int
  BY <1>2 DEF TransferType
<1>6. \A x : Num(nonce, x) \in Nat
  BY DEF Spent, Num
<1>7. t.nonce \in Nat /\ t.nonce > Num(nonce, t.from)
  BY <1>6
<1>8. \A i \in 1..l : q[i] # t /\ q[i].nonce <= Num(n, q[i].from)
  <2>1. SUFFICES ASSUME NEW i \in 1..l
                 PROVE  q[i] # t /\ q[i].nonce <= Num(n, q[i].from)
    OBVIOUS
  <2>2. q[i].nonce <= Num(nonce, q[i].from) /\ q[i].nonce \in Int /\ Num(nonce, q[i].from) \in Int
    BY <1>1, <1>5, <1>6
  <2>3. CASE q[i].from = t.from
    <3>1. q[i].nonce < t.nonce /\ Num(n, q[i].from) = t.nonce
      BY <1>3, <1>6, <1>7, <2>2, <2>3
    <3> QED
      BY <1>7, <2>2, <3>1
  <2>4. CASE q[i].from # t.from
    BY <1>3, <2>2, <2>4
  <2> QED
    BY <2>3, <2>4
<1>9. IsInjective(a)
  <2>1. \A i, j \in 1..l : q[i] = q[j] => i = j
    BY <1>1, <1>4 DEF IsInjective
  <2>2. SUFFICES ASSUME NEW i \in 1..(l + 1), NEW j \in 1..(l + 1), a[i] = a[j]
                 PROVE  i = j
    BY <1>4 DEF IsInjective
  <2>3. (i \in 1..l \/ i = l + 1) /\ (j \in 1..l \/ j = l + 1)
    BY <1>1
  <2> QED
    BY <1>2, <1>8, <2>1, <2>2, <2>3
<1>10. \A i \in 1..(l + 1) : a[i].nonce <= Num(n, a[i].from)
  <2>1. SUFFICES ASSUME NEW i \in 1..(l + 1)
                 PROVE  a[i].nonce <= Num(n, a[i].from)
    OBVIOUS
  <2>2. CASE i \in 1..l
    BY <1>2, <1>8, <2>2
  <2>3. CASE i = l + 1
    BY <1>2, <1>3, <1>7, <2>3
  <2> QED
    BY <1>1, <2>2, <2>3
<1>11. \A x \in DOMAIN n : n[x] \in Nat
  BY <1>7 DEF Spent, n, Put
<1> QED
  BY <1>2, <1>9, <1>10, <1>11 DEF Spent, a, n

-----------------------------------------------------------------------------
(* A block keeps the books. *)

Feeing == INSTANCE Folding WITH op <- AddFee
Applying == INSTANCE Folding WITH op <- ApplyTransfer
Joining == INSTANCE Folding WITH op <- AddBody

LEMMA FeesFold ==
  ASSUME NEW b
  PROVE  Fees(b) = Feeing!Fold(0, b.txs)
  BY DEF Fees, Feeing!Fold, Feeing!MapThenFoldSet, Feeing!Max, Max,
         FoldLeft, MapThenFoldSet

LEMMA BodyFolds ==
  ASSUME NEW st, NEW b, NEW n
  PROVE  LET unlocked == UnlockMatured(st, n)
         IN ApplyBody(st, b, n)
              = Applying!Fold([ok |-> CoinbaseOk(unlocked, b, n), st |-> PayCoinbase(unlocked, b, n)],
                              b.txs)
  BY DEF ApplyBody, Applying!Fold, Applying!MapThenFoldSet, Applying!Max, Max,
         FoldLeft, MapThenFoldSet

LEMMA BodyOfFolds ==
  ASSUME NEW path
  PROVE  BodyOf(path) = Joining!Fold(<<>>, path)
  BY DEF BodyOf, Joining!Fold, Joining!MapThenFoldSet, Joining!Max, Max,
         FoldLeft, MapThenFoldSet

LEMMA FeesNat ==
  ASSUME NEW s \in Seq(TransferType)
  PROVE  Feeing!Fold(0, s) \in Nat
<1> DEFINE K == {q \in Seq(TransferType) : Feeing!Fold(0, q) \in Nat}
<1>1. <<>> \in K
  BY Feeing!FoldEmpty
<1>2. ASSUME NEW q \in Seq(TransferType), NEW t \in TransferType, q \in K
      PROVE  Append(q, t) \in K
  <2>1. Feeing!Fold(0, Append(q, t)) = Feeing!Fold(0, q) + t.fee
    BY Feeing!FoldAppend DEF AddFee
  <2>2. t.fee \in Nat
    BY DEF TransferType
  <2> QED
    BY <1>2, <2>1, <2>2
<1> HIDE DEF K
<1>3. Seq(TransferType) \subseteq K
  BY <1>1, <1>2, Replaying!SeqSet
<1> QED
  BY <1>3 DEF K

\* What has been kept of the books after the transfers s, if all are accepted.
Kept(start, n, excess, q, s) ==
  LET end == Applying!Fold(start, s)
  IN /\ "ok" \in DOMAIN end
     /\ end.ok => /\ start.ok
                  /\ Booked(end.st, n, excess - Feeing!Fold(0, s))
                  /\ Spent(q \o s, end.st.nonce)

LEMMA BodyKept ==
  ASSUME NEW start, "ok" \in DOMAIN start, "st" \in DOMAIN start, NEW n, NEW excess \in Int,
         start.ok => Booked(start.st, n, excess),
         NEW q \in Seq(TransferType), Spent(q, start.st.nonce),
         NEW s \in Seq(TransferType)
  PROVE  Kept(start, n, excess, q, s)
<1> DEFINE K == {r \in Seq(TransferType) : Kept(start, n, excess, q, r)
                                           /\ "st" \in DOMAIN Applying!Fold(start, r)}
<1>1. <<>> \in K
  <2>1. Applying!Fold(start, <<>>) = start /\ Feeing!Fold(0, <<>>) = 0
    BY Applying!FoldEmpty, Feeing!FoldEmpty
  <2>2. q \o <<>> = q /\ excess - 0 = excess
    OBVIOUS
  <2>3. Kept(start, n, excess, q, <<>>)
    BY <2>1, <2>2 DEF Kept
  <2> QED
    BY <2>1, <2>3
<1>2. ASSUME NEW r \in Seq(TransferType), NEW t \in TransferType, r \in K
      PROVE  Append(r, t) \in K
  <2> DEFINE a == Append(r, t)
             before == Applying!Fold(start, r)
             after == Applying!Fold(start, a)
             fees == Feeing!Fold(0, r)
  <2>1. a \in Seq(TransferType) /\ q \o a = Append(q \o r, t)
    <3>1. a \in Seq(TransferType) /\ <<t>> \in Seq(TransferType) /\ q \o r \in Seq(TransferType)
      BY AppendProperties, ConcatProperties
    <3>2. a = r \o <<t>> /\ Append(q \o r, t) = (q \o r) \o <<t>>
      BY <3>1, AppendIsConcat
    <3> QED
      BY <3>1, <3>2, ConcatAssociative
  <2>2. after = ApplyTransfer(before, t) /\ Feeing!Fold(0, a) = fees + t.fee
    BY Applying!FoldAppend, Feeing!FoldAppend DEF AddFee
  <2>3. /\ "ok" \in DOMAIN before /\ "st" \in DOMAIN before
        /\ before.ok => start.ok /\ Booked(before.st, n, excess - fees)
                        /\ Spent(q \o r, before.st.nonce)
    BY <1>2 DEF Kept
  <2>4. fees \in Nat /\ t.fee \in Nat
    BY FeesNat DEF TransferType
  <2> HIDE DEF before, fees, a
  <2>5. /\ "ok" \in DOMAIN after /\ "st" \in DOMAIN after
        /\ after.ok => before.ok /\ TransferOk(before.st, t) /\ after.st = Transfer(before.st, t)
    <3> DEFINE go == [before EXCEPT !.st = Transfer(@, t)]
               stay == [before EXCEPT !.ok = FALSE]
    <3>1. after = IF before.ok /\ TransferOk(before.st, t) THEN go ELSE stay
      BY <2>2 DEF ApplyTransfer
    <3>2. /\ "ok" \in DOMAIN go /\ "st" \in DOMAIN go /\ go.st = Transfer(before.st, t)
          /\ "ok" \in DOMAIN stay /\ "st" \in DOMAIN stay /\ stay.ok = FALSE
      BY <2>3
    <3> HIDE DEF go, stay, after
    <3> QED
      BY <3>1, <3>2
  <2> HIDE DEF after
  <2>6. ASSUME after.ok
        PROVE  start.ok /\ Booked(after.st, n, excess - (fees + t.fee)) /\ Spent(q \o a, after.st.nonce)
    <3>1. before.ok /\ TransferOk(before.st, t) /\ after.st = Transfer(before.st, t)
      BY <2>5, <2>6
    <3>2. Booked(before.st, n, excess - fees) /\ excess - fees \in Int /\ start.ok
          /\ Spent(q \o r, before.st.nonce)
      BY <2>3, <2>4, <3>1
    <3>3. /\ Booked(after.st, n, (excess - fees) - t.fee)
          /\ after.st.nonce = Put(before.st.nonce, t.from, t.nonce)
      BY <3>1, <3>2, TransferBooked
    <3>4. (excess - fees) - t.fee = excess - (fees + t.fee)
      BY <2>4
    <3>5. t.nonce = Num(before.st.nonce, t.from) + 1
      BY <3>1 DEF TransferOk
    <3>6. Spent(Append(q \o r, t), after.st.nonce)
      BY <3>2, <3>3, <3>5, SpentMore
    <3> QED
      BY <2>1, <3>2, <3>3, <3>4, <3>6
  <2>7. Kept(start, n, excess, q, a)
    BY <2>2, <2>5, <2>6 DEF Kept, after
  <2>8. "st" \in DOMAIN Applying!Fold(start, a)
    BY <2>5 DEF after
  <2> QED
    BY <2>1, <2>7, <2>8 DEF a
<1> HIDE DEF K
<1>3. Seq(TransferType) \subseteq K
  BY <1>1, <1>2, Replaying!SeqSet
<1> QED
  BY <1>3 DEF K

\* Block n on a ledger whose books are right leaves one whose books are right.
LEMMA BlockKept ==
  ASSUME NEW st, NEW n \in Nat, Booked(st, n - 1, 0), BlockReward(n) \in Nat,
         NEW b, b.miner \in Account, b.txs \in Seq(TransferType),
         NEW q, Spent(q, st.nonce), PostState(st, b, n).ok
  PROVE  /\ Booked(PostState(st, b, n).st, n, 0)
         /\ Spent(q \o b.txs, PostState(st, b, n).st.nonce)
<1> DEFINE unlocked == UnlockMatured(st, n)
           start == [ok |-> CoinbaseOk(unlocked, b, n), st |-> PayCoinbase(unlocked, b, n)]
           body == ApplyBody(st, b, n)
           end == PostState(st, b, n)
<1>1. Booked(unlocked, n - 1, 0) /\ unlocked.nonce = st.nonce
  BY UnlockBooked
<1> DEFINE fees == Feeing!Fold(0, b.txs)
<1>2. fees \in Nat /\ Fees(b) = fees
  BY FeesNat, FeesFold
<1>3. "ok" \in DOMAIN start /\ "st" \in DOMAIN start
      /\ start.ok = CoinbaseOk(unlocked, b, n) /\ start.st = PayCoinbase(unlocked, b, n)
  OBVIOUS
<1>4. body = Applying!Fold(start, b.txs)
  BY BodyFolds
<1>5. end = [ok |-> body.ok, st |-> IF body.ok THEN UnlockMatured(body.st, n) ELSE st]
  BY DEF PostState
<1> HIDE DEF start, unlocked, body, fees
<1>6. start.st.nonce = st.nonce
  BY <1>1, <1>3 DEF PayCoinbase, Booked
<1>7. start.ok => Booked(start.st, n, fees)
  BY <1>1, <1>2, <1>3, CoinbaseBooked
<1>8. Spent(q, start.st.nonce) /\ q \in Seq(TransferType)
  BY <1>6 DEF Spent
<1>9. Kept(start, n, fees, q, b.txs)
  <2> DEFINE s == b.txs
  <2>1. fees \in Int /\ s \in Seq(TransferType)
    BY <1>2
  <2> HIDE DEF s, end
  <2>2. Kept(start, n, fees, q, s)
    BY <1>3, <1>7, <1>8, <2>1, BodyKept
  <2> QED
    BY <2>2 DEF s
<1>10. body.ok /\ end.st = UnlockMatured(body.st, n)
  <2>1. end.ok
    OBVIOUS
  <2> HIDE DEF end
  <2>2. body.ok
    BY <1>5, <2>1
  <2> QED
    BY <1>5, <2>2
<1>11. Booked(body.st, n, fees - fees) /\ Spent(q \o b.txs, body.st.nonce)
  BY <1>4, <1>9, <1>10 DEF Kept, fees
<1>12. Booked(body.st, n, 0)
  <2>1. fees - fees = 0
    BY <1>2
  <2> QED
    BY <1>11, <2>1
<1> HIDE DEF end
<1>13. Booked(UnlockMatured(body.st, n), n, 0) /\ UnlockMatured(body.st, n).nonce = body.st.nonce
  BY <1>12, UnlockBooked
<1> QED
  BY <1>10, <1>11, <1>13 DEF end

-----------------------------------------------------------------------------
(* The chain keeps the books. *)

\* No account, no reward.
LEMMA EmptyBooked == Booked(EmptyLedger, 0, 0) /\ Spent(<<>>, EmptyLedger.nonce)
<1>1. Balances(EmptyLedger) = 0
  <2>1. DOMAIN EmptyLedger.bal = {} /\ EmptyLedger.bal = [a \in {} |-> 0]
    BY DEF EmptyLedger, EmptyMap
  <2> QED
    BY <2>1, SumEmpty DEF Balances, SumFunction
<1>2. Immature(EmptyLedger) = 0 /\ EmptyLedger.pend = {} /\ EmptyLedger.minted = 0
  BY AmountsEmpty DEF Immature, EmptyLedger
<1>3. DOMAIN EmptyLedger.bal = {} /\ EmptyLedger.bal = [a \in DOMAIN EmptyLedger.bal |-> EmptyLedger.bal[a]]
      /\ DOMAIN EmptyLedger.nonce = {}
  BY DEF EmptyLedger, EmptyMap
<1>4. EmptyLedger = [bal |-> EmptyLedger.bal, nonce |-> EmptyLedger.nonce,
                     pend |-> EmptyLedger.pend, minted |-> EmptyLedger.minted]
  BY DEF EmptyLedger
<1>5. Spent(<<>>, EmptyLedger.nonce)
  <2>1. <<>> \in Seq(TransferType) /\ Len(<<>>) = 0 /\ IsInjective(<<>>)
    BY DEF IsInjective
  <2> QED
    BY <1>3, <2>1 DEF Spent
<1> QED
  BY <1>1, <1>2, <1>3, <1>4, <1>5, FS_EmptySet, Numbers DEF Booked

\* The books of the ledger after h are right, and no transfer of its chain comes again.
Kosher(h) ==
  Booked(Header[h].root, Depth(h), 0) /\ Spent(BodyOf(PathTo[h]), Header[h].root.nonce)

LEMMA GenuineBooked == \A h \in Blk : h \in Genuine => Kosher(h)
<1> DEFINE K == {h \in Blk : h \in Genuine => Kosher(h)}
<1>1. Genesis \in K
  <2>1. PathTo[Genesis] = Append(<<>>, Genesis) /\ <<>> \in Seq(Blk) /\ Genesis \in Blk
    BY PathToGenesis, GenesisIn
  <2>2. BodyOf(PathTo[Genesis]) = <<>> \o <<>>
    <3> DEFINE P == PathTo[Genesis]
               none == <<>>
    <3>1. P = Append(none, Genesis) /\ none \in Seq(Blk)
      BY <2>1
    <3>2. Header[Genesis].txs = <<>> /\ Joining!Fold(<<>>, none) = <<>>
      BY HeaderAssumption, Joining!FoldEmpty
    <3> HIDE DEF P, none
    <3>3. Joining!Fold(<<>>, P) = AddBody(Joining!Fold(<<>>, none), Genesis)
      BY <2>1, <3>1, Joining!FoldAppend
    <3>4. BodyOf(P) = Joining!Fold(<<>>, P)
      BY BodyOfFolds
    <3> QED
      BY <3>2, <3>3, <3>4 DEF AddBody, P
  <2>3. BodyOf(PathTo[Genesis]) = <<>>
    BY <2>2
  <2> QED
    BY <2>1, <2>3, EmptyBooked, DepthGenesis, HeaderAssumption DEF Kosher
<1>2. ASSUME NEW h \in Blk \ {Genesis}, Header[h].prev \in K
      PROVE  h \in K
  <2> DEFINE p == Header[h].prev
             b == Header[h]
             n == Depth(h)
             st == Header[p].root
             P == PathTo[p]
  <2>1. SUFFICES ASSUME h \in Genuine
                 PROVE  Kosher(h)
    OBVIOUS
  <2>2. p \in Genuine /\ p \in Blk /\ n = Depth(p) + 1 /\ n \in Nat /\ Depth(p) \in Nat
    BY <2>1, GenuineParent, DepthNext, DepthNat
  <2>3. Booked(st, n - 1, 0) /\ Spent(BodyOf(P), st.nonce)
    <3>1. Kosher(p)
      BY <1>2, <2>2
    <3>2. n - 1 = Depth(p)
      BY <2>2
    <3> QED
      BY <3>1, <3>2 DEF Kosher
  <2>4. Validate(h, n, st).ok /\ Validate(h, n, st).st = b.root
    BY <2>1, <2>2, GenuineValid
  <2>5. PostState(st, b, n).ok /\ PostState(st, b, n).st = b.root
    BY <2>4 DEF Validate
  <2>6. BodyOf(PathTo[h]) = BodyOf(P) \o b.txs
    <3>1. PathTo[h] = Append(P, h) /\ P \in Seq(Blk)
      BY <2>2, PathToNext, PathType
    <3> HIDE DEF P
    <3>2. Joining!Fold(<<>>, Append(P, h)) = AddBody(Joining!Fold(<<>>, P), h)
      BY <3>1, <2>2, Joining!FoldAppend
    <3>3. BodyOf(Append(P, h)) = AddBody(BodyOf(P), h)
      BY <3>2, BodyOfFolds
    <3> QED
      BY <3>1, <3>3 DEF AddBody
  <2>7. b.miner \in Account /\ b.txs \in Seq(TransferType) /\ BlockReward(n) \in Nat
    BY HeaderAssumption, SubsidyAssumption
  <2> DEFINE q == BodyOf(P)
  <2>8. b.root = PostState(st, b, n).st /\ PostState(st, b, n).ok
    BY <2>5
  <2> HIDE DEF n, st, b, P, q
  <2>9. Spent(q, st.nonce)
    BY <2>3 DEF q
  <2>10. Booked(PostState(st, b, n).st, n, 0) /\ Spent(q \o b.txs, PostState(st, b, n).st.nonce)
    BY <2>2, <2>3, <2>7, <2>8, <2>9, BlockKept
  <2>11. Booked(b.root, n, 0) /\ Spent(q \o b.txs, b.root.nonce)
    BY <2>8, <2>10
  <2> QED
    BY <2>6, <2>11 DEF Kosher, b, n, q
<1> HIDE DEF K
<1>3. Blk \subseteq K
  BY <1>1, <1>2, BlkSet
<1> QED
  BY <1>3 DEF K

-----------------------------------------------------------------------------
(* The properties of Chain. *)

LEMMA InvGenuine == IInv => ChainGenuine
<1>1. SUFFICES ASSUME IInv
               PROVE  ChainGenuine
  OBVIOUS
<1>2. /\ IsPiece(blocks) /\ Last(blocks) = blocks[Len(blocks)] /\ Last(blocks) \in Genuine
      /\ Last(blocks) \in Blk /\ anchor.height = Depth(blocks[1]) /\ Head(blocks) = blocks[1]
  BY <1>1, NodeFields, GoodTip, PieceEnds DEF IInv
<1>3. Len(PathTo[Last(blocks)]) = Depth(Last(blocks)) + 1
  BY <1>2, DepthNat
<1> QED
  BY <1>2, <1>3, PieceOfPath DEF ChainGenuine

LEMMA InvLedger == IInv => LedgerExact
<1>1. SUFFICES ASSUME IInv
               PROVE  LedgerExact
  OBVIOUS
<1>2. /\ Last(blocks) \in Genuine /\ blocks[1] \in Genuine /\ Head(blocks) = blocks[1]
      /\ cache = Header[Last(blocks)].root /\ anchor.state = Header[blocks[1]].root
  BY <1>1, NodeFields, GoodTip, PieceEnds DEF IInv, Good
<1>3. \A h \in Genuine : FullReplay(h).st = Header[h].root
  <2>1. \A h \in Genuine : FullReplay(h) = Reached(h)
    BY GenuineAt DEF Genuine
  <2>2. \A h : Reached(h).st = Header[h].root
    BY DEF Reached
  <2> QED
    BY <2>1, <2>2
<1> QED
  BY <1>2, <1>3 DEF LedgerExact

LEMMA InvSaved == IInv => SavedLoads
<1>1. SUFFICES ASSUME IInv
               PROVE  SavedLoads
  OBVIOUS
<1>2. Sits(saved.blocks, saved.anchor)
  BY <1>1, NodeFields DEF IInv, Good
<1>3. Replayed(saved.blocks, saved.anchor) = Reached(Last(saved.blocks))
  BY <1>2, PieceReplay, PieceEnds DEF Sits, Replayed
<1> QED
  BY <1>3 DEF SavedLoads, Reached

LEMMA InvConserved == IInv => Conserved
<1>1. SUFFICES ASSUME IInv
               PROVE  Conserved
  OBVIOUS
<1> DEFINE t == Last(blocks)
           st == Header[t].root
<1>2. t \in Genuine /\ t \in Blk /\ cache = st
  <2>1. Last(blocks) \in Genuine /\ cache = Header[Last(blocks)].root
    BY <1>1, NodeFields, GoodTip DEF IInv, Good
  <2> QED
    BY <2>1 DEF Genuine
<1> HIDE DEF t, st
<1>3. Booked(st, Depth(t), 0) /\ Spent(BodyOf(PathTo[t]), st.nonce)
  BY <1>2, GenuineBooked DEF Kosher, st
<1>4. /\ Balances(st) + Immature(st) = st.minted + 0 /\ st.minted \in Nat /\ st.minted <= MaxSupply
      /\ \A a \in DOMAIN st.bal : st.bal[a] \in Nat
  BY <1>3 DEF Booked
<1>5. IsInjective(BodyOf(PathTo[t]))
  BY <1>3 DEF Spent
<1>6. Balances(st) + Immature(st) = st.minted /\ \A a \in DOMAIN st.bal : st.bal[a] >= 0
  BY <1>4
<1> QED
  BY <1>2, <1>4, <1>5, <1>6 DEF Conserved, t

(* Whatever mixture of blocks, ranges, reorganisations, pruning, imports    *)
(* and restarts came before, the local blocks are the end of one valid      *)
(* chain from genesis, and the checkpoint stands at its true height.        *)
THEOREM Genuineness == Spec => []ChainGenuine
  BY Invariant, InvGenuine, PTL

(* The cached ledger and the checkpoint's are those of a replay from        *)
(* genesis, however the code came by them.                                  *)
THEOREM Exactness == Spec => []LedgerExact
  BY Invariant, InvLedger, PTL

(* The balances, none negative, and the rewards not yet mature add up to    *)
(* what was minted, within MAX_SUPPLY, and no transfer is on the chain      *)
(* twice: however far fees, maturities and undone blocks moved the coins.   *)
THEOREM Conservation == Spec => []Conserved
  BY Invariant, InvConserved, PTL

(* What a save wrote at any moment replays from its own checkpoint, to the  *)
(* ledger its last header commits to: load() never refuses it.              *)
THEOREM Loadable == Spec => []SavedLoads
  BY Invariant, InvSaved, PTL

(* The node moves only to a tip with strictly more work, an import of a     *)
(* checkpoint and a restart apart.                                          *)
THEOREM Rising == Spec => WorkGrows
<1>1. IInv /\ [Next]_vars =>
        [Last(blocks') # Last(blocks) =>
           \/ Work(PathTo[Last(blocks')]) > Work(PathTo[Last(blocks)])
           \/ Restart
           \/ \E h \in Genuine : ImportCheckpoint(h)]_vars
  BY StepInv DEF Rises, WorkTo
<1> QED
  BY <1>1, Invariant, PTL DEF Spec, WorkGrows
-----------------------------------------------------------------------------
(* What the debugging requests tell. *)

\* The branch of a valid block.
LEMMA PathIsPiece == \A h \in Blk : h \in Genuine => IsPiece(PathTo[h])
<1> DEFINE K == {h \in Blk : h \in Genuine => IsPiece(PathTo[h])}
<1>1. Genesis \in K
  BY GenesisIn, GenuineGenesis, PathToGenesis, PieceOne
<1>2. ASSUME NEW h \in Blk \ {Genesis}, Header[h].prev \in K
      PROVE  h \in K
  <2> DEFINE p == Header[h].prev
  <2>1. SUFFICES ASSUME h \in Genuine PROVE IsPiece(PathTo[h])
    OBVIOUS
  <2>2. p \in Blk /\ p \in Genuine
    BY <1>2, <2>1, GenuineParent
  <2>3. IsPiece(PathTo[p])
    BY <1>2, <2>2
  <2>4. PathTo[p] \in Seq(Blk) \ {<<>>} /\ PathTo[p][Len(PathTo[p])] = p
    BY <2>2, PathType
  <2>5. PathTo[h] = Append(PathTo[p], h)
    BY PathToNext
  <2> QED
    BY <1>2, <2>1, <2>3, <2>4, <2>5, PieceMore
<1> HIDE DEF K
<1>3. Blk \subseteq K
  BY <1>1, <1>2, BlkSet
<1> QED
  BY <1>3 DEF K

LEMMA PathAtGenesis ==
  ASSUME NEW h \in Genuine
  PROVE  /\ IsPiece(PathTo[h]) /\ PathTo[h][1] = Genesis /\ PathTo[h][Len(PathTo[h])] = h
         /\ Len(PathTo[h]) = Depth(h) + 1
<1>1. h \in Blk
  BY DEF Genuine
<1>2. IsPath(PathTo[h], h)
  BY <1>1, PathToIs
<1> QED
  BY <1>1, <1>2, PathIsPiece, DepthNat DEF IsPath

\* Only genesis has height 0.
LEMMA OnlyGenesis ==
  ASSUME NEW h \in Blk, Depth(h) = 0
  PROVE  h = Genesis
<1>1. ASSUME h # Genesis PROVE FALSE
  BY <1>1, DepthNext, DepthNat
<1> QED
  BY <1>1

\* A whole node's blocks start at genesis, where their places are their heights.
LEMMA WholeBlocks ==
  ASSUME IInv, Whole
  PROVE  /\ IsPiece(blocks) /\ blocks[1] = Genesis
         /\ Len(blocks) \in Nat \ {0}
         /\ \A i \in 1..Len(blocks) : blocks[i] \in Blk /\ Depth(blocks[i]) = i - 1
         /\ anchor = [height |-> 0, state |-> EmptyLedger]
         /\ Height(Node) = Len(blocks) - 1
<1>1. IsPiece(blocks) /\ anchor = [height |-> Depth(blocks[1]), state |-> Header[blocks[1]].root]
  BY NodeFields DEF IInv, Good, Sits
<1>2. Depth(blocks[1]) = 0 /\ blocks[1] \in Blk
  BY <1>1, PieceEnds DEF Whole
<1>3. blocks[1] = Genesis
  BY <1>2, OnlyGenesis
<1>4. \A i \in 1..Len(blocks) : blocks[i] \in Blk /\ Depth(blocks[i]) = i - 1
  <2>1. ASSUME NEW i \in 1..Len(blocks) PROVE blocks[i] \in Blk /\ Depth(blocks[i]) = i - 1
    <3>1. Depth(blocks[i]) = Depth(blocks[1]) + i - 1
      BY <1>1, PieceHeights
    <3> QED
      BY <1>1, <1>2, <3>1, PieceEnds
  <2> QED
    BY <2>1
<1>5. anchor = [height |-> 0, state |-> EmptyLedger]
  BY <1>1, <1>2, <1>3, HeaderAssumption
<1>6. Len(blocks) \in Nat \ {0}
  BY <1>1, PieceEnds
<1>7. Height(Node) = Len(blocks) - 1
  BY <1>5, <1>6, NodeFields DEF Height
<1> QED
  BY <1>1, <1>3, <1>4, <1>5, <1>6, <1>7

LEMMA PrefixesValid ==
  ASSUME IInv, Whole, NEW p \in Place \cup {0}
  PROVE  PrefixValid(p)
<1> DEFINE Q == SubSeq(blocks, 1, p + 1)
<1>1. /\ IsPiece(blocks) /\ blocks[1] = Genesis /\ Len(blocks) \in Nat \ {0}
  BY WholeBlocks
<1>2. 1 \in 1..Len(blocks) /\ p + 1 \in 1..Len(blocks)
  BY <1>1 DEF Place
<1>3. IsPiece(Q) /\ Q[1] = blocks[1]
  <2> DEFINE b == p + 1
  <2>1. b \in 1..Len(blocks) /\ 1 \in 1..(b - 1 + 1) /\ b - 1 + 1 = b /\ b \in 1..Len(blocks)
    BY <1>1, <1>2
  <2> HIDE DEF b
  <2>2. /\ IsPiece(SubSeq(blocks, 1, b))
        /\ \A i \in 1..(b - 1 + 1) : SubSeq(blocks, 1, b)[i] = blocks[1 + i - 1]
    BY <1>1, <1>2, <2>1, PieceSub
  <2>3. SubSeq(blocks, 1, b)[1] = blocks[1 + 1 - 1] /\ 1 + 1 - 1 = 1
    BY <2>1, <2>2
  <2>4. SubSeq(blocks, 1, b)[1] = blocks[1]
    BY <2>3
  <2> QED
    BY <2>2, <2>4 DEF b
<1> HIDE DEF Q
<1>4. Head(Q) = Genesis /\ Replay(Q, 0, EmptyLedger) = Reached(Q[Len(Q)])
  <2>1. Replay(Q, Depth(Q[1]), Header[Q[1]].root) = Reached(Q[Len(Q)])
    BY <1>3, PieceReplay
  <2> QED
    BY <1>1, <1>3, <2>1, PieceEnds, DepthGenesis, HeaderAssumption
<1>5. ValidateChain(Q)
  BY <1>4 DEF ValidateChain, Reached
<1> QED
  BY <1>5 DEF PrefixValid, Q

\* A chain from genesis that validates is a whole node's.
LEMMA OnlyWholeVerifies ==
  ASSUME IInv, ~ Whole
  PROVE  ~ ReplayVerify
<1>1. IsPiece(blocks) /\ anchor.height = Depth(blocks[1])
  BY NodeFields DEF IInv, Good, Sits
<1>2. Head(blocks) # Genesis
  BY <1>1, PieceEnds, DepthGenesis DEF Whole
<1> QED
  BY <1>2 DEF ReplayVerify, ValidateChain

LEMMA SnapshotTells ==
  ASSUME IInv
  PROVE  /\ StateRoot(LiveSnapshot.state) = LiveSnapshot.root
         /\ SnapshotOf(LiveSnapshot.tip)
              = [height |-> LiveSnapshot.height, state |-> LiveSnapshot.state]
<1> DEFINE tip == Last(blocks)
<1>1. /\ tip \in Genuine /\ tip \in Blk /\ Height(Node) = Depth(tip) /\ cache = Header[tip].root
  BY NodeFields, GoodTip DEF IInv, Good
<1>2. /\ LiveSnapshot.height = Height(Node) /\ LiveSnapshot.tip = tip
      /\ LiveSnapshot.root = Header[tip].root /\ LiveSnapshot.state = cache
  BY DEF LiveSnapshot
<1>3. FullReplay(tip) = Reached(tip)
  BY <1>1, GenuineAt
<1> HIDE DEF tip
<1>4. SnapshotOf(tip) = [height |-> Depth(tip), state |-> Header[tip].root]
  BY <1>3 DEF SnapshotOf, Reached
<1> QED
  BY <1>1, <1>2, <1>4 DEF StateRoot

-----------------------------------------------------------------------------
(* fork-compare. *)

Comparing == INSTANCE Folding WITH op <- Compared

\* The posted chain as fork-compare reads it.
Posted(path) == [i \in DOMAIN path |-> [place |-> i - 1, hash |-> path[i]]]
Post == [place : Int, hash : Blk]

LEMMA CommonFolds ==
  ASSUME NEW path
  PROVE  CommonHeight(path) = Comparing!Fold(-1, Posted(path))
  BY DEF CommonHeight, Posted, FoldLeft, MapThenFoldSet, Comparing!Fold, Comparing!MapThenFoldSet,
         Comparing!Max, Max

LEMMA CommonMore ==
  ASSUME NEW P \in Seq(Blk), NEW h \in Blk
  PROVE  CommonHeight(Append(P, h))
           = Compared(CommonHeight(P), [place |-> Len(P), hash |-> h])
<1> DEFINE s == Posted(P)
           x == [place |-> Len(P), hash |-> h]
           Q == Append(P, h)
<1>1. /\ Len(P) \in Nat /\ DOMAIN P = 1..Len(P) /\ DOMAIN Q = 1..(Len(P) + 1)
      /\ Q[Len(P) + 1] = h /\ \A i \in 1..Len(P) : Q[i] = P[i] /\ P[i] \in Blk
  OBVIOUS
<1>2. s \in Seq(Post) /\ Len(s) = Len(P) /\ x \in Post
  <2>1. s = [i \in 1..Len(P) |-> [place |-> i - 1, hash |-> P[i]]]
    BY <1>1 DEF Posted
  <2>2. \A i \in 1..Len(P) : [place |-> i - 1, hash |-> P[i]] \in Post
    BY <1>1 DEF Post
  <2> HIDE DEF s
  <2> QED
    BY <1>1, <2>1, <2>2 DEF Post
<1>3. Posted(Q) = Append(s, x)
  <2>1. Posted(Q) = [i \in 1..(Len(P) + 1) |-> [place |-> i - 1, hash |-> Q[i]]]
    BY <1>1 DEF Posted
  <2>2. Append(s, x) = [i \in 1..(Len(P) + 1) |-> IF i = Len(P) + 1 THEN x ELSE s[i]]
    <3> DEFINE t == Append(s, x)
    <3> HIDE DEF s, x
    <3>1. t \in Seq(Post) /\ Len(t) = Len(P) + 1 /\ t[Len(P) + 1] = x
          /\ \A i \in 1..Len(P) : t[i] = s[i]
      BY <1>1, <1>2
    <3> HIDE DEF t
    <3>2. t = [i \in 1..(Len(P) + 1) |-> t[i]]
      BY <1>1, <3>1
    <3>3. \A i \in 1..(Len(P) + 1) : t[i] = IF i = Len(P) + 1 THEN x ELSE s[i]
      BY <1>1, <3>1
    <3> QED
      BY <3>2, <3>3 DEF t
  <2>3. ASSUME NEW i \in 1..(Len(P) + 1)
        PROVE  [place |-> i - 1, hash |-> Q[i]] = IF i = Len(P) + 1 THEN x ELSE s[i]
    <3>1. CASE i = Len(P) + 1
      BY <1>1, <3>1
    <3>2. CASE i \in 1..Len(P)
      BY <1>1, <3>2 DEF Posted
    <3> QED
      BY <1>1, <3>1, <3>2
  <2> HIDE DEF s, x, Q
  <2> QED
    BY <2>1, <2>2, <2>3
<1> HIDE DEF s, x, Q
<1>4. Comparing!Fold(-1, Append(s, x)) = Compared(Comparing!Fold(-1, s), x)
  BY <1>2, Comparing!FoldAppend
<1> QED
  BY <1>3, <1>4, CommonFolds DEF s, x, Q

LEMMA CommonNone == CommonHeight(<<>>) = -1
<1>1. Posted(<<>>) = <<>>
  BY DEF Posted
<1> QED
  BY <1>1, CommonFolds, Comparing!FoldEmpty

\* On a whole node a shared block's place is its height.
LEMMA ComparedAt ==
  ASSUME IInv, Whole, NEW best, NEW h \in Blk, NEW place \in Nat, Depth(h) = place
  PROVE  /\ h \notin ToSet(blocks) => Compared(best, [place |-> place, hash |-> h]) = best
         /\ h \in ToSet(blocks) =>
              /\ Compared(best, [place |-> place, hash |-> h]) = place
              /\ place + 1 \in 1..Len(blocks) /\ blocks[place + 1] = h
<1> DEFINE b == [place |-> place, hash |-> h]
<1>0. b.place = place /\ b.hash = h
  OBVIOUS
<1>1. /\ blocks \in Seq(Blk) /\ Len(blocks) \in Nat \ {0}
      /\ \A i \in 1..Len(blocks) : Depth(blocks[i]) = i - 1
  BY WholeBlocks, PieceEnds
<1> HIDE DEF b
<1>2. CASE h \notin ToSet(blocks)
  BY <1>0, <1>2 DEF Compared, b
<1>3. CASE h \in ToSet(blocks)
  <2>1. PICK j \in 1..Len(blocks) : blocks[j] = h
    BY <1>1, <1>3 DEF ToSet
  <2>2. j = place + 1
    BY <1>1, <2>1
  <2>3. place \in 0..(Len(blocks) - 1) /\ place + 1 \in 1..Len(blocks) /\ blocks[place + 1] = h
    BY <1>1, <2>1, <2>2
  <2>4. ASSUME NEW i \in 0..(Len(blocks) - 1), blocks[i + 1] = h
        PROVE  i = place
    <3>1. i + 1 \in 1..Len(blocks)
      BY <1>1
    <3>2. Depth(blocks[i + 1]) = (i + 1) - 1
      BY <1>1, <3>1
    <3> QED
      BY <2>4, <3>2
  <2>5. PlaceIn(blocks, h) = place
    BY <2>3, <2>4 DEF PlaceIn
  <2>6. Compared(best, b) = place
    BY <1>0, <1>3, <2>5 DEF Compared
  <2> QED
    BY <1>3, <2>3, <2>6 DEF b
<1> QED
  BY <1>2, <1>3 DEF b

\* A chain from genesis shares its blocks up to the common place, and none after.
Shared(P) ==
  \E k \in 1..Len(P) :
    /\ CommonHeight(P) = k - 1
    /\ k \in 1..Len(blocks)
    /\ \A i \in 1..k : P[i] = blocks[i]
    /\ \A i \in (k + 1)..Len(P) : P[i] \notin ToSet(blocks)

LEMMA SharedPrefix ==
  ASSUME IInv, Whole
  PROVE  \A P : IsPiece(P) => (P[1] = Genesis => Shared(P))
<1> DEFINE K == {Q \in Seq(Blk) : Q[1] = Genesis => Shared(Q)}
<1>0. /\ blocks \in Seq(Blk) /\ Len(blocks) \in Nat \ {0} /\ IsPiece(blocks)
      /\ blocks[1] = Genesis
      /\ \A i \in 1..Len(blocks) : Depth(blocks[i]) = i - 1
  BY WholeBlocks, PieceEnds
<1>1. ASSUME NEW h \in Genuine
      PROVE  <<h>> \in K
  <2>1. <<h>> \in Seq(Blk) /\ h \in Blk /\ <<h>>[1] = h /\ Len(<<h>>) = 1
    BY DEF Genuine
  <2>2. SUFFICES ASSUME h = Genesis PROVE Shared(<<h>>)
    BY <2>1
  <2>3. Genesis \in ToSet(blocks)
    BY <1>0 DEF ToSet
  <2>4. <<h>> = Append(<<>>, h) /\ <<>> \in Seq(Blk) /\ Len(<<>>) = 0
    BY <2>1
  <2>5. CommonHeight(<<h>>) = Compared(-1, [place |-> 0, hash |-> h])
    BY <2>1, <2>4, CommonMore, CommonNone
  <2>6. CommonHeight(<<h>>) = 0
    BY <2>1, <2>2, <2>3, <2>5, ComparedAt, DepthGenesis
  <2>7. /\ 1 \in 1..Len(<<h>>) /\ 1 \in 1..Len(blocks) /\ CommonHeight(<<h>>) = 1 - 1
        /\ \A i \in 1..1 : <<h>>[i] = blocks[i]
        /\ \A i \in (1 + 1)..Len(<<h>>) : FALSE
    BY <1>0, <2>1, <2>2, <2>6
  <2> QED
    BY <2>7 DEF Shared
<1>2. ASSUME NEW P \in Seq(Blk) \ {<<>>}, NEW h \in Genuine \ {Genesis},
             IsPiece(P), Header[h].prev = P[Len(P)], P \in K
      PROVE  Append(P, h) \in K
  <2> DEFINE Q == Append(P, h)
             n == Len(P)
  <2>1. /\ h \in Blk /\ Q \in Seq(Blk) /\ n \in Nat \ {0} /\ Len(Q) = n + 1
        /\ Q[1] = P[1] /\ Q[n + 1] = h /\ \A i \in 1..n : Q[i] = P[i]
    BY <1>2, AppendAt, MoreEnds DEF Genuine
  <2> HIDE DEF Q
  <2>2. SUFFICES ASSUME P[1] = Genesis PROVE Shared(Q)
    BY <2>1 DEF Q
  <2>3. PICK k \in 1..n :
          /\ CommonHeight(P) = k - 1
          /\ k \in 1..Len(blocks)
          /\ \A i \in 1..k : P[i] = blocks[i]
          /\ \A i \in (k + 1)..n : P[i] \notin ToSet(blocks)
    BY <1>2, <2>2 DEF Shared
  <2>4. Depth(h) = n
    <3>1. Depth(P[n]) = Depth(P[1]) + n - 1
      BY <1>2, PieceDepth
    <3>2. Depth(h) = Depth(P[n]) + 1
      BY <1>2, <2>1, DepthNext
    <3> QED
      BY <2>1, <2>2, <3>1, <3>2, DepthGenesis
  <2> DEFINE b == [place |-> n, hash |-> h]
  <2>5. CommonHeight(Q) = Compared(CommonHeight(P), b)
    BY <1>2, <2>1, CommonMore DEF Q
  <2>6. /\ h \notin ToSet(blocks) => CommonHeight(Q) = CommonHeight(P)
        /\ h \in ToSet(blocks) =>
             CommonHeight(Q) = n /\ n + 1 \in 1..Len(blocks) /\ blocks[n + 1] = h
    BY <2>1, <2>4, <2>5, ComparedAt
  <2> HIDE DEF b, n
  <2>7. CASE h \notin ToSet(blocks)
    <3>1. k \in 1..Len(Q) /\ CommonHeight(Q) = k - 1
      BY <2>1, <2>3, <2>6, <2>7
    <3>2. \A i \in 1..k : Q[i] = blocks[i]
      BY <2>1, <2>3
    <3>3. ASSUME NEW i \in (k + 1)..Len(Q)
          PROVE  Q[i] \notin ToSet(blocks)
      <4>1. i = n + 1 \/ i \in (k + 1)..n
        BY <2>1
      <4>2. i \in (k + 1)..n => i \in 1..n
        BY <2>1
      <4> QED
        BY <2>1, <2>3, <2>7, <4>1, <4>2
    <3> QED
      BY <2>3, <3>1, <3>2, <3>3 DEF Shared
  <2>8. CASE h \in ToSet(blocks)
    <3>1. /\ CommonHeight(Q) = n /\ n + 1 \in 1..Len(blocks) /\ blocks[n + 1] = h
      BY <2>6, <2>8
    <3>2. Header[blocks[n + 1]].prev = blocks[n]
      <4>1. n + 1 \in 2..Len(blocks) /\ (n + 1) - 1 = n
        BY <2>1, <3>1
      <4>2. Header[blocks[n + 1]].prev = blocks[(n + 1) - 1]
        BY <1>0, <4>1 DEF IsPiece
      <4> QED
        BY <4>1, <4>2
    <3>3. P[n] = blocks[n]
      BY <1>2, <3>1, <3>2 DEF n
    <3>4. P[n] \in ToSet(blocks)
      <4>1. n \in 1..Len(blocks)
        BY <1>0, <2>1, <3>1
      <4> QED
        BY <1>0, <3>3, <4>1 DEF ToSet
    <3>5. k = n
      <4>1. ASSUME k # n PROVE FALSE
        <5>1. n \in (k + 1)..n
          BY <2>1, <2>3, <4>1
        <5> QED
          BY <2>3, <3>4, <5>1
      <4> QED
        BY <4>1
    <3>6. n + 1 \in 1..Len(Q) /\ CommonHeight(Q) = (n + 1) - 1
      BY <2>1, <3>1
    <3>7. ASSUME NEW i \in 1..(n + 1)
          PROVE  Q[i] = blocks[i]
      <4>1. i \in 1..n \/ i = n + 1
        BY <2>1
      <4> QED
        BY <2>1, <2>3, <3>1, <3>5, <4>1
    <3>8. \A i \in ((n + 1) + 1)..Len(Q) : FALSE
      BY <2>1
    <3> QED
      BY <3>1, <3>6, <3>7, <3>8 DEF Shared
  <2> QED
    BY <2>7, <2>8
<1> HIDE DEF K
<1>3. \A Q : IsPiece(Q) => Q \in K
  BY <1>1, <1>2, PieceSet
<1> QED
  BY <1>3 DEF K

\* A prefix of the node's own blocks has no more work than all of them.
LEMMA PrefixLighter ==
  ASSUME IInv, Whole, NEW h \in Genuine, NEW k \in 1..Len(blocks), blocks[k] = h
  PROVE  ~ (Work(PathTo[h]) > Work(blocks))
<1> DEFINE P == PathTo[h]
           tip == blocks[Len(blocks)]
<1>1. IsPiece(P) /\ P[1] = Genesis /\ P[Len(P)] = h
  BY PathAtGenesis
<1>2. IsPiece(blocks) /\ blocks[1] = Genesis
  BY WholeBlocks
<1> HIDE DEF P
<1>3. WorkTo(h) = WorkTo(Genesis) + Work(P)
  BY <1>1, PieceWork
<1>4. WorkTo(tip) = WorkTo(Genesis) + Work(blocks)
  BY <1>2, PieceWork
<1>5. WorkTo(h) <= WorkTo(tip)
  BY <1>2, PieceRises
<1>6. /\ WorkTo(h) \in Nat /\ WorkTo(tip) \in Nat /\ WorkTo(Genesis) \in Nat
      /\ Work(P) \in Nat /\ Work(blocks) \in Nat
  BY <1>1, <1>2, PieceEnds, WorkToNat, WorkNat, GenesisIn
<1>7. Work(P) <= Work(blocks)
  <2> HIDE DEF tip
  <2> QED
    BY <1>3, <1>4, <1>5, <1>6
<1> QED
  BY <1>6, <1>7 DEF P

\* The range behind the common height, on the blocks up to there, is the posted chain.
LEMMA IncomingIs ==
  ASSUME IInv, Whole, NEW P, IsPiece(P), NEW k \in 1..Len(P), k \in 1..Len(blocks),
         \A i \in 1..k : P[i] = blocks[i], k < Len(P)
  PROVE  /\ SubSeq(P, k + 1, Len(P)) # <<>>
         /\ Incoming(Node, k, SubSeq(P, k + 1, Len(P))) = P
<1> DEFINE range == SubSeq(P, k + 1, Len(P))
           mine == SubSeq(blocks, 1, k)
           both == mine \o range
<1>1. /\ P \in Seq(Blk) /\ Len(P) \in Nat /\ k \in Nat /\ k >= 1
  BY PieceEnds
<1>2. /\ blocks \in Seq(Blk) /\ Len(blocks) \in Nat /\ k <= Len(blocks)
      /\ anchor.height = 0 /\ Height(Node) = Len(blocks) - 1
  BY WholeBlocks, PieceEnds
<1>3. /\ mine \in Seq(Blk) /\ Len(mine) = k /\ \A i \in 1..k : mine[i] = blocks[i]
  BY <1>1, <1>2
<1>4. /\ range \in Seq(Blk) /\ Len(range) = Len(P) - k
      /\ \A i \in 1..(Len(P) - k) : range[i] = P[k + i]
  BY <1>1
<1>5. Incoming(Node, k, range) = both
  <2> DEFINE c == k - 1
             d == Len(blocks) - 1
  <2>0. c \in Int /\ d \in Int /\ 0 \in Int /\ 0 <= c /\ c <= d
    BY <1>1, <1>2
  <2> HIDE DEF c, d
  <2>1. Max({0, c}) = c
    <3>1. Max({0, c}) \in {0, c} /\ Max({0, c}) >= 0 /\ Max({0, c}) >= c
      BY <2>0, MaxTwo, Zenon
    <3> QED
      BY <2>0, <3>1
  <2>2. Min({c, d}) = c
    <3>1. Min({c, d}) \in {c, d} /\ Min({c, d}) <= c /\ Min({c, d}) <= d
      BY <2>0, MinTwo, Zenon
    <3> QED
      BY <2>0, <3>1
  <2>3. k - 1 - 0 + 1 = k
    BY <1>1
  <2>4. Node.anchor.height = 0 /\ Node.blocks = blocks
    BY <1>2, NodeFields
  <2>5. Max({0, k - 1}) = k - 1 /\ Min({k - 1, Len(blocks) - 1}) = k - 1
    BY <2>1, <2>2 DEF c, d
  <2> HIDE DEF range
  <2> QED
    BY <1>2, <2>3, <2>4, <2>5 DEF Incoming
<1>6. both = P
  <2> HIDE DEF mine, range
  <2>1. /\ both \in Seq(Blk) /\ Len(both) = Len(P)
        /\ \A i \in 1..k : both[i] = mine[i]
        /\ \A i \in (k + 1)..Len(P) : both[i] = range[i - k]
    <3> DEFINE n == Len(P)
    <3>1. /\ k \in Nat /\ n \in Nat /\ k < n /\ mine \in Seq(Blk) /\ range \in Seq(Blk)
          /\ Len(mine) = k /\ Len(range) = n - k
      BY <1>1, <1>3, <1>4
    <3> HIDE DEF n
    <3>2. both \in Seq(Blk) /\ Len(both) = n
      BY <3>1
    <3>3. ASSUME NEW i \in 1..k PROVE both[i] = mine[i]
      BY <3>1
    <3>4. ASSUME NEW i \in (k + 1)..n PROVE both[i] = range[i - k]
      BY <3>1
    <3> QED
      BY <3>2, <3>3, <3>4 DEF n
  <2> HIDE DEF both
  <2>2. ASSUME NEW i \in 1..Len(P) PROVE both[i] = P[i]
    <3>1. CASE i \in 1..k
      BY <1>3, <2>1, <3>1
    <3>2. CASE i \in (k + 1)..Len(P)
      <4>1. i - k \in 1..(Len(P) - k) /\ k + (i - k) = i
        BY <1>1, <3>2
      <4> QED
        BY <1>4, <2>1, <3>2, <4>1
    <3> QED
      BY <1>1, <3>1, <3>2
  <2> QED
    BY <1>1, <2>1, <2>2
<1>7. range # <<>>
  <2> HIDE DEF range
  <2> QED
    BY <1>1, <1>4
<1> QED
  BY <1>5, <1>6, <1>7

LEMMA ForkTells ==
  ASSUME IInv, Whole, NEW h \in Genuine, ForkCompare(PathTo[h]).adopt
  PROVE  LET common == ForkCompare(PathTo[h]).common
             range == SubSeq(PathTo[h], common + 2, Depth(h) + 1)
         IN range # <<>> /\ Adoptable(Node, Incoming(Node, common + 1, range))
<1> DEFINE P == PathTo[h]
           common == ForkCompare(P).common
           range == SubSeq(P, common + 2, Depth(h) + 1)
<1>1. /\ IsPiece(P) /\ P[1] = Genesis /\ P[Len(P)] = h /\ Len(P) = Depth(h) + 1
      /\ Len(P) \in Nat \ {0}
  BY PathAtGenesis, PieceEnds
<1>2. Work(P) > Work(blocks) /\ common = CommonHeight(P)
  BY DEF ForkCompare
<1> HIDE DEF P
<1>3. PICK k \in 1..Len(P) :
        /\ CommonHeight(P) = k - 1
        /\ k \in 1..Len(blocks)
        /\ \A i \in 1..k : P[i] = blocks[i]
  BY <1>1, SharedPrefix DEF Shared
<1>4. k < Len(P)
  <2>1. ASSUME k = Len(P) PROVE FALSE
    <3>1. blocks[k] = h
      BY <1>1, <1>3, <2>1
    <3> QED
      BY <1>2, <1>3, <3>1, PrefixLighter DEF P
  <2> QED
    BY <1>1, <2>1
<1>5. range = SubSeq(P, k + 1, Len(P)) /\ common + 1 = k
  <2>1. common + 2 = k + 1 /\ common + 1 = k
    BY <1>1, <1>2, <1>3
  <2> HIDE DEF common
  <2> QED
    BY <1>1, <2>1
<1> HIDE DEF common, range
<1>6. range # <<>> /\ Incoming(Node, common + 1, range) = P
  BY <1>1, <1>3, <1>4, <1>5, IncomingIs
<1>7. Linked(P)
  BY <1>1 DEF IsPiece, Linked
<1>8. Replayed(P, Node.anchor).ok
  <2>1. Node.anchor = [height |-> 0, state |-> EmptyLedger]
    BY WholeBlocks, NodeFields
  <2>2. Replay(P, 0, EmptyLedger) = Reached(P[Len(P)])
    BY <1>1, PieceReplay, DepthGenesis, HeaderAssumption
  <2> QED
    BY <2>1, <2>2 DEF Replayed, Reached
<1>9. Adoptable(Node, P)
  BY <1>2, <1>7, <1>8, NodeFields DEF Adoptable
<1> QED
  BY <1>6, <1>9 DEF P, common, range

LEMMA InvDebug == IInv => DebugTells
<1> SUFFICES ASSUME IInv PROVE DebugTells
  OBVIOUS
<1>1. /\ StateRoot(LiveSnapshot.state) = LiveSnapshot.root
      /\ SnapshotOf(LiveSnapshot.tip)
           = [height |-> LiveSnapshot.height, state |-> LiveSnapshot.state]
  BY SnapshotTells
<1>2. ~ Whole => ~ ReplayVerify
  BY OnlyWholeVerifies
<1>3. Whole => \A p \in Place \cup {0} : PrefixValid(p)
  BY PrefixesValid
<1>4. ASSUME Whole, NEW h \in Genuine
      PROVE  \E told \in {ForkCompare(PathTo[h])} :
               LET range == SubSeq(PathTo[h], told.common + 2, Depth(h) + 1)
               IN told.adopt => /\ range # <<>>
                                /\ Adoptable(Node, Incoming(Node, told.common + 1, range))
  BY <1>4, ForkTells
<1> QED
  BY <1>1, <1>2, <1>3, <1>4 DEF DebugTells

(* The replay checks, fork-compare and the snapshot offered say what the    *)
(* node itself would do with its chain, with a posted one and in an import. *)
THEOREM DebuggingTells == Spec => []DebugTells
  BY Invariant, InvDebug, PTL
-----------------------------------------------------------------------------
(* What waits: a block that is no child of a known one, and nothing else.   *)

\* Nothing waits.
Bare(o) == o.blks = {} /\ o.order = <<>>

(* One block may wait, for a parent that the node does not have.  (The next *)
(* call sweeps it away, see PruneDangling, so it waits in vain.)            *)
Alone(o, known) ==
  \/ Bare(o)
  \/ \E h \in Blk : o.blks = {h} /\ Header[h].prev \notin known \cup {h}

LEMMA SelfFree == \A h \in Blk : Header[h].prev # h
<1>1. ASSUME NEW h \in Blk
      PROVE  Header[h].prev # h
  <2>1. {h} \in (SUBSET Blk) \ {{}}
    OBVIOUS
  <2>2. \E x \in {h} : Header[x].prev \notin {h}
    BY <2>1, HeaderAssumption
  <2> QED
    BY <2>2
<1> QED
  BY <1>1

LEMMA WithinNone ==
  ASSUME NEW S, NEW s \in Seq(S)
  PROVE  Within(s, {}) = <<>>
<1>1. Within(s, {}) \in Seq(S \cap {})
  BY Replaying!WithinSeq DEF Within, Replaying!Within
<1>2. S \cap {} = {}
  OBVIOUS
<1> QED
  BY <1>1, <1>2, EmptySeq

\* A removal takes all or, if nothing of it waits, nothing.
LEMMA RemoveAlone ==
  ASSUME NEW o, OrphansOk(o), NEW known, Alone(o, known), NEW hs
  PROVE  LET left == RemoveOrphans(o, hs)
         IN /\ Alone(left, known)
            /\ Bare(o) \/ o.blks \subseteq hs => Bare(left)
<1> DEFINE left == RemoveOrphans(o, hs)
<1>1. CASE hs \cap o.blks = {}
  <2>1. left = o
    BY <1>1 DEF RemoveOrphans
  <2>2. o.blks \subseteq hs => Bare(o)
    BY <1>1 DEF Alone, Bare
  <2> QED
    BY <2>1, <2>2
<1>2. CASE hs \cap o.blks # {}
  <2>1. o.blks \ (hs \cap o.blks) = {}
    BY <1>2 DEF Alone, Bare
  <2>2. left.blks = {} /\ left.order = Within(o.order, {})
    BY <1>2, <2>1 DEF RemoveOrphans
  <2>3. Bare(left)
    BY <2>2, WithinNone DEF Bare, OrphansOk
  <2> QED
    BY <2>3 DEF Alone
<1> QED
  BY <1>1, <1>2

\* Whoever waits alone is in the subtree of itself.
LEMMA RootInSubtree ==
  ASSUME NEW o, NEW h, o.blks = {h}
  PROVE  h \in Subtree(o, h)
<1> DEFINE Grow(set) == set \cup UNION {Children(o, x) : x \in set}
           Solved(f) == f = [n \in 0..1 |-> IF n = 0 THEN {h} ELSE Grow(f[n - 1])]
           two == [n \in 0..1 |-> IF n = 0 THEN {h} ELSE Grow({h})]
           reach == CHOOSE f : Solved(f)
<1>1. Cardinality(o.blks) = 1
  BY FS_Singleton
<1>2. Subtree(o, h) = reach[1]
  BY <1>1 DEF Subtree
<1>3. Solved(two)
  <2> DEFINE Do(f, n) == IF n = 0 THEN {h} ELSE Grow(f[n - 1])
             rhs == [n \in 0..1 |-> Do(two, n)]
  <2> HIDE DEF Grow
  <2>1. \A n \in 0..1 : n = 0 \/ n = 1
    OBVIOUS
  <2>2. two[0] = {h} /\ two[1] = Grow({h}) /\ 1 - 1 = 0
    OBVIOUS
  <2> HIDE DEF two
  <2>3. Do(two, 0) = two[0] /\ Do(two, 1) = two[1]
    BY <2>2
  <2>4. \A n \in 0..1 : two[n] = Do(two, n)
    BY <2>1, <2>3
  <2>5. two = [n \in 0..1 |-> two[n]]
    BY DEF two
  <2> HIDE DEF Do
  <2>6. two = rhs
    BY <2>4, <2>5
  <2> QED
    BY <2>6 DEF Do
<1>4. Solved(reach)
  BY <1>3
<1> HIDE DEF reach, two
<1>5. reach[0] = {h} /\ reach[1] = Grow(reach[0])
  <2> HIDE DEF Grow
  <2> QED
    BY <1>4
<1> QED
  BY <1>2, <1>5

\* Of who waits alone every one dangles, so that a sweep leaves nothing.
LEMMA SweepBare ==
  ASSUME NEW o, OrphansOk(o), NEW known, Alone(o, known)
  PROVE  Bare(PruneOrphans(o, known))
<1> DEFINE mid == PruneExpired(o)
           roots == Dangling(mid, known)
           left == PruneDangling(mid, known)
<1>1. OrphansOk(mid) /\ Alone(mid, known)
  BY RemoveAlone, RemoveSubtreesOk DEF PruneExpired, RemoveSubtrees
<1>2. left = RemoveOrphans(mid, UNION {Subtree(mid, h) : h \in roots})
  BY DEF PruneDangling, RemoveSubtrees
<1> HIDE DEF mid, left
<1>3. Bare(left)
  <2>1. CASE Bare(mid)
    BY <1>1, <1>2, <2>1, RemoveAlone
  <2>2. CASE ~ Bare(mid)
    <3>1. PICK h \in Blk : mid.blks = {h} /\ Header[h].prev \notin known \cup {h}
      BY <1>1, <2>2 DEF Alone
    <3>2. h \in roots /\ h \in Subtree(mid, h)
      BY <3>1, RootInSubtree DEF Dangling
    <3> HIDE DEF roots
    <3>3. mid.blks \subseteq UNION {Subtree(mid, x) : x \in roots}
      BY <3>1, <3>2
    <3> QED
      BY <1>1, <1>2, <3>3, RemoveAlone
  <2> QED
    BY <2>1, <2>2
<1>4. PruneOrphans(o, known) = EvictOldest(left)
  BY DEF PruneOrphans, left, mid
<1>5. EvictOldest(left) = left
  <2>1. Cardinality(left.blks) = 0 /\ MaxOrphans \in Nat
    BY <1>3, FS_EmptySet, OrphanAssumption DEF Bare
  <2> QED
    BY <2>1 DEF EvictOldest
<1> QED
  BY <1>3, <1>4, <1>5

\* A block is put into a pool that has just been swept.
LEMMA StoreAlone ==
  ASSUME NEW o, OrphansOk(o), NEW known, Alone(o, known),
         NEW h \in Blk, h \notin known, Header[h].prev \notin known
  PROVE  Alone(StoreOrphan(o, h, known), known)
<1> DEFINE kept == PruneOrphans(o, known)
           p == Header[h].prev
           stored == [kept EXCEPT
                        !.blks = @ \cup {h},
                        !.order = Append(@, h),
                        !.byPrev = [q \in DOMAIN @ \cup {p} |->
                                      IF q = p THEN Children(kept, p) \cup {h} ELSE @[q]]]
<1>1. OrphansOk(kept) /\ Bare(kept)
  BY PruneOrphansOk, SweepBare
<1>2. StoreOrphan(o, h, known) = IF h \in known \cup kept.blks THEN kept ELSE EvictOldest(stored)
  BY DEF StoreOrphan
<1> HIDE DEF kept
<1>3. stored.blks = {h}
  BY <1>1 DEF OrphansOk, Bare
<1> HIDE DEF stored
<1>4. EvictOldest(stored) = stored
  <2>1. Cardinality(stored.blks) = 1 /\ MaxOrphans \in Nat \ {0}
    BY <1>3, FS_Singleton, OrphanAssumption
  <2> QED
    BY <2>1 DEF EvictOldest
<1>5. p # h
  BY SelfFree
<1> QED
  BY <1>1, <1>2, <1>3, <1>4, <1>5 DEF Alone, Bare
-----------------------------------------------------------------------------
(* The transfers of a chain move the confirmed nonces one by one.           *)

\* The nonces of the transfers s that a sends.
NoncesIn(s, a) == {s[i].nonce : i \in {j \in DOMAIN s : s[j].from = a}}

\* Confirming s, in this order, takes the nonces from to the nonces to.
Walk(s, from, to) ==
  /\ s \in Seq(Tx)
  /\ \A i, j \in DOMAIN s : i < j /\ s[i].from = s[j].from => s[i].nonce < s[j].nonce
  /\ \A a : /\ Num(from, a) \in Nat /\ Num(to, a) \in Nat /\ Num(from, a) <= Num(to, a)
            /\ NoncesIn(s, a) = (Num(from, a) + 1)..Num(to, a)

LEMMA WalkNone ==
  ASSUME NEW from, \A a : Num(from, a) \in Nat
  PROVE  Walk(<<>>, from, from)
<1>1. \A a : NoncesIn(<<>>, a) = {} /\ (Num(from, a) + 1)..Num(from, a) = {}
  BY DEF NoncesIn
<1>2. <<>> \in Seq(Tx) /\ DOMAIN <<>> = {}
  OBVIOUS
<1> QED
  BY <1>1, <1>2 DEF Walk

LEMMA NoncesInAppend ==
  ASSUME NEW q \in Seq(Tx), NEW t \in Tx, NEW a
  PROVE  NoncesIn(Append(q, t), a)
           = IF t.from = a THEN NoncesIn(q, a) \cup {t.nonce} ELSE NoncesIn(q, a)
<1> DEFINE s == Append(q, t)
           l == Len(q)
<1>1. /\ DOMAIN s = 1..(l + 1) /\ DOMAIN q = 1..l /\ l \in Nat
      /\ s[l + 1] = t /\ \A i \in 1..l : s[i] = q[i]
  OBVIOUS
<1> HIDE DEF s, l
<1>2. 1..(l + 1) = 1..l \cup {l + 1}
  BY <1>1
<1> QED
  BY <1>1, <1>2 DEF NoncesIn, s

LEMMA WalkMore ==
  ASSUME NEW q, NEW from, NEW to, Walk(q, from, to), NEW t \in Tx,
         t.nonce = Num(to, t.from) + 1
  PROVE  Walk(Append(q, t), from, Put(to, t.from, t.nonce))
<1> DEFINE s == Append(q, t)
           l == Len(q)
           next == Put(to, t.from, t.nonce)
<1>1. /\ q \in Seq(Tx) /\ l \in Nat /\ DOMAIN q = 1..l
      /\ \A i, j \in 1..l : i < j /\ q[i].from = q[j].from => q[i].nonce < q[j].nonce
  BY DEF Walk
<1>2. \A a : /\ Num(from, a) \in Nat /\ Num(to, a) \in Nat /\ Num(from, a) <= Num(to, a)
             /\ NoncesIn(q, a) = (Num(from, a) + 1)..Num(to, a)
  BY DEF Walk
<1>3. /\ s \in Seq(Tx) /\ DOMAIN s = 1..(l + 1) /\ s[l + 1] = t
      /\ \A i \in 1..l : s[i] = q[i]
  BY <1>1
<1>4. \A a : Num(next, a) = IF a = t.from THEN t.nonce ELSE Num(to, a)
  BY NumPut
<1>5. \A a : NoncesIn(s, a)
               = IF t.from = a THEN NoncesIn(q, a) \cup {t.nonce} ELSE NoncesIn(q, a)
  BY <1>1, NoncesInAppend
<1> HIDE DEF s, l, next
<1>6. ASSUME NEW i \in 1..(l + 1), NEW j \in 1..(l + 1), i < j, s[i].from = s[j].from
      PROVE  s[i].nonce < s[j].nonce
  <2>1. i \in 1..l /\ s[i] = q[i]
    BY <1>1, <1>3, <1>6
  <2>2. CASE j \in 1..l
    BY <1>1, <1>3, <1>6, <2>1, <2>2
  <2>3. CASE j = l + 1
    <3>1. s[j] = t /\ q[i].from = t.from
      BY <1>3, <1>6, <2>1, <2>3
    <3>2. q[i].nonce \in NoncesIn(q, t.from)
      BY <1>1, <2>1, <3>1 DEF NoncesIn
    <3> DEFINE a == t.from
               top == Num(to, a)
    <3>3. q[i].nonce \in (Num(from, a) + 1)..top /\ top \in Nat /\ Num(from, a) \in Nat
      BY <1>2, <3>2
    <3>4. t.nonce = top + 1
      OBVIOUS
    <3> HIDE DEF top, a
    <3>5. q[i].nonce < t.nonce
      BY <3>3, <3>4
    <3> QED
      BY <2>1, <3>1, <3>5
  <2> QED
    BY <1>1, <2>2, <2>3
<1>7. ASSUME NEW a
      PROVE  /\ Num(from, a) \in Nat /\ Num(next, a) \in Nat /\ Num(from, a) <= Num(next, a)
             /\ NoncesIn(s, a) = (Num(from, a) + 1)..Num(next, a)
  <2> DEFINE low == Num(from, a)
             top == Num(to, a)
  <2>1. low \in Nat /\ top \in Nat /\ low <= top /\ NoncesIn(q, a) = (low + 1)..top
    BY <1>2
  <2>2. CASE a = t.from
    <3>1. Num(next, a) = top + 1 /\ NoncesIn(s, a) = NoncesIn(q, a) \cup {top + 1}
      BY <1>4, <1>5, <2>2
    <3> HIDE DEF low, top
    <3>2. (low + 1)..top \cup {top + 1} = (low + 1)..(top + 1)
      BY <2>1
    <3>3. NoncesIn(s, a) = (low + 1)..Num(next, a) /\ Num(next, a) \in Nat /\ low <= Num(next, a)
      BY <2>1, <3>1, <3>2
    <3> QED
      BY <2>1, <3>3 DEF low
  <2>3. CASE a # t.from
    BY <1>4, <1>5, <2>1, <2>3
  <2> QED
    BY <2>2, <2>3
<1> QED
  BY <1>3, <1>6, <1>7 DEF Walk, s, next

\* One walk after the other.
LEMMA WalkOn ==
  ASSUME NEW q, NEW s, NEW from, NEW mid, NEW to, Walk(q, from, mid), Walk(s, mid, to)
  PROVE  /\ Walk(q \o s, from, to)
         /\ ToSet(q \o s) = ToSet(q) \cup ToSet(s)
<1> DEFINE r == q \o s
           k == Len(q)
           l == Len(s)
<1>1. /\ q \in Seq(Tx) /\ k \in Nat /\ DOMAIN q = 1..k
      /\ s \in Seq(Tx) /\ l \in Nat /\ DOMAIN s = 1..l
      /\ \A i, j \in 1..k : i < j /\ q[i].from = q[j].from => q[i].nonce < q[j].nonce
      /\ \A i, j \in 1..l : i < j /\ s[i].from = s[j].from => s[i].nonce < s[j].nonce
  BY DEF Walk
<1>2. \A a : /\ Num(from, a) \in Nat /\ Num(mid, a) \in Nat /\ Num(from, a) <= Num(mid, a)
             /\ NoncesIn(q, a) = (Num(from, a) + 1)..Num(mid, a)
  BY DEF Walk
<1>3. \A a : /\ Num(mid, a) \in Nat /\ Num(to, a) \in Nat /\ Num(mid, a) <= Num(to, a)
             /\ NoncesIn(s, a) = (Num(mid, a) + 1)..Num(to, a)
  BY DEF Walk
<1>4. /\ r \in Seq(Tx) /\ DOMAIN r = 1..(k + l)
      /\ \A i \in 1..k : r[i] = q[i]
      /\ \A i \in 1..l : r[k + i] = s[i]
  BY <1>1
<1> HIDE DEF r, k, l
<1>5. \A i \in 1..(k + l) : i \in 1..k \/ \E j \in 1..l : i = k + j
  <2>1. ASSUME NEW i \in 1..(k + l), i \notin 1..k
        PROVE  \E j \in 1..l : i = k + j
    <3>1. i - k \in 1..l /\ i = k + (i - k)
      BY <1>1, <2>1
    <3> QED
      BY <3>1
  <2> QED
    BY <2>1
<1>6. \A a : NoncesIn(r, a) = NoncesIn(q, a) \cup NoncesIn(s, a)
  <2>1. ASSUME NEW a, NEW i \in 1..k, q[i].from = a
        PROVE  q[i].nonce \in NoncesIn(r, a)
    <3>1. i \in 1..(k + l) /\ r[i] = q[i]
      BY <1>1, <1>4
    <3> QED
      BY <1>4, <2>1, <3>1 DEF NoncesIn
  <2>2. ASSUME NEW a, NEW i \in 1..l, s[i].from = a
        PROVE  s[i].nonce \in NoncesIn(r, a)
    <3>1. k + i \in 1..(k + l) /\ r[k + i] = s[i]
      BY <1>1, <1>4
    <3> QED
      BY <1>4, <2>2, <3>1 DEF NoncesIn
  <2>3. ASSUME NEW a, NEW i \in 1..(k + l), r[i].from = a
        PROVE  r[i].nonce \in NoncesIn(q, a) \cup NoncesIn(s, a)
    <3>1. CASE i \in 1..k
      BY <1>1, <1>4, <2>3, <3>1 DEF NoncesIn
    <3>2. CASE \E j \in 1..l : i = k + j
      BY <1>1, <1>4, <2>3, <3>2 DEF NoncesIn
    <3> QED
      BY <1>5, <3>1, <3>2
  <2>4. \A a : NoncesIn(q, a) \cup NoncesIn(s, a) \subseteq NoncesIn(r, a)
    BY <1>1, <2>1, <2>2 DEF NoncesIn
  <2>5. \A a : NoncesIn(r, a) \subseteq NoncesIn(q, a) \cup NoncesIn(s, a)
    <3>1. ASSUME NEW a, NEW x \in NoncesIn(r, a)
          PROVE  x \in NoncesIn(q, a) \cup NoncesIn(s, a)
      <4>1. PICK i \in 1..(k + l) : r[i].from = a /\ x = r[i].nonce
        BY <1>4, <3>1 DEF NoncesIn
      <4> QED
        BY <2>3, <4>1
    <3> QED
      BY <3>1
  <2> QED
    BY <2>4, <2>5
<1>7. ASSUME NEW a
      PROVE  /\ Num(from, a) \in Nat /\ Num(to, a) \in Nat /\ Num(from, a) <= Num(to, a)
             /\ NoncesIn(r, a) = (Num(from, a) + 1)..Num(to, a)
  <2> DEFINE low == Num(from, a)
             half == Num(mid, a)
             top == Num(to, a)
  <2>1. /\ low \in Nat /\ half \in Nat /\ top \in Nat /\ low <= half /\ half <= top
        /\ NoncesIn(r, a) = (low + 1)..half \cup (half + 1)..top
    BY <1>2, <1>3, <1>6
  <2> HIDE DEF low, half, top
  <2>2. (low + 1)..half \cup (half + 1)..top = (low + 1)..top
    BY <2>1
  <2> QED
    BY <2>1, <2>2 DEF low, top
<1>8. ASSUME NEW i \in 1..(k + l), NEW j \in 1..(k + l), i < j, r[i].from = r[j].from
      PROVE  r[i].nonce < r[j].nonce
  <2>1. CASE i \in 1..k /\ j \in 1..k
    BY <1>1, <1>4, <1>8, <2>1
  <2>2. CASE i \in 1..k /\ \E m \in 1..l : j = k + m
    <3>1. PICK m \in 1..l : j = k + m
      BY <2>2
    <3> DEFINE a == r[i].from
               x == r[i].nonce
               y == r[j].nonce
               low == Num(from, a)
               half == Num(mid, a)
               top == Num(to, a)
    <3>2. x \in NoncesIn(q, a) /\ y \in NoncesIn(s, a)
      BY <1>1, <1>4, <1>8, <2>2, <3>1 DEF NoncesIn
    <3>3. x \in (low + 1)..half /\ y \in (half + 1)..top
          /\ low \in Nat /\ half \in Nat /\ top \in Nat
      BY <1>2, <1>3, <3>2
    <3> HIDE DEF a, x, y, low, half, top
    <3>4. x < y
      BY <3>3
    <3> QED
      BY <3>4 DEF x, y
  <2>3. CASE \E m \in 1..l, n \in 1..l : i = k + m /\ j = k + n
    <3>1. PICK m \in 1..l, n \in 1..l : i = k + m /\ j = k + n
      BY <2>3
    <3>2. m < n /\ r[i] = s[m] /\ r[j] = s[n]
      BY <1>1, <1>4, <1>8, <3>1
    <3> QED
      BY <1>1, <1>8, <3>2
  <2>4. ~ (j \in 1..k /\ \E m \in 1..l : i = k + m)
    BY <1>1, <1>8
  <2> QED
    BY <1>5, <2>1, <2>2, <2>3, <2>4
<1>9. Walk(r, from, to)
  BY <1>4, <1>7, <1>8 DEF Walk
<1>10. ToSet(r) = ToSet(q) \cup ToSet(s)
  <2>1. ToSet(q) \cup ToSet(s) \subseteq ToSet(r)
    <3>1. \A i \in 1..k : i \in 1..(k + l) /\ q[i] = r[i]
      BY <1>1, <1>4
    <3>2. \A i \in 1..l : k + i \in 1..(k + l) /\ s[i] = r[k + i]
      BY <1>1, <1>4
    <3> QED
      BY <1>1, <1>4, <3>1, <3>2 DEF ToSet
  <2>2. ToSet(r) \subseteq ToSet(q) \cup ToSet(s)
    <3>1. ASSUME NEW i \in 1..(k + l)
          PROVE  r[i] \in ToSet(q) \cup ToSet(s)
      <4>1. CASE i \in 1..k
        BY <1>1, <1>4, <4>1 DEF ToSet
      <4>2. CASE \E j \in 1..l : i = k + j
        BY <1>1, <1>4, <4>2 DEF ToSet
      <4> QED
        BY <1>5, <4>1, <4>2
    <3> QED
      BY <1>4, <3>1 DEF ToSet
  <2> QED
    BY <2>1, <2>2
<1> QED
  BY <1>9, <1>10 DEF r
-----------------------------------------------------------------------------
(* The ledger after a block, as far as the pool reads it.                   *)

\* All that a ledger has numbers of is accounts.
Housed(st) ==
  /\ st = [bal |-> st.bal, nonce |-> st.nonce, pend |-> st.pend, minted |-> st.minted]
  /\ DOMAIN st.bal \subseteq Account /\ DOMAIN st.nonce \subseteq Account
  /\ \A p \in st.pend : p.to \in Account

LEMMA UnlockHoused ==
  ASSUME NEW st, Housed(st), NEW height
  PROVE  Housed(UnlockMatured(st, height)) /\ UnlockMatured(st, height).nonce = st.nonce
<1> DEFINE ripe == {p \in st.pend : p.unlock <= height}
           RipeOf(a) == Amounts({p \in ripe : p.to = a})
           bal == [a \in DOMAIN st.bal \cup {p.to : p \in ripe} |-> Num(st.bal, a) + RipeOf(a)]
           next == UnlockMatured(st, height)
<1>1. next = [bal |-> bal, nonce |-> st.nonce, pend |-> st.pend \ ripe, minted |-> st.minted]
  <2>1. st = [bal |-> st.bal, nonce |-> st.nonce, pend |-> st.pend, minted |-> st.minted]
    BY DEF Housed
  <2>2. next = [st EXCEPT !.bal = bal, !.pend = st.pend \ ripe]
    BY DEF UnlockMatured
  <2> HIDE DEF bal, ripe, next
  <2> QED
    BY <2>1, <2>2
<1>2. DOMAIN bal \subseteq Account /\ ripe \subseteq st.pend
  BY DEF Housed
<1> HIDE DEF next, bal, ripe
<1> QED
  BY <1>1, <1>2 DEF Housed, next

LEMMA CoinbaseHoused ==
  ASSUME NEW st, Housed(st), NEW b, b.miner \in Account, NEW n
  PROVE  Housed(PayCoinbase(st, b, n)) /\ PayCoinbase(st, b, n).nonce = st.nonce
<1> DEFINE next == PayCoinbase(st, b, n)
           pend == st.pend \cup {RewardOf(b, n)}
           minted == st.minted + BlockReward(n)
<1>1. next = [bal |-> st.bal, nonce |-> st.nonce, pend |-> pend, minted |-> minted]
  <2>1. st = [bal |-> st.bal, nonce |-> st.nonce, pend |-> st.pend, minted |-> st.minted]
    BY DEF Housed
  <2>2. next = [st EXCEPT !.pend = pend, !.minted = minted]
    BY DEF PayCoinbase
  <2> HIDE DEF pend, minted, next
  <2> QED
    BY <2>1, <2>2
<1>2. \A p \in pend : p.to \in Account
  BY DEF Housed, RewardOf
<1> HIDE DEF next, pend, minted
<1> QED
  BY <1>1, <1>2 DEF Housed, next

LEMMA TransferHoused ==
  ASSUME NEW st, Housed(st), NEW t \in Tx
  PROVE  /\ Housed(Transfer(st, t))
         /\ Transfer(st, t).nonce = Put(st.nonce, t.from, t.nonce)
<1> DEFINE next == Transfer(st, t)
           paid == Put(st.bal, t.from, Num(st.bal, t.from) - Cost(t))
           bal == Put(paid, t.to, Num(paid, t.to) + t.amount)
           nonce == Put(st.nonce, t.from, t.nonce)
<1>1. next = [bal |-> bal, nonce |-> nonce, pend |-> st.pend, minted |-> st.minted]
  <2>1. st = [bal |-> st.bal, nonce |-> st.nonce, pend |-> st.pend, minted |-> st.minted]
    BY DEF Housed
  <2>2. next = [st EXCEPT !.bal = bal, !.nonce = nonce]
    BY DEF Transfer
  <2> HIDE DEF bal, nonce, next
  <2> QED
    BY <2>1, <2>2
<1>2. t.from \in Account /\ t.to \in Account
  <2>1. t \in TransferType
    BY ChainAssumption
  <2> QED
    BY <2>1 DEF TransferType
<1>3. \A m, k, v : DOMAIN Put(m, k, v) = DOMAIN m \cup {k}
  BY DEF Put
<1>4. DOMAIN bal \subseteq Account /\ DOMAIN nonce \subseteq Account
  <2>1. DOMAIN st.bal \subseteq Account /\ DOMAIN st.nonce \subseteq Account
    BY DEF Housed
  <2>2. DOMAIN paid = DOMAIN st.bal \cup {t.from}
    BY <1>3
  <2>3. DOMAIN bal = DOMAIN paid \cup {t.to}
    BY <1>3
  <2>4. DOMAIN nonce = DOMAIN st.nonce \cup {t.from}
    BY <1>3
  <2> HIDE DEF bal, paid, nonce
  <2> QED
    BY <1>2, <2>1, <2>2, <2>3, <2>4
<1> HIDE DEF next, paid, bal, nonce
<1> QED
  BY <1>1, <1>4 DEF Housed, next, nonce

\* Where the transfers s, accepted one by one after q, have taken the ledger.
Walked(start, q, from, s) ==
  LET end == Applying!Fold(start, s)
  IN /\ "ok" \in DOMAIN end /\ "st" \in DOMAIN end
     /\ end.ok => start.ok /\ Housed(end.st) /\ Walk(q \o s, from, end.st.nonce)

LEMMA BodyWalked ==
  ASSUME NEW start, "ok" \in DOMAIN start, "st" \in DOMAIN start, Housed(start.st),
         NEW q, NEW from, Walk(q, from, start.st.nonce), NEW s \in Seq(Tx)
  PROVE  Walked(start, q, from, s)
<1> DEFINE K == {r \in Seq(Tx) : Walked(start, q, from, r)}
<1>0. q \in Seq(Tx)
  BY DEF Walk
<1>1. <<>> \in K
  <2>1. Applying!Fold(start, <<>>) = start
    BY Applying!FoldEmpty
  <2>2. q \o <<>> = q
    BY <1>0
  <2>3. Walked(start, q, from, <<>>)
    BY <2>1, <2>2 DEF Walked
  <2> QED
    BY <2>3
<1>2. ASSUME NEW r \in Seq(Tx), NEW t \in Tx, r \in K
      PROVE  Append(r, t) \in K
  <2> DEFINE a == Append(r, t)
             before == Applying!Fold(start, r)
             after == Applying!Fold(start, a)
  <2>1. a \in Seq(Tx) /\ q \o a = Append(q \o r, t)
    <3>1. a \in Seq(Tx) /\ <<t>> \in Seq(Tx) /\ q \o r \in Seq(Tx)
      BY <1>0, AppendProperties, ConcatProperties
    <3>2. a = r \o <<t>> /\ Append(q \o r, t) = (q \o r) \o <<t>>
      BY <3>1, AppendIsConcat
    <3> QED
      BY <1>0, <3>1, <3>2, ConcatAssociative
  <2>2. after = ApplyTransfer(before, t)
    BY Applying!FoldAppend
  <2>3. /\ "ok" \in DOMAIN before /\ "st" \in DOMAIN before
        /\ before.ok => start.ok /\ Housed(before.st) /\ Walk(q \o r, from, before.st.nonce)
    BY <1>2 DEF Walked
  <2> HIDE DEF before, a
  <2>4. /\ "ok" \in DOMAIN after /\ "st" \in DOMAIN after
        /\ after.ok => before.ok /\ TransferOk(before.st, t) /\ after.st = Transfer(before.st, t)
    <3> DEFINE go == [before EXCEPT !.st = Transfer(@, t)]
               stay == [before EXCEPT !.ok = FALSE]
    <3>1. after = IF before.ok /\ TransferOk(before.st, t) THEN go ELSE stay
      BY <2>2 DEF ApplyTransfer
    <3>2. /\ "ok" \in DOMAIN go /\ "st" \in DOMAIN go /\ go.st = Transfer(before.st, t)
          /\ "ok" \in DOMAIN stay /\ "st" \in DOMAIN stay /\ stay.ok = FALSE
      BY <2>3
    <3> HIDE DEF go, stay, after
    <3> QED
      BY <3>1, <3>2
  <2> HIDE DEF after
  <2>5. ASSUME after.ok
        PROVE  start.ok /\ Housed(after.st) /\ Walk(q \o a, from, after.st.nonce)
    <3>1. before.ok /\ TransferOk(before.st, t) /\ after.st = Transfer(before.st, t)
      BY <2>4, <2>5
    <3>2. start.ok /\ Housed(before.st) /\ Walk(q \o r, from, before.st.nonce)
      BY <2>3, <3>1
    <3>3. Housed(after.st) /\ after.st.nonce = Put(before.st.nonce, t.from, t.nonce)
      BY <3>1, <3>2, TransferHoused
    <3>4. t.nonce = Num(before.st.nonce, t.from) + 1
      BY <3>1 DEF TransferOk
    <3>5. Walk(Append(q \o r, t), from, after.st.nonce)
      BY <3>2, <3>3, <3>4, WalkMore
    <3> QED
      BY <2>1, <3>2, <3>3, <3>5
  <2>6. Walked(start, q, from, a)
    BY <2>4, <2>5 DEF Walked, after
  <2> QED
    BY <2>1, <2>6 DEF a
<1> HIDE DEF K
<1>3. Seq(Tx) \subseteq K
  BY <1>1, <1>2, Replaying!SeqSet
<1> QED
  BY <1>3 DEF K

LEMMA BlockWalked ==
  ASSUME NEW st, Housed(st), NEW n, NEW b, b.miner \in Account, b.txs \in Seq(Tx),
         \A a : Num(st.nonce, a) \in Nat, PostState(st, b, n).ok
  PROVE  /\ Housed(PostState(st, b, n).st)
         /\ Walk(b.txs, st.nonce, PostState(st, b, n).st.nonce)
<1> DEFINE unlocked == UnlockMatured(st, n)
           start == [ok |-> CoinbaseOk(unlocked, b, n), st |-> PayCoinbase(unlocked, b, n)]
           body == ApplyBody(st, b, n)
           end == PostState(st, b, n)
           from == st.nonce
           s == b.txs
<1>1. Housed(unlocked) /\ unlocked.nonce = from
  BY UnlockHoused
<1>2. /\ "ok" \in DOMAIN start /\ "st" \in DOMAIN start
      /\ start.st = PayCoinbase(unlocked, b, n)
  OBVIOUS
<1>3. body = Applying!Fold(start, s)
  BY BodyFolds
<1>4. end = [ok |-> body.ok, st |-> IF body.ok THEN UnlockMatured(body.st, n) ELSE st]
  BY DEF PostState
<1>5. end.ok
  OBVIOUS
<1>6. \A a : Num(from, a) \in Nat
  OBVIOUS
<1>7. s \in Seq(Tx)
  OBVIOUS
<1> HIDE DEF start, unlocked, body, end, from, s
<1>8. Housed(start.st) /\ start.st.nonce = from
  BY <1>1, <1>2, CoinbaseHoused
<1>9. Walk(<<>>, from, start.st.nonce)
  BY <1>6, <1>8, WalkNone
<1>10. Walked(start, <<>>, from, s)
  BY <1>2, <1>7, <1>8, <1>9, BodyWalked
<1>11. body.ok /\ end.st = UnlockMatured(body.st, n)
  <2>1. body.ok
    BY <1>4, <1>5
  <2> QED
    BY <1>4, <2>1
<1>12. Housed(body.st) /\ Walk(<<>> \o s, from, body.st.nonce)
  BY <1>3, <1>10, <1>11 DEF Walked
<1>13. Housed(end.st) /\ end.st.nonce = body.st.nonce
  BY <1>11, <1>12, UnlockHoused
<1>14. <<>> \o s = s
  BY <1>7
<1> QED
  BY <1>12, <1>13, <1>14 DEF end, from, s

-----------------------------------------------------------------------------
(* The ledgers of genuine blocks. *)

LEMMA BodyTypes == \A h \in Blk : Header[h].txs \in Seq(Tx) /\ ToSet(Header[h].txs) \in SUBSET Tx
<1>1. ASSUME NEW h \in Blk
      PROVE  Header[h].txs \in Seq(Tx) /\ ToSet(Header[h].txs) \in SUBSET Tx
  <2> DEFINE s == Header[h].txs
  <2>1. s \in Seq(TransferType) /\ ToSet(s) \subseteq Tx
    BY HeaderAssumption, TransferAssumption
  <2> HIDE DEF s
  <2>2. Len(s) \in Nat /\ DOMAIN s = 1..Len(s) /\ \A i \in 1..Len(s) : s[i] \in Tx
    BY <2>1 DEF ToSet
  <2>3. s \in [1..Len(s) -> Tx]
    BY <2>1, <2>2
  <2>4. s \in Seq(Tx)
    BY <2>2, <2>3
  <2> QED
    BY <2>1, <2>4 DEF s
<1> QED
  BY <1>1

\* The nonces are numbers, and the accounts' last transfers are all signed.
Nonced(st) ==
  /\ Housed(st)
  /\ \E s : Walk(s, EmptyMap, st.nonce)

LEMMA NoncedNat ==
  ASSUME NEW st, Nonced(st)
  PROVE  \A a : Num(st.nonce, a) \in Nat
  BY DEF Nonced, Walk

\* A valid block confirms what it holds, from its parent's nonces to its own.
LEMMA GenuineWalks ==
  ASSUME NEW h \in Genuine, h # Genesis, Nonced(Header[Header[h].prev].root)
  PROVE  /\ Walk(Header[h].txs, Header[Header[h].prev].root.nonce, Header[h].root.nonce)
         /\ Nonced(Header[h].root)
<1> DEFINE p == Header[h].prev
           b == Header[h]
           n == Depth(h)
           st == Header[p].root
<1>1. h \in Blk /\ p \in Genuine /\ p \in Blk /\ n = Depth(p) + 1
  <2>1. h \in Blk
    BY DEF Genuine
  <2>2. p \in Genuine
    BY GenuineParent
  <2> QED
    BY <2>1, <2>2, DepthNext
<1>2. Validate(h, n, st).ok /\ Validate(h, n, st).st = b.root
  BY <1>1, GenuineValid
<1>3. PostState(st, b, n).ok /\ PostState(st, b, n).st = b.root
  BY <1>2 DEF Validate
<1>4. b.miner \in Account /\ b.txs \in Seq(Tx)
  BY <1>1, HeaderAssumption, BodyTypes
<1>5. Nonced(st)
  OBVIOUS
<1> HIDE DEF p, b, n, st
<1>6. Housed(st) /\ \A a : Num(st.nonce, a) \in Nat
  BY <1>5, NoncedNat DEF Nonced
<1>7. Housed(b.root) /\ Walk(b.txs, st.nonce, b.root.nonce)
  BY <1>3, <1>4, <1>6, BlockWalked
<1>8. PICK s : Walk(s, EmptyMap, st.nonce)
  BY <1>5 DEF Nonced
<1>9. Walk(s \o b.txs, EmptyMap, b.root.nonce)
  BY <1>7, <1>8, WalkOn
<1>10. Nonced(b.root)
  BY <1>7, <1>9 DEF Nonced
<1> QED
  BY <1>7, <1>10 DEF b, st, p

LEMMA GenuineNonced == \A h \in Genuine : Nonced(Header[h].root)
<1> DEFINE K == {h \in Blk : h \in Genuine => Nonced(Header[h].root)}
<1>1. Genesis \in K
  <2>1. Header[Genesis].root = EmptyLedger
    BY HeaderAssumption
  <2>2. Housed(EmptyLedger) /\ EmptyLedger.nonce = EmptyMap
    BY DEF Housed, EmptyLedger, EmptyMap
  <2>3. \A a : Num(EmptyMap, a) \in Nat
    BY DEF Num, EmptyMap
  <2>4. Walk(<<>>, EmptyMap, EmptyMap)
    BY <2>3, WalkNone
  <2>5. Nonced(EmptyLedger)
    BY <2>2, <2>4 DEF Nonced
  <2> QED
    BY <2>1, <2>5, GenesisIn
<1>2. ASSUME NEW h \in Blk \ {Genesis}, Header[h].prev \in K
      PROVE  h \in K
  <2>1. h \in Genuine => Header[h].prev \in Genuine
    BY GenuineParent
  <2> QED
    BY <1>2, <2>1, GenuineWalks
<1> HIDE DEF K
<1>3. Blk \subseteq K
  BY <1>1, <1>2, BlkSet
<1> QED
  BY <1>3 DEF K, Genuine

LEMMA BodyOne ==
  ASSUME NEW none, none = <<>>
  PROVE  BodyOf(none) = <<>>
  BY BodyOfFolds, Joining!FoldEmpty

LEMMA BodyMore ==
  ASSUME NEW P \in Seq(Blk), NEW h \in Blk
  PROVE  BodyOf(Append(P, h)) = BodyOf(P) \o Header[h].txs
<1>1. Joining!Fold(<<>>, Append(P, h)) = AddBody(Joining!Fold(<<>>, P), h)
  BY Joining!FoldAppend
<1> QED
  BY <1>1, BodyOfFolds DEF AddBody

\* From one block of a chain to a later one.
PieceWalks(Q) ==
  Walk(BodyOf(Tail(Q)), Header[Q[1]].root.nonce, Header[Q[Len(Q)]].root.nonce)

LEMMA PieceWalked == \A Q : IsPiece(Q) => PieceWalks(Q)
<1> DEFINE K == {Q \in Seq(Blk) : PieceWalks(Q)}
<1>1. ASSUME NEW h \in Genuine
      PROVE  <<h>> \in K
  <2>1. Tail(<<h>>) = <<>> /\ <<h>>[1] = h /\ <<h>>[Len(<<h>>)] = h /\ <<h>> \in Seq(Blk)
    BY DEF Genuine
  <2>2. \A a : Num(Header[h].root.nonce, a) \in Nat
    BY GenuineNonced, NoncedNat
  <2>3. Walk(<<>>, Header[h].root.nonce, Header[h].root.nonce)
    BY <2>2, WalkNone
  <2>4. BodyOf(Tail(<<h>>)) = <<>>
    BY <2>1, BodyOne
  <2> QED
    BY <2>1, <2>3, <2>4 DEF PieceWalks
<1>2. ASSUME NEW P \in Seq(Blk) \ {<<>>}, NEW h \in Genuine \ {Genesis},
             IsPiece(P), Header[h].prev = P[Len(P)], P \in K
      PROVE  Append(P, h) \in K
  <2> DEFINE Q == Append(P, h)
  <2>1. h \in Blk /\ Tail(P) \in Seq(Blk) /\ Tail(Q) = Append(Tail(P), h)
    BY DEF Genuine
  <2>2. Q[1] = P[1] /\ Q[Len(Q)] = h /\ Q \in Seq(Blk)
    BY <1>2, <2>1, MoreEnds, AppendAt
  <2>3. BodyOf(Tail(Q)) = BodyOf(Tail(P)) \o Header[h].txs
    BY <2>1, BodyMore
  <2>4. P[Len(P)] \in Genuine
    BY <1>2, PieceEnds
  <2> HIDE DEF Q
  <2>5. Walk(Header[h].txs, Header[P[Len(P)]].root.nonce, Header[h].root.nonce)
    BY <1>2, <2>4, GenuineNonced, GenuineWalks
  <2>6. Walk(BodyOf(Tail(P)), Header[P[1]].root.nonce, Header[P[Len(P)]].root.nonce)
    BY <1>2 DEF PieceWalks
  <2>7. Walk(BodyOf(Tail(P)) \o Header[h].txs, Header[P[1]].root.nonce, Header[h].root.nonce)
    BY <2>5, <2>6, WalkOn
  <2> QED
    BY <2>2, <2>3, <2>7 DEF PieceWalks, Q
<1> HIDE DEF K
<1>3. \A Q : IsPiece(Q) => Q \in K
  BY <1>1, <1>2, PieceSet
<1> QED
  BY <1>3 DEF K
-----------------------------------------------------------------------------
(* What a call does to the pool, the ledger and the last save.              *)

AloneIn(n) == Alone(n.orphans, Known(n))

\* Only the orphans differ.
Still(m, n) ==
  /\ m.blocks = n.blocks /\ m.anchor = n.anchor /\ m.cache = n.cache /\ m.pool = n.pool
  /\ m.pruning = n.pruning /\ m.saved = n.saved

LEMMA StillSelf == \A n : Still(n, n)
  BY DEF Still

LEMMA StillTrans ==
  ASSUME NEW l, NEW m, NEW n, Still(l, m), Still(m, n)
  PROVE  Still(l, n)
  BY DEF Still

LEMMA StillKnown ==
  ASSUME NEW m, NEW n, Still(m, n)
  PROVE  Known(m) = Known(n) /\ Height(m) = Height(n)
  BY DEF Still, Known, Height

\* The save holds the pool and the chain.
Settled(m) == m.saved.txs = m.pool.txs /\ m.saved.blocks = m.blocks

LEMMA OrphansStill ==
  ASSUME NEW n, Good(n), NEW o, OrphansOk(o)
  PROVE  LET m == [n EXCEPT !.orphans = o]
         IN Good(m) /\ Still(m, n) /\ m.orphans = o /\ Known(m) = Known(n)
  BY GoodOrphans DEF Still

\* A sweep leaves nothing waiting.
LEMMA SweptBare ==
  ASSUME NEW n, Good(n), AloneIn(n)
  PROVE  Good(Swept(n)) /\ Still(Swept(n), n) /\ Bare(Swept(n).orphans)
<1> DEFINE o == PruneOrphans(n.orphans, Known(n))
<1>1. OrphansOk(o) /\ Bare(o)
  BY PruneOrphansOk, SweepBare DEF Good, AloneIn
<1>2. Swept(n) = [n EXCEPT !.orphans = o]
  BY DEF Swept
<1> HIDE DEF o
<1> QED
  BY <1>1, <1>2, OrphansStill

LEMMA BareAlone ==
  ASSUME NEW n, Bare(n.orphans)
  PROVE  AloneIn(n)
  BY DEF AloneIn, Alone

LEMMA ForgetBare ==
  ASSUME NEW n, Good(n), NEW h, Bare(n.orphans)
  PROVE  Good(Forget(n, h)) /\ Still(Forget(n, h), n) /\ Bare(Forget(n, h).orphans)
<1> DEFINE o == RemoveSubtrees(n.orphans, {h})
<1>1. OrphansOk(o)
  BY RemoveSubtreesOk DEF Good
<1>2. Bare(o)
  <2>1. OrphansOk(n.orphans) /\ Alone(n.orphans, {})
    BY DEF Good, Alone
  <2> QED
    BY <2>1, RemoveAlone DEF RemoveSubtrees
<1>3. Forget(n, h) = [n EXCEPT !.orphans = o]
  BY DEF Forget
<1> HIDE DEF o
<1> QED
  BY <1>1, <1>2, <1>3, OrphansStill

LEMMA StoreWaitingAlone ==
  ASSUME NEW n, Good(n), AloneIn(n), NEW h \in Blk, h \notin Known(n), Header[h].prev \notin Known(n)
  PROVE  LET m == StoreWaiting(n, h) IN Good(m) /\ Still(m, n) /\ AloneIn(m)
<1> DEFINE o == StoreOrphan(n.orphans, h, Known(n))
           m == [n EXCEPT !.orphans = o]
<1>1. OrphansOk(o) /\ Alone(o, Known(n))
  BY StoreOrphanOk, StoreAlone DEF Good, AloneIn
<1>2. StoreWaiting(n, h) = m
  BY DEF StoreWaiting
<1> HIDE DEF o
<1>3. Good(m) /\ Still(m, n) /\ m.orphans = o /\ Known(m) = Known(n)
  BY <1>1, OrphansStill
<1> HIDE DEF m
<1>4. AloneIn(m)
  BY <1>1, <1>3 DEF AloneIn
<1> QED
  BY <1>2, <1>3, <1>4

LEMMA WithinEmpty ==
  ASSUME NEW T
  PROVE  Within(<<>>, T) = <<>>
<1>1. <<>> \in Seq({})
  OBVIOUS
<1>2. Within(<<>>, T) \in Seq({} \cap T)
  BY <1>1, Replaying!WithinSeq DEF Within, Replaying!Within
<1>3. {} \cap T = {}
  OBVIOUS
<1> QED
  BY <1>2, <1>3, EmptySeq

\* With nothing waiting there is nobody to try.
LEMMA RoundBare ==
  ASSUME NEW n, Good(n), Bare(n.orphans), NEW acc, acc.node = n, NEW i,
         acc.queue = <<>> \/ \E p : acc.queue = <<p>>
  PROVE  LET next == Round(acc, i) IN next.node = n /\ next.queue = <<>>
<1> DEFINE tried == Within(n.orphans.order, Children(n.orphans, Head(acc.queue)))
<1>1. CASE acc.queue = <<>>
  BY <1>1 DEF Round
<1>2. CASE acc.queue # <<>>
  <2>1. n.orphans.order = <<>>
    BY DEF Bare
  <2>2. tried = <<>>
    BY <2>1, WithinEmpty
  <2>3. Round(acc, i) = TryAll(n, tried, Tail(acc.queue))
    BY <1>2 DEF Round
  <2>4. Tail(acc.queue) = <<>>
    <3>1. PICK p : acc.queue = <<p>>
      BY <1>2
    <3>2. Tail(<<p>>) = <<>>
      OBVIOUS
    <3> QED
      BY <3>1, <3>2
  <2> HIDE DEF tried
  <2>5. Trying!Fold(n, <<>>) = n
    BY Trying!FoldEmpty
  <2>6. FoldLeft(TryOrphan, n, <<>>) = Trying!Fold(n, <<>>)
    BY DEF Trying!Fold, Trying!MapThenFoldSet, Trying!Max, Max,
           FoldLeft, MapThenFoldSet
  <2>7. Within(<<>>, Known(n)) = <<>>
    BY WithinEmpty
  <2>8. TryAll(n, <<>>, <<>>) = [node |-> n, queue |-> <<>> \o <<>>]
    BY <2>5, <2>6, <2>7 DEF TryAll
  <2>9. <<>> \o <<>> = <<>>
    OBVIOUS
  <2>10. Round(acc, i) = [node |-> n, queue |-> <<>>]
    BY <2>2, <2>3, <2>4, <2>8, <2>9
  <2> QED
    BY <2>10
<1> QED
  BY <1>1, <1>2

LEMMA ProcessBare ==
  ASSUME NEW n, Good(n), Bare(n.orphans), NEW parent
  PROVE  LET m == ProcessOrphansFrom(n, parent)
         IN Good(m) /\ Still(m, n) /\ Bare(m.orphans)
<1> DEFINE l == Swept(n)
           start == [node |-> l, queue |-> <<parent>>]
           rounds == [i \in 1..(MaxOrphans + 1) |-> i]
           last == FoldLeft(Round, start, rounds)
           Quiet(acc) == acc.node = l /\ (acc.queue = <<>> \/ \E p : acc.queue = <<p>>)
<1>1. last = Rounds!Fold(start, rounds)
  BY DEF Rounds!Fold, Rounds!MapThenFoldSet, Rounds!Max, Max,
         FoldLeft, MapThenFoldSet
<1>2. ProcessOrphansFrom(n, parent) = Swept(last.node)
  BY DEF ProcessOrphansFrom
<1>3. Good(l) /\ Still(l, n) /\ Bare(l.orphans)
  BY BareAlone, SweptBare
<1>4. rounds \in Seq(Nat) /\ Len(rounds) \in Nat
  <2>1. MaxOrphans + 1 \in Nat
    BY OrphanAssumption
  <2> QED
    BY <2>1
<1>5. Quiet(start)
  OBVIOUS
<1> HIDE DEF start, rounds, last, l
<1>6. PICK r : /\ r[0] = start /\ r[Len(rounds)] = Rounds!Fold(start, rounds)
               /\ \A k \in Nat : k < Len(rounds) => \E x \in Nat : r[k + 1] = Round(r[k], x)
  <2>1. \E r : RoundsTrace(r, start, rounds)
    BY <1>4, RoundsSteps
  <2> QED
    BY <2>1 DEF RoundsTrace
<1> DEFINE K == {k \in Nat : k <= Len(rounds) => Quiet(r[k])}
<1>7. 0 \in K
  BY <1>5, <1>6
<1>8. ASSUME NEW k \in Nat, k \in K
      PROVE  k + 1 \in K
  <2>1. SUFFICES ASSUME k + 1 <= Len(rounds)
                 PROVE  Quiet(r[k + 1])
    OBVIOUS
  <2>2. k < Len(rounds) /\ k <= Len(rounds)
    BY <1>4, <2>1
  <2>3. PICK x \in Nat : r[k + 1] = Round(r[k], x)
    BY <1>6, <2>2
  <2>4. Quiet(r[k])
    BY <1>8, <2>2
  <2>5. Round(r[k], x).node = l /\ Round(r[k], x).queue = <<>>
    BY <1>3, <2>4, RoundBare
  <2> QED
    BY <2>3, <2>5
<1> HIDE DEF K
<1>9. Nat \subseteq K
  BY <1>7, <1>8, Rounds!NatSet
<1>10. last.node = l
  BY <1>1, <1>4, <1>6, <1>9 DEF K
<1>11. Good(Swept(l)) /\ Still(Swept(l), l) /\ Bare(Swept(l).orphans)
  BY <1>3, BareAlone, SweptBare
<1> QED
  BY <1>2, <1>3, <1>10, <1>11, StillTrans
-----------------------------------------------------------------------------
LEMMA ConfirmsMore ==
  ASSUME NEW Q \in Seq(Blk) \ {<<>>}, NEW h \in Blk
  PROVE  Confirms(Append(Q, h)) = Confirms(Q) \cup ToSet(Header[h].txs)
<1> DEFINE n == Len(Q)
           R == Append(Q, h)
<1>1. /\ n \in Nat \ {0} /\ Len(R) = n + 1 /\ R[n + 1] = h
      /\ \A i \in 1..n : R[i] = Q[i]
  OBVIOUS
<1> HIDE DEF R, n
<1>2. 2..(n + 1) = (2..n) \cup {n + 1} /\ \A i \in 2..n : R[i] = Q[i]
  BY <1>1
<1> QED
  BY <1>1, <1>2 DEF Confirms, R, n

\* The pool and what it stands on.
Same(m, n) ==
  /\ m.cache = n.cache /\ m.pool = n.pool
  /\ Last(m.blocks) = Last(n.blocks) /\ Confirms(m.blocks) \subseteq Confirms(n.blocks)

LEMMA StillSame ==
  ASSUME NEW m, NEW n, Still(m, n)
  PROVE  Same(m, n) /\ (Settled(n) => Settled(m))
  BY DEF Still, Same, Settled

LEMMA SaveSettles ==
  ASSUME NEW n, Good(n), AloneIn(n)
  PROVE  LET m == Save(n) IN Good(m) /\ Same(m, n) /\ Bare(m.orphans) /\ Settled(m)
<1> DEFINE l == MaybePrune(n)
           m == Swept(l)
           w == [blocks |-> m.blocks, anchor |-> m.anchor, txs |-> m.pool.txs, pruning |-> m.pruning]
           r == [m EXCEPT !.saved = w]
<1>1. Save(n) = r
  BY DEF Save
<1>2. Good(l) /\ Shorter(l, n)
  BY MaybePruneGood
<1>3. AloneIn(l)
  BY <1>2 DEF AloneIn, Alone, Shorter
<1> HIDE DEF l
<1>4. Good(m) /\ Still(m, l) /\ Bare(m.orphans)
  BY <1>2, <1>3, SweptBare
<1> HIDE DEF m
<1>5. /\ r.blocks = m.blocks /\ r.cache = m.cache /\ r.pool = m.pool
      /\ r.orphans = m.orphans /\ r.saved = w /\ w.blocks = m.blocks /\ w.txs = m.pool.txs
  BY <1>4 DEF Good
<1> HIDE DEF r, w
<1>6. Same(r, n) /\ Bare(r.orphans) /\ Settled(r)
  BY <1>2, <1>4, <1>5 DEF Same, Settled, Still, Shorter
<1>7. Good(Save(n))
  BY SaveGood
<1> QED
  BY <1>1, <1>6, <1>7

LEMMA SettleSettles ==
  ASSUME NEW n, Good(n), AloneIn(n)
  PROVE  LET m == Settle(n) IN Good(m) /\ Same(m, n) /\ Bare(m.orphans) /\ Settled(m)
<1> DEFINE k == Swept(n)
           l == Save(k)
           m == ProcessOrphansFrom(l, Last(l.blocks))
           r == Swept(m)
<1>1. Settle(n) = r
  BY DEF Settle
<1>2. Good(k) /\ Still(k, n) /\ Bare(k.orphans)
  BY SweptBare
<1> HIDE DEF k
<1>3. Good(l) /\ Same(l, k) /\ Bare(l.orphans) /\ Settled(l)
  BY <1>2, BareAlone, SaveSettles
<1> HIDE DEF l
<1>4. Good(m) /\ Still(m, l) /\ Bare(m.orphans)
  BY <1>3, ProcessBare
<1> HIDE DEF m
<1>5. Good(r) /\ Still(r, m) /\ Bare(r.orphans)
  BY <1>4, BareAlone, SweptBare
<1> HIDE DEF r
<1>6. Same(r, n) /\ Settled(r)
  BY <1>2, <1>3, <1>4, <1>5 DEF Same, Still, Settled
<1> QED
  BY <1>1, <1>5, <1>6

\* The blocks from n to m confirm s: the pool has lost it, and is indexed anew.
Carried(m, n, s) ==
  /\ Walk(s, n.cache.nonce, m.cache.nonce)
  /\ m.pool = Rebuilt(n.pool.txs \ ToSet(s), m.cache)
  /\ Confirms(m.blocks) \subseteq Confirms(n.blocks) \cup ToSet(s)
  /\ Settled(m)

LEMMA RebuiltTxs == \A txs, st : Rebuilt(txs, st).txs = txs
  BY DEF Rebuilt

LEMMA CarriedOn ==
  ASSUME NEW l, NEW m, NEW n, NEW s, NEW t, Carried(m, n, s), Carried(l, m, t)
  PROVE  Carried(l, n, s \o t)
<1>1. Walk(s \o t, n.cache.nonce, l.cache.nonce) /\ ToSet(s \o t) = ToSet(s) \cup ToSet(t)
  BY WalkOn DEF Carried
<1>2. m.pool.txs = n.pool.txs \ ToSet(s)
  BY RebuiltTxs DEF Carried
<1>3. (n.pool.txs \ ToSet(s)) \ ToSet(t) = n.pool.txs \ ToSet(s \o t)
  BY <1>1
<1>4. l.pool = Rebuilt(n.pool.txs \ ToSet(s \o t), l.cache)
  BY <1>2, <1>3 DEF Carried
<1>5. Confirms(l.blocks) \subseteq Confirms(n.blocks) \cup ToSet(s \o t)
  BY <1>1 DEF Carried
<1> QED
  BY <1>1, <1>4, <1>5 DEF Carried

\* A call leaves the pool and its ledger alone, or moves both by blocks.
Advances(m, n) ==
  /\ Good(m) /\ AloneIn(m)
  /\ Still(m, n) \/ \E s : Carried(m, n, s)

LEMMA AdvancesSelf ==
  ASSUME NEW n, Good(n), AloneIn(n)
  PROVE  Advances(n, n)
  BY StillSelf DEF Advances

LEMMA AdvancesOn ==
  ASSUME NEW l, NEW m, NEW n, Advances(m, n), Advances(l, m)
  PROVE  Advances(l, n)
<1>1. CASE Still(l, m)
  <2>1. Still(m, n) => Still(l, n)
    BY <1>1, StillTrans
  <2>2. \A s : Carried(m, n, s) => Carried(l, n, s)
    BY <1>1 DEF Still, Carried, Settled
  <2> QED
    BY <2>1, <2>2 DEF Advances
<1>2. ASSUME NEW t, Carried(l, m, t)
      PROVE  \E s : Carried(l, n, s)
  <2>1. CASE Still(m, n)
    <3>1. Carried(l, n, t)
      BY <1>2, <2>1 DEF Still, Carried
    <3> QED
      BY <3>1
  <2>2. ASSUME NEW s, Carried(m, n, s)
        PROVE  Carried(l, n, s \o t)
    BY <1>2, <2>2, CarriedOn
  <2> QED
    BY <2>1, <2>2 DEF Advances
<1> QED
  BY <1>1, <1>2 DEF Advances

\* A valid child of the tip confirms what it holds.
LEMMA ConnectCarries ==
  ASSUME NEW n, Good(n), Bare(n.orphans), NEW h \in Blk, Header[h].prev = Last(n.blocks),
         Validate(h, Height(n) + 1, n.cache).ok
  PROVE  LET m == Connect(n, h)
         IN Good(m) /\ Bare(m.orphans) /\ Carried(m, n, Header[h].txs)
<1> DEFINE v == Validate(h, Height(n) + 1, n.cache)
           p == Last(n.blocks)
           s == Header[h].txs
           m == [n EXCEPT !.blocks = Append(@, h), !.cache = v.st,
                          !.pool = Rebuilt(@.txs \ ToSet(Header[h].txs), v.st)]
           l == Forget(m, h)
           r == Save(l)
<1>1. /\ p \in Genuine /\ p \in Blk /\ Height(n) = Depth(p) /\ n.cache = Header[p].root
      /\ IsPiece(n.blocks) /\ n.blocks \in Seq(Blk) \ {<<>>} /\ p = n.blocks[Len(n.blocks)]
  BY GoodTip, PieceEnds DEF Good
<1>2. h \in Genuine /\ v.st = Header[h].root /\ h # Genesis /\ h \in Blk \ {Genesis}
  <2>1. h # Genesis
    BY <1>1, HeaderAssumption
  <2> QED
    BY <1>1, <2>1, GenuineValid
<1>3. Connect(n, h) = r
  BY DEF Connect, v
<1>4. /\ DOMAIN m = DOMAIN n /\ m.blocks = Append(n.blocks, h) /\ m.cache = v.st
      /\ m.anchor = n.anchor /\ m.orphans = n.orphans /\ m.saved = n.saved
      /\ m.pool = Rebuilt(n.pool.txs \ ToSet(s), v.st)
  BY DEF Good
<1> HIDE DEF m, v, p, s
<1>5. IsPiece(m.blocks) /\ m.blocks[1] = n.blocks[1] /\ Last(m.blocks) = h
  BY <1>1, <1>2, <1>4, PieceMore, MoreEnds DEF p, Last
<1>6. Good(m)
  BY <1>2, <1>4, <1>5 DEF Good, Sits
<1>7. Good(l) /\ Still(l, m) /\ Bare(l.orphans)
  BY <1>4, <1>6, ForgetBare
<1> HIDE DEF l
<1>8. Good(r) /\ Same(r, l) /\ Bare(r.orphans) /\ Settled(r)
  BY <1>7, BareAlone, SaveSettles
<1> HIDE DEF r
<1>9. Walk(s, Header[p].root.nonce, Header[h].root.nonce)
  <2>1. Nonced(Header[Header[h].prev].root)
    BY <1>1, GenuineNonced DEF p
  <2> QED
    BY <1>2, <2>1, GenuineWalks DEF p, s
<1>10. r.cache = Header[h].root /\ r.pool = Rebuilt(n.pool.txs \ ToSet(s), Header[h].root)
  BY <1>2, <1>4, <1>7, <1>8 DEF Same, Still
<1>11. Confirms(r.blocks) \subseteq Confirms(n.blocks) \cup ToSet(s)
  <2>1. Confirms(r.blocks) \subseteq Confirms(m.blocks)
    BY <1>7, <1>8 DEF Same, Still
  <2>2. Confirms(Append(n.blocks, h)) = Confirms(n.blocks) \cup ToSet(s)
    BY <1>1, ConfirmsMore DEF s
  <2> QED
    BY <1>4, <2>1, <2>2
<1>12. Carried(r, n, s)
  BY <1>1, <1>8, <1>9, <1>10, <1>11 DEF Carried
<1> QED
  BY <1>3, <1>8, <1>12 DEF s

LEMMA TryConnectAdvances ==
  ASSUME NEW n, Good(n), AloneIn(n), NEW h \in Blk
  PROVE  LET r == TryConnect(n, h)
         IN Advances(r, n) /\ (h \in Known(r) \ Known(n) => Bare(r.orphans))
<1> DEFINE m == Swept(n)
           r == TryConnect(n, h)
           Fits == /\ h \notin Known(m) /\ Header[h].prev = Last(m.blocks)
                   /\ Validate(h, Height(m) + 1, m.cache).ok
           Waits == h \notin Known(m) /\ Header[h].prev \notin Known(m)
<1>1. Good(m) /\ Still(m, n) /\ Bare(m.orphans)
  BY SweptBare
<1>2. r = IF Fits THEN Connect(m, h) ELSE IF Waits THEN StoreWaiting(m, h) ELSE Forget(m, h)
  BY DEF TryConnect
<1>3. Advances(m, n) /\ AloneIn(m) /\ Known(m) = Known(n)
  BY <1>1, BareAlone, StillKnown DEF Advances
<1> HIDE DEF m, r
<1>4. CASE Fits
  <2>1. r = Connect(m, h)
    BY <1>2, <1>4
  <2>2. Good(r) /\ Bare(r.orphans) /\ Carried(r, m, Header[h].txs)
    BY <1>1, <1>4, <2>1, ConnectCarries
  <2>3. Advances(r, m)
    BY <2>2, BareAlone DEF Advances
  <2> QED
    BY <1>3, <2>2, <2>3, AdvancesOn DEF r
<1>5. CASE ~ Fits /\ Waits
  <2>1. r = StoreWaiting(m, h) /\ h \notin Known(m) /\ Header[h].prev \notin Known(m)
    BY <1>2, <1>5
  <2>2. Good(r) /\ Still(r, m) /\ AloneIn(r)
    BY <1>1, <1>3, <2>1, StoreWaitingAlone
  <2>3. Known(r) = Known(n) /\ Advances(r, m)
    BY <1>3, <2>2, StillKnown DEF Advances
  <2> QED
    BY <1>3, <2>3, AdvancesOn DEF r
<1>6. CASE ~ Fits /\ ~ Waits
  <2>1. r = Forget(m, h)
    BY <1>2, <1>6
  <2>2. Good(r) /\ Still(r, m) /\ Bare(r.orphans)
    BY <1>1, <2>1, ForgetBare
  <2>3. Advances(r, m)
    BY <2>2, BareAlone DEF Advances
  <2> QED
    BY <1>3, <2>2, <2>3, AdvancesOn DEF r
<1> QED
  BY <1>4, <1>5, <1>6

LEMMA TryAddBlockAdvances ==
  ASSUME NEW n, Good(n), AloneIn(n), NEW h \in Blk
  PROVE  Advances(TryAddBlock(n, h), n)
<1> DEFINE m == TryConnect(n, h)
           l == ProcessOrphansFrom(m, h)
<1>1. Advances(m, n) /\ (h \in Known(m) \ Known(n) => Bare(m.orphans))
  BY TryConnectAdvances
<1>2. TryAddBlock(n, h) = IF h \in Known(m) \ Known(n) THEN l ELSE m
  BY DEF TryAddBlock
<1> HIDE DEF m
<1>3. CASE h \in Known(m) \ Known(n)
  <2>1. Good(m) /\ Bare(m.orphans)
    BY <1>1, <1>3 DEF Advances
  <2>2. Good(l) /\ Still(l, m) /\ Bare(l.orphans)
    BY <2>1, ProcessBare
  <2> HIDE DEF l
  <2>3. Advances(l, m)
    BY <2>2, BareAlone DEF Advances
  <2>4. Advances(l, n)
    BY <1>1, <2>3, AdvancesOn
  <2> QED
    BY <1>2, <1>3, <2>4
<1> QED
  BY <1>1, <1>2, <1>3

LEMMA AddRangeAdvances ==
  ASSUME NEW n, Good(n), AloneIn(n), NEW tail \in Seq(Blk)
  PROVE  Advances(AddRange(n, tail), n)
<1> DEFINE start == [ok |-> TRUE, node |-> n]
           last == FoldLeft(AddNext, start, tail)
<1>1. last = Adding!Fold(start, tail)
  BY DEF Adding!Fold, Adding!MapThenFoldSet, Adding!Max, Max,
         FoldLeft, MapThenFoldSet
<1>2. AddRange(n, tail) = Swept(last.node)
  BY DEF AddRange
<1>3. Advances(start.node, n)
  BY AdvancesSelf
<1> HIDE DEF start, last
<1>4. PICK r : /\ r[0] = start /\ r[Len(tail)] = Adding!Fold(start, tail)
               /\ \A k \in Nat : k < Len(tail) => \E x \in Blk : r[k + 1] = AddNext(r[k], x)
  <2>1. \E r : AddingTrace(r, start, tail)
    BY AddingSteps
  <2> QED
    BY <2>1 DEF AddingTrace
<1> DEFINE K == {k \in Nat : k <= Len(tail) => Advances(r[k].node, n)}
<1>5. 0 \in K
  BY <1>3, <1>4
<1>6. ASSUME NEW k \in Nat, k \in K
      PROVE  k + 1 \in K
  <2>1. SUFFICES ASSUME k + 1 <= Len(tail)
                 PROVE  Advances(r[k + 1].node, n)
    OBVIOUS
  <2>2. k < Len(tail) /\ k <= Len(tail)
    BY <2>1
  <2>3. PICK x \in Blk : r[k + 1] = AddNext(r[k], x)
    BY <1>4, <2>2
  <2>4. Advances(r[k].node, n) /\ Good(r[k].node) /\ AloneIn(r[k].node)
    BY <1>6, <2>2 DEF Advances
  <2>5. r[k + 1].node = TryAddBlock(r[k].node, x) \/ r[k + 1].node = r[k].node
    BY <2>3 DEF AddNext
  <2>6. Advances(r[k + 1].node, r[k].node)
    BY <2>4, <2>5, TryAddBlockAdvances, AdvancesSelf
  <2> QED
    BY <2>4, <2>6, AdvancesOn
<1> HIDE DEF K
<1>7. Nat \subseteq K
  BY <1>5, <1>6, Adding!NatSet
<1>8. Advances(last.node, n)
  BY <1>1, <1>4, <1>7 DEF K
<1>9. Good(last.node) /\ AloneIn(last.node)
  BY <1>8 DEF Advances
<1>10. Advances(Swept(last.node), last.node)
  BY <1>9, SweptBare, BareAlone DEF Advances
<1> QED
  BY <1>2, <1>8, <1>10, AdvancesOn
-----------------------------------------------------------------------------
(* Where two chains part.                                                   *)

LEMMA ForkShared ==
  ASSUME NEW n, Good(n), NEW Q \in Seq(Blk) \ {<<>>}, Q[1] = n.blocks[1], Adoptable(n, Q)
  PROVE  LET fork == ForkPoint(n, Q)
         IN fork \in 1..Len(Q) /\ fork \in 1..Len(n.blocks) /\ Q[fork] = n.blocks[fork]
<1> DEFINE S == {i \in DOMAIN Q : Q[i] \in Known(n)}
           R == n.blocks
           fork == ForkPoint(n, Q)
<1>1. IsPiece(R) /\ IsPiece(Q) /\ Len(Q) \in Nat \ {0} /\ DOMAIN Q = 1..Len(Q)
      /\ R \in Seq(Blk) /\ Len(R) \in Nat \ {0} /\ DOMAIN R = 1..Len(R) /\ R[1] \in Blk
  BY GoodTip, AdoptableBetter, PieceEnds
<1>2. fork \in S
  <2>1. 1 \in S
    <3>1. 1 \in DOMAIN Q /\ 1 \in DOMAIN R
      BY <1>1
    <3> QED
      BY <3>1 DEF Known, ToSet
  <2>2. S \in SUBSET (1..Len(Q)) /\ S # {} /\ Len(Q) \in Nat
    BY <1>1, <2>1
  <2>3. fork = Max(S)
    BY DEF ForkPoint
  <2> HIDE DEF S, fork
  <2>4. Max(S) \in S
    BY <2>2, Replaying!MaxIn DEF Max, Replaying!Max
  <2> QED
    BY <2>3, <2>4
<1>3. fork \in 1..Len(Q) /\ Q[fork] \in Known(n)
  BY <1>1, <1>2
<1> HIDE DEF S, fork
<1>4. PICK j \in 1..Len(R) : R[j] = Q[fork]
  BY <1>1, <1>3 DEF Known, ToSet
<1>5. Depth(Q[fork]) = Depth(Q[1]) + fork - 1 /\ Depth(R[j]) = Depth(R[1]) + j - 1
  BY <1>1, <1>3, <1>4, PieceHeights
<1>6. Q[1] = R[1] /\ Depth(R[1]) \in Nat
  BY <1>1, DepthNat
<1> HIDE DEF R
<1>7. j = fork
  <2>1. Depth(R[1]) + fork - 1 = Depth(R[1]) + j - 1
    BY <1>4, <1>5, <1>6
  <2> DEFINE d == Depth(R[1])
  <2>2. d \in Nat /\ d + fork - 1 = d + j - 1 /\ j \in Int /\ fork \in Int
    BY <1>3, <1>4, <1>6, <2>1
  <2> HIDE DEF d
  <2> QED
    BY <2>2
<1> QED
  BY <1>3, <1>4, <1>7 DEF fork, R

\* What follows a block of a piece.
LEMMA TailOfPiece ==
  ASSUME NEW Q, IsPiece(Q), NEW a \in 1..Len(Q)
  PROVE  LET P == SubSeq(Q, a, Len(Q))
         IN /\ IsPiece(P) /\ P[1] = Q[a] /\ P[Len(P)] = Q[Len(Q)]
            /\ Tail(P) = SubSeq(Q, a + 1, Len(Q))
<1> DEFINE l == Len(Q)
           P == SubSeq(Q, a, l)
           T == SubSeq(Q, a + 1, l)
           k == l - a + 1
<1>1. l \in Nat \ {0} /\ Q \in Seq(Blk) /\ l \in a..l /\ \A i \in 1..l : Q[i] \in Blk
  BY PieceEnds
<1>2. a \in Int /\ a >= 1 /\ a <= l /\ a \in 1..l
  BY <1>1
<1>3. IsPiece(P) /\ Len(P) = k /\ \A i \in 1..k : P[i] = Q[a + i - 1]
  BY <1>1, <1>2, PieceSub
<1>4. /\ T \in Seq(Blk) /\ Len(T) = (IF a + 1 <= l THEN l - (a + 1) + 1 ELSE 0)
      /\ \A i \in 1..(l - (a + 1) + 1) : T[i] = Q[(a + 1) + i - 1]
  <2>1. a + 1 \in Int /\ l \in Int /\ \A i \in (a + 1)..l : Q[i] \in Blk
    BY <1>1, <1>2
  <2> HIDE DEF l
  <2> QED
    BY <2>1, SubSeqProperties
<1> HIDE DEF l, P, T
<1>5. k \in Nat \ {0} /\ 1 \in 1..k /\ k \in 1..k /\ a + 1 - 1 = a /\ a + k - 1 = l
  BY <1>1, <1>2
<1>6. P[1] = Q[a] /\ P[Len(P)] = Q[l]
  BY <1>3, <1>5
<1>7. Tail(P) = T
  <2>1. /\ P \in Seq(Blk) /\ Tail(P) \in Seq(Blk) /\ Len(Tail(P)) = k - 1
        /\ \A i \in 1..(k - 1) : Tail(P)[i] = P[i + 1]
    BY <1>3, <1>5, HeadTailProperties DEF IsPiece
  <2>2. Len(T) = k - 1
    BY <1>1, <1>2, <1>4
  <2>3. ASSUME NEW i \in 1..(k - 1)
        PROVE  Tail(P)[i] = T[i]
    <3>1. i + 1 \in 1..k /\ i \in 1..(l - (a + 1) + 1) /\ a + (i + 1) - 1 = (a + 1) + i - 1
      BY <1>1, <1>2
    <3> QED
      BY <1>3, <1>4, <2>1, <3>1
  <2> HIDE DEF k
  <2> QED
    BY <1>4, <2>1, <2>2, <2>3, SeqEqual
<1> QED
  BY <1>3, <1>6, <1>7 DEF l, P, T

\* What is undone was confirmed since the fork, and what comes instead adds to the fork too.
LEMMA ForkWalks ==
  ASSUME NEW n, Good(n), NEW Q \in Seq(Blk) \ {<<>>}, Q[1] = n.blocks[1], Adoptable(n, Q)
  PROVE  \E h \in Genuine : /\ Walk(BodyOf(Undone(n, Q)), Header[h].root.nonce, n.cache.nonce)
                            /\ \E s : Walk(s, Header[h].root.nonce, Header[Last(Q)].root.nonce)
<1> DEFINE fork == ForkPoint(n, Q)
           h == Q[fork]
           R == n.blocks
           P == SubSeq(R, fork, Len(R))
           S == SubSeq(Q, fork, Len(Q))
<1>1. fork \in 1..Len(Q) /\ fork \in 1..Len(R) /\ R[fork] = h
  BY ForkShared
<1>2. Undone(n, Q) = SubSeq(R, fork + 1, Len(R))
  BY DEF Undone
<1>3. IsPiece(R) /\ IsPiece(Q) /\ Last(Q) = Q[Len(Q)] /\ n.cache = Header[R[Len(R)]].root
  BY GoodTip, AdoptableBetter, PieceEnds DEF Good
<1>4. h \in Genuine
  BY <1>1, <1>3 DEF IsPiece
<1> HIDE DEF fork, R
<1>5. IsPiece(P) /\ P[1] = R[fork] /\ P[Len(P)] = R[Len(R)] /\ Tail(P) = SubSeq(R, fork + 1, Len(R))
  BY <1>1, <1>3, TailOfPiece
<1>6. IsPiece(S) /\ S[1] = Q[fork] /\ S[Len(S)] = Q[Len(Q)]
  BY <1>1, <1>3, TailOfPiece
<1> HIDE DEF P, S
<1>7. Walk(BodyOf(Tail(P)), Header[P[1]].root.nonce, Header[P[Len(P)]].root.nonce)
  BY <1>5, PieceWalked DEF PieceWalks
<1>8. Walk(BodyOf(Tail(S)), Header[S[1]].root.nonce, Header[S[Len(S)]].root.nonce)
  BY <1>6, PieceWalked DEF PieceWalks
<1>9. Walk(BodyOf(Undone(n, Q)), Header[h].root.nonce, n.cache.nonce)
  BY <1>1, <1>2, <1>3, <1>5, <1>7
<1>10. Walk(BodyOf(Tail(S)), Header[h].root.nonce, Header[Last(Q)].root.nonce)
  BY <1>3, <1>6, <1>8
<1> QED
  BY <1>4, <1>9, <1>10
-----------------------------------------------------------------------------
(* Transfers in the order a chain confirms them, for the abstract pool.     *)

LEMMA WalkInjective ==
  ASSUME NEW s, NEW from, NEW to, Walk(s, from, to)
  PROVE  \A i, j \in DOMAIN s : i # j => s[i] # s[j]
<1>1. s \in Seq(Tx) /\ DOMAIN s = 1..Len(s) /\ Len(s) \in Nat
  BY DEF Walk
<1>2. ASSUME NEW i \in DOMAIN s, NEW j \in DOMAIN s, i < j
      PROVE  s[i] # s[j]
  <2>1. s[i] \in TransferType /\ s[j] \in TransferType
    BY <1>1, ChainAssumption
  <2>2. s[i].nonce \in Nat /\ s[j].nonce \in Nat
    BY <2>1, PoolAssumption DEF TransferType
  <2>3. s[i].from = s[j].from => s[i].nonce < s[j].nonce
    BY <1>2 DEF Walk
  <2> QED
    BY <2>2, <2>3
<1>3. ASSUME NEW i \in DOMAIN s, NEW j \in DOMAIN s, i # j
      PROVE  s[i] # s[j]
  <2>1. i < j \/ j < i
    BY <1>1, <1>3
  <2> QED
    BY <1>2, <2>1
<1> QED
  BY <1>3

LEMMA AbstractCardinality == \A S : Abstract!Cardinality(S) = Cardinality(S)
  BY DEF Abstract!Cardinality, Cardinality

LEMMA WalkOrders ==
  ASSUME NEW s, NEW from, NEW to, Walk(s, from, to)
  PROVE  /\ ToSet(s) \in SUBSET Tx
         /\ s \in Abstract!ChainOrders(ToSet(s))
<1> DEFINE l == Len(s)
           S == ToSet(s)
<1>1. s \in Seq(Tx) /\ DOMAIN s = 1..l /\ l \in Nat
  BY DEF Walk
<1>2. S = {s[i] : i \in 1..l} /\ s \in [1..l -> S]
  BY <1>1 DEF ToSet
<1>3. S \in SUBSET Tx
  BY <1>1, <1>2
<1>4. IsFiniteSet(1..l) /\ Cardinality(1..l) = l
  <2>1. /\ IsFiniteSet(1..l)
        /\ Cardinality(1..l) = IF 1 > l THEN 0 ELSE l - 1 + 1
    BY <1>1, FS_Interval
  <2> HIDE DEF l
  <2> QED
    BY <1>1, <2>1
<1>5. \A i, j \in 1..l : i # j => s[i] # s[j]
  BY <1>1, WalkInjective
<1> HIDE DEF l, S
<1>6. s \in Surjection(1..l, S) /\ s \in Injection(1..l, S)
  BY <1>2, <1>5 DEF Surjection, Injection, IsInjective
<1>7. Cardinality(S) = l
  BY <1>4, <1>6, FS_Surjection
<1>8. s \in Abstract!SetToSeqs(S)
  BY <1>2, <1>5, <1>7, AbstractCardinality DEF Abstract!SetToSeqs
<1>9. \A i, j \in DOMAIN s : i < j /\ s[i].from = s[j].from => s[i].nonce < s[j].nonce
  BY DEF Walk
<1> QED
  BY <1>3, <1>8, <1>9 DEF Abstract!ChainOrders, S

LEMMA WalkUnique ==
  ASSUME NEW s, NEW from, NEW to, Walk(s, from, to)
  PROVE  Abstract!UniqueNonces(ToSet(s))
<1>1. s \in Seq(Tx) /\ DOMAIN s = 1..Len(s) /\ Len(s) \in Nat
  BY DEF Walk
<1>2. ASSUME NEW t \in ToSet(s), NEW u \in ToSet(s), t.from = u.from, t.nonce = u.nonce
      PROVE  t = u
  <2>1. PICK i \in DOMAIN s, j \in DOMAIN s : t = s[i] /\ u = s[j]
    BY <1>2 DEF ToSet
  <2>2. t \in TransferType /\ u \in TransferType
    BY <1>1, <2>1, ChainAssumption
  <2>3. t.nonce \in Nat /\ u.nonce \in Nat
    BY <2>2, PoolAssumption DEF TransferType
  <2>4. ~ (i < j) /\ ~ (j < i)
    BY <1>2, <2>1, <2>3 DEF Walk
  <2>5. i = j
    BY <1>1, <2>4
  <2> QED
    BY <2>1, <2>5
<1> QED
  BY <1>2 DEF Abstract!UniqueNonces

LEMMA NoncesOfBody ==
  ASSUME NEW s, NEW a
  PROVE  Abstract!NoncesOf(ToSet(s), a) = NoncesIn(s, a)
<1>1. ASSUME NEW n
      PROVE  n \in Abstract!NoncesOf(ToSet(s), a) <=> n \in NoncesIn(s, a)
  <2>1. n \in Abstract!NoncesOf(ToSet(s), a)
          <=> \E i \in DOMAIN s : s[i].from = a /\ n = s[i].nonce
    BY DEF Abstract!NoncesOf, ToSet
  <2>2. n \in NoncesIn(s, a) <=> \E i \in DOMAIN s : s[i].from = a /\ n = s[i].nonce
    BY DEF NoncesIn
  <2> QED
    BY <2>1, <2>2
<1> QED
  BY <1>1

\* From the ledger of one block to the ledger of another.
LEMMA WalkMoves ==
  ASSUME NEW s, NEW st, NEW end, Walk(s, st.nonce, end.nonce)
  PROVE  /\ Abstract!Moves(ToSet(s), Confirmed(st), Confirmed(end))
         /\ \A a \in Account : Confirmed(st)[a] <= Confirmed(end)[a]
<1>1. ASSUME NEW a \in Account
      PROVE  /\ Confirmed(st)[a] <= Confirmed(end)[a]
             /\ Abstract!NoncesOf(ToSet(s), a) = (Confirmed(st)[a] + 1)..Confirmed(end)[a]
  <2>1. Confirmed(st)[a] = Num(st.nonce, a) /\ Confirmed(end)[a] = Num(end.nonce, a)
    BY DEF Confirmed
  <2>2. /\ Num(st.nonce, a) <= Num(end.nonce, a)
        /\ NoncesIn(s, a) = (Num(st.nonce, a) + 1)..Num(end.nonce, a)
    BY DEF Walk
  <2> QED
    BY <2>1, <2>2, NoncesOfBody
<1> QED
  BY <1>1, WalkUnique DEF Abstract!Moves

\* The nonces a genuine ledger confirms are nonces of signed transfers.
LEMMA NoncedConfirmed ==
  ASSUME NEW st, Nonced(st)
  PROVE  Confirmed(st) \in Abstract!Nonces
<1>1. PICK s : Walk(s, EmptyMap, st.nonce)
  BY DEF Nonced
<1>2. ASSUME NEW a \in Account
      PROVE  /\ Confirmed(st)[a] \in 0..MaxNonce
             /\ Confirmed(st)[a] \in {0} \cup Abstract!NoncesOf(Tx, a)
  <2> DEFINE c == Num(st.nonce, a)
  <2>1. Num(EmptyMap, a) = 0
    BY DEF Num, EmptyMap
  <2>2. c \in Nat /\ NoncesIn(s, a) = (0 + 1)..c
    BY <1>1, <2>1 DEF Walk
  <2>3. Confirmed(st)[a] = c
    BY DEF Confirmed
  <2> HIDE DEF c
  <2>4. CASE c = 0
    BY <2>3, <2>4, PoolAssumption
  <2>5. CASE c # 0
    <3>1. c \in NoncesIn(s, a)
      BY <2>2, <2>5
    <3>2. PICK i \in DOMAIN s : s[i].from = a /\ s[i].nonce = c
      BY <3>1 DEF NoncesIn
    <3>3. s[i] \in Tx
      BY <1>1 DEF Walk
    <3>4. s[i] \in TransferType
      BY <3>3, ChainAssumption
    <3>5. c \in 0..MaxNonce
      BY <3>2, <3>4, PoolAssumption DEF TransferType
    <3>6. c \in Abstract!NoncesOf(Tx, a)
      BY <3>2, <3>3 DEF Abstract!NoncesOf
    <3> QED
      BY <2>3, <3>5, <3>6
  <2> QED
    BY <2>4, <2>5
<1>3. Confirmed(st) \in [Account -> 0..MaxNonce]
  BY <1>2 DEF Confirmed
<1> QED
  BY <1>2, <1>3 DEF Abstract!Nonces
-----------------------------------------------------------------------------
(* The pool's functions are the abstract pool's, and read no more of the    *)
(* ledger than the two numbers per account.                                 *)

\* The ledgers agree on what the pool reads.
Alike(st, sf) ==
  \A a : Num(st.nonce, a) = Num(sf.nonce, a) /\ Num(st.bal, a) = Num(sf.bal, a)

LEMMA GapAlike ==
  ASSUME NEW st, NEW sf, Alike(st, sf), NEW txs, NEW a
  PROVE  FirstGap(txs, st, a) = FirstGap(txs, sf, a) /\ Usable(txs, st, a) = Usable(txs, sf, a)
<1>1. Num(st.nonce, a) = Num(sf.nonce, a)
  BY DEF Alike
<1>2. FirstGap(txs, st, a) = FirstGap(txs, sf, a)
  BY <1>1 DEF FirstGap
<1> QED
  BY <1>1, <1>2 DEF Usable

LEMMA RebuiltAlike ==
  ASSUME NEW st, NEW sf, Alike(st, sf), NEW txs
  PROVE  Rebuilt(txs, st) = Rebuilt(txs, sf)
<1>1. \A a : FirstGap(txs, st, a) = FirstGap(txs, sf, a) /\ Usable(txs, st, a) = Usable(txs, sf, a)
  BY GapAlike
<1>2. [a \in Senders(txs) |-> FirstGap(txs, st, a)] = [a \in Senders(txs) |-> FirstGap(txs, sf, a)]
  BY <1>1
<1> DEFINE S(f) == {a \in Senders(txs) : Usable(txs, f, a) # {}}
           H(f) == [a \in S(f) |-> Total(Cost, Usable(txs, f, a))]
<1>3. S(st) = S(sf)
  BY <1>1
<1>4. \A a : Total(Cost, Usable(txs, st, a)) = Total(Cost, Usable(txs, sf, a))
  BY <1>1
<1>5. H(st) = H(sf)
  <2> HIDE DEF S
  <2> QED
    BY <1>3, <1>4
<1> QED
  BY <1>2, <1>5 DEF Rebuilt

LEMMA AdmissionAlike ==
  ASSUME NEW st, NEW sf, Alike(st, sf), NEW p, NEW t
  PROVE  AddToMempool(p, st, t) = AddToMempool(p, sf, t)
<1>1. \A txs : Rebuilt(txs, st) = Rebuilt(txs, sf)
  BY RebuiltAlike
<1>2. ASSUME NEW txs
      PROVE  Admit(txs, st, t) = Admit(txs, sf, t)
  <2>1. Num(st.bal, t.from) = Num(sf.bal, t.from)
    BY DEF Alike
  <2>2. Rebuilt(txs, st) = Rebuilt(txs, sf) /\ Rebuilt(txs \cup {t}, st) = Rebuilt(txs \cup {t}, sf)
    BY <1>1
  <2> QED
    BY <2>1, <2>2, Zenon DEF Admit
<1>3. Acceptable(p, st, t) <=> Acceptable(p, sf, t)
  BY DEF Acceptable, NextNonce, Alike
<1> QED
  BY <1>1, <1>2, <1>3 DEF AddToMempool

LEMMA AbstractSum == ASSUME NEW f PROVE Abstract!SumFunction(f) = SumFunction(f)
  BY DEF Abstract!SumFunction, SumFunction, Abstract!SumFunctionOnSet, SumFunctionOnSet,
         Abstract!FoldFunctionOnSet, FoldFunctionOnSet, Abstract!MapThenFoldSet, MapThenFoldSet

LEMMA AbstractRebuilt ==
  ASSUME NEW txs, NEW st
  PROVE  Abstract!Rebuilt(txs, st) = Rebuilt(txs, st)
  BY AbstractSum
  DEF Abstract!Rebuilt, Rebuilt, Abstract!Usable, Usable, Abstract!FirstGap, FirstGap,
      Abstract!NoncesOf, NoncesOf, Abstract!Num, Num, Abstract!Senders, Senders,
      Abstract!Total, Total, Abstract!Cost, Cost

LEMMA AbstractEvict ==
  \A txs, t : Abstract!MaybeEvictForAdmission(txs, t) = MaybeEvictForAdmission(txs, t)
<1>1. \A txs, w : Abstract!Package(txs, w) = Package(txs, w)
  BY DEF Abstract!Package, Package
<1>2. \A t, q : Abstract!Outbids(t, q) <=> Outbids(t, q)
  BY AbstractSum DEF Abstract!Outbids, Outbids, Abstract!Total, Total
<1>3. \A scope : Abstract!Weakest(scope) = Weakest(scope)
  BY DEF Abstract!Weakest, Weakest, Abstract!EvictedBefore, EvictedBefore, Abstract!Weaker, Weaker,
         Abstract!RateBelow, RateBelow, Abstract!RateEqual, RateEqual
<1>4. \A txs, t, scope : Abstract!EvictFrom(txs, t, scope) = EvictFrom(txs, t, scope)
  BY <1>1, <1>2, <1>3 DEF Abstract!EvictFrom, EvictFrom
<1>5. \A txs, t : Abstract!EvictForSender(txs, t) = EvictForSender(txs, t)
  BY <1>4, AbstractCardinality DEF Abstract!EvictForSender, EvictForSender
<1>6. \A txs, t : Abstract!EvictForPool(txs, t) = EvictForPool(txs, t)
  BY <1>4, AbstractCardinality DEF Abstract!EvictForPool, EvictForPool
<1> QED
  BY <1>5, <1>6 DEF Abstract!MaybeEvictForAdmission, MaybeEvictForAdmission

LEMMA AbstractPolicy == \A t : Abstract!PolicyOk(t) <=> PolicyOk(t)
  BY DEF Abstract!PolicyOk, PolicyOk, Abstract!RelayFee, RelayFee, Abstract!Max, Max,
         Abstract!MempoolMinBytes, MempoolMinBytes, Abstract!MempoolMaxBytes, MempoolMaxBytes

LEMMA AbstractAdmission ==
  \A p, st, t : Abstract!AddToMempool(p, st, t) = AddToMempool(p, st, t)
<1>1. ASSUME NEW txs, NEW st, NEW t
      PROVE  Abstract!Admit(txs, st, t) = Admit(txs, st, t)
  <2>1. \A s : Abstract!Rebuilt(s, st) = Rebuilt(s, st)
    BY AbstractRebuilt
  <2>2. \A m, k : Abstract!Num(m, k) = Num(m, k)
    BY DEF Abstract!Num, Num
  <2>3. Abstract!Cost(t) = Cost(t)
    BY DEF Abstract!Cost, Cost
  <2>4. (Abstract!Num(st.bal, t.from) - Abstract!Num(Abstract!Rebuilt(txs, st).held, t.from) >= Abstract!Cost(t))
          <=> (Num(st.bal, t.from) - Num(Rebuilt(txs, st).held, t.from) >= Cost(t))
    BY <2>1, <2>2, <2>3, Zenon
  <2> QED
    BY <2>1, <2>4, Zenon DEF Abstract!Admit, Admit
<1>2. ASSUME NEW p, NEW st, NEW t
      PROVE  Abstract!Acceptable(p, st, t) <=> Acceptable(p, st, t)
  <2>1. Abstract!NextNonce(p, st, t.from) = NextNonce(p, st, t.from)
    BY DEF Abstract!NextNonce, NextNonce, Abstract!Num, Num
  <2> QED
    BY <2>1, AbstractPolicy DEF Abstract!Acceptable, Acceptable
<1>3. ASSUME NEW p, NEW st, NEW t
      PROVE  Abstract!AddToMempool(p, st, t) = AddToMempool(p, st, t)
  <2>1. Abstract!Acceptable(p, st, t) <=> Acceptable(p, st, t)
    BY <1>2
  <2>2. Abstract!MaybeEvictForAdmission(p.txs, t) = MaybeEvictForAdmission(p.txs, t)
    BY AbstractEvict
  <2>3. \A s : Abstract!Rebuilt(s, st) = Rebuilt(s, st) /\ Abstract!Admit(s, st, t) = Admit(s, st, t)
    BY <1>1, AbstractRebuilt
  <2>4. CASE ~ Acceptable(p, st, t)
    BY <2>1, <2>4 DEF Abstract!AddToMempool, AddToMempool
  <2>5. CASE Acceptable(p, st, t)
    <3>1. Abstract!AddToMempool(p, st, t)
            = {IF e.ok THEN Abstract!Admit(e.txs, st, t)
                       ELSE [added |-> FALSE,
                             pool |-> IF e.txs = p.txs THEN p ELSE Abstract!Rebuilt(e.txs, st)] :
                 e \in Abstract!MaybeEvictForAdmission(p.txs, t)}
      BY <2>1, <2>5 DEF Abstract!AddToMempool
    <3>2. AddToMempool(p, st, t)
            = {IF e.ok THEN Admit(e.txs, st, t)
                       ELSE [added |-> FALSE,
                             pool |-> IF e.txs = p.txs THEN p ELSE Rebuilt(e.txs, st)] :
                 e \in MaybeEvictForAdmission(p.txs, t)}
      BY <2>5 DEF AddToMempool
    <3> QED
      BY <2>2, <2>3, <3>1, <3>2
  <2> QED
    BY <2>4, <2>5
<1> QED
  BY <1>3

LEMMA HousedAlike ==
  ASSUME NEW st, Housed(st)
  PROVE  Alike([nonce |-> Confirmed(st), bal |-> Spendable(st)], st)
<1>1. \A a : Num(Confirmed(st), a) = Num(st.nonce, a)
  BY DEF Housed, Confirmed, Num
<1>2. \A a : Num(Spendable(st), a) = Num(st.bal, a)
  BY DEF Housed, Spendable, Num
<1> QED
  BY <1>1, <1>2 DEF Alike
-----------------------------------------------------------------------------
(* A node in order, as the abstract pool sees it.                           *)

LEMMA SumNat ==
  ASSUME NEW f, NEW S, IsFiniteSet(S), \A y \in S : f[y] \in Nat
  PROVE  \A T \in SUBSET S : SumFunctionOnSet(f, T) \in Nat
<1> DEFINE K == {T \in SUBSET S : SumFunctionOnSet(f, T) \in Nat}
<1>1. {} \in K
  BY SumEmpty
<1>2. ASSUME NEW T \in SUBSET S, NEW x \in S, T \in K, x \notin T
      PROVE  T \cup {x} \in K
  <2>1. IsFiniteSet(T) /\ f[x] \in Nat /\ \A y \in T : f[y] \in Int
    BY FS_Subset
  <2>2. SumFunctionOnSet(f, T \cup {x}) = f[x] + SumFunctionOnSet(f, T)
    BY <1>2, <2>1, SumAdd
  <2> QED
    BY <1>2, <2>1, <2>2
<1> HIDE DEF K
<1>3. SUBSET S \subseteq K
  BY <1>1, <1>2, FiniteSet
<1> QED
  BY <1>3 DEF K

\* Nobody has more than all there is.
LEMMA BookedBounds ==
  ASSUME NEW st, NEW n, Booked(st, n, 0), NEW a
  PROVE  Num(st.bal, a) \in 0..MaxSupply
<1> DEFINE D == DOMAIN st.bal
           b == st.bal[a]
           r == SumFunctionOnSet(st.bal, D \ {a})
           i == Immature(st)
<1>1. /\ IsFiniteSet(D) /\ \A x \in D : st.bal[x] \in Nat
      /\ st.minted \in Nat /\ st.minted <= MaxSupply
      /\ Balances(st) + i = st.minted + 0
  BY DEF Booked
<1>2. MaxSupply \in Nat
  BY Numbers
<1>3. CASE a \notin D
  BY <1>2, <1>3 DEF Num
<1>4. CASE a \in D
  <2>1. b \in Nat /\ \A x \in D : st.bal[x] \in Int
    BY <1>1, <1>4
  <2>2. SumFunctionOnSet(st.bal, D) = b + r
    BY <1>1, <1>4, <2>1, SumTake
  <2>3. r \in Nat
    BY <1>1, SumNat
  <2>4. i \in Nat
    BY AmountsPositive DEF Booked, Immature
  <2>5. Balances(st) = SumFunctionOnSet(st.bal, D)
    BY DEF Balances, SumFunction
  <2>6. Num(st.bal, a) = b
    BY <1>4 DEF Num
  <2> DEFINE m == st.minted
  <2>7. m \in Nat /\ m <= MaxSupply /\ (b + r) + i = m + 0
    BY <1>1, <2>2, <2>5
  <2> HIDE DEF D, b, r, i, m
  <2> QED
    BY <1>2, <2>1, <2>3, <2>4, <2>6, <2>7
<1> QED
  BY <1>3, <1>4

\* The abstract pool's ledger.
Stand(st) == [nonce |-> Confirmed(st), bal |-> Spendable(st)]

Ready(st) ==
  /\ Confirmed(st) \in Abstract!Nonces /\ Spendable(st) \in Abstract!Balances0
  /\ Alike(Stand(st), st)

LEMMA GenuineReady == \A h \in Genuine : Ready(Header[h].root)
<1>1. ASSUME NEW h \in Genuine
      PROVE  Ready(Header[h].root)
  <2> DEFINE st == Header[h].root
  <2>1. Nonced(st)
    BY GenuineNonced
  <2>2. h \in Blk
    BY DEF Genuine
  <2>3. Booked(st, Depth(h), 0)
    BY <2>2, GenuineBooked DEF Kosher
  <2> HIDE DEF st
  <2>4. Confirmed(st) \in Abstract!Nonces
    BY <2>1, NoncedConfirmed
  <2>5. \A a \in Account : Num(st.bal, a) \in 0..MaxSupply
    BY <2>3, BookedBounds
  <2>6. Spendable(st) \in Abstract!Balances0
    BY <2>5 DEF Spendable, Abstract!Balances0
  <2>7. Alike(Stand(st), st)
    BY <2>1, HousedAlike DEF Nonced, Stand
  <2> QED
    BY <2>4, <2>6, <2>7 DEF Ready, st
<1> QED
  BY <1>1

LEMMA GoodReady ==
  ASSUME NEW n, Good(n)
  PROVE  Ready(n.cache)
<1>1. n.cache = Header[Last(n.blocks)].root /\ Last(n.blocks) \in Genuine
  BY GoodTip DEF Good
<1> QED
  BY <1>1, GenuineReady

LEMMA ReadySame ==
  ASSUME NEW st, Ready(st)
  PROVE  /\ \A txs : Abstract!Rebuilt(txs, Stand(st)) = Rebuilt(txs, st)
         /\ \A p, t : Abstract!AddToMempool(p, Stand(st), t) = AddToMempool(p, st, t)
<1>1. Alike(Stand(st), st)
  BY DEF Ready
<1>2. ASSUME NEW txs
      PROVE  Abstract!Rebuilt(txs, Stand(st)) = Rebuilt(txs, st)
  BY <1>1, RebuiltAlike, AbstractRebuilt
<1>3. ASSUME NEW p, NEW t
      PROVE  Abstract!AddToMempool(p, Stand(st), t) = AddToMempool(p, st, t)
  <2>1. AddToMempool(p, Stand(st), t) = AddToMempool(p, st, t)
    BY <1>1, AdmissionAlike
  <2> QED
    BY <2>1, AbstractAdmission
<1> QED
  BY <1>2, <1>3

Written(txs, st) == [txs |-> txs, confirmed |-> Confirmed(st), spendable |-> Spendable(st)]

LEMMA SettledView ==
  ASSUME NEW n, Good(n), Settled(n)
  PROVE  View(n.saved) = Written(n.pool.txs, n.cache)
<1>1. n.cache = Header[Last(n.saved.blocks)].root /\ n.saved.txs = n.pool.txs
  BY DEF Good, Settled
<1> QED
  BY <1>1 DEF View, Written

-----------------------------------------------------------------------------
(* The invariant: at most one block waits. *)

PoolInv == IInv /\ AloneIn(Node)

LEMMA BecameAlone ==
  ASSUME NEW n, Good(n), AloneIn(n), Become(n)
  PROVE  /\ PoolInv'
         /\ cache' = n.cache /\ pool' = n.pool /\ saved' = n.saved /\ blocks' = n.blocks
<1>1. /\ blocks' = n.blocks /\ cache' = n.cache /\ pool' = n.pool
      /\ orphans' = n.orphans /\ saved' = n.saved
  BY DEF Become
<1>2. Node'.blocks = blocks' /\ Node'.orphans = orphans'
  BY DEF Node
<1>3. AloneIn(Node')
  BY <1>1, <1>2 DEF AloneIn, Known
<1>4. AloneIn(Node)' = AloneIn(Node')
  BY DEF AloneIn, Alone, Bare, Known
<1>5. IInv'
  BY Became
<1> QED
  BY <1>1, <1>3, <1>4, <1>5 DEF PoolInv

\* What the abstract pool's variables are, before and after.
LEMMA Views ==
  /\ Abstract!Standing = Stand(cache) /\ Abstract!Standing' = Stand(cache')
  /\ Confirmed(cache)' = Confirmed(cache') /\ Spendable(cache)' = Spendable(cache')
  /\ View(saved)' = View(saved')
  BY DEF Abstract!Standing, Stand, Confirmed, Spendable, View

LEMMA ViewSaved ==
  ASSUME NEW n, Good(n), AloneIn(n), Settled(n), Become(n)
  PROVE  Abstract!Save
<1>1. View(saved') = Written(pool'.txs, cache')
  BY BecameAlone, SettledView
<1> QED
  BY <1>1, Views DEF Abstract!Save, Written

LEMMA ViewReady ==
  ASSUME NEW n, Good(n), AloneIn(n), Become(n)
  PROVE  /\ Ready(cache')
         /\ Confirmed(cache)' \in Abstract!Nonces /\ Spendable(cache)' \in Abstract!Balances0
         /\ \A txs : Abstract!Rebuilt(txs, Abstract!Standing') = Rebuilt(txs, cache')
<1>1. Ready(cache')
  BY BecameAlone, GoodReady
<1> QED
  BY <1>1, Views, ReadySame DEF Ready
-----------------------------------------------------------------------------
(* Each action is one of the abstract pool's, or changes nothing it sees.   *)

AStep == [Abstract!Next]_(Abstract!vars)

LEMMA StillStutters ==
  ASSUME NEW n, Good(n), AloneIn(n), Become(n), Still(n, Node), readmit' = readmit
  PROVE  AStep
<1>1. cache' = cache /\ pool' = pool /\ saved' = saved
  BY BecameAlone, NodeFields DEF Still
<1>2. UNCHANGED Abstract!vars
  BY <1>1, Views DEF Abstract!vars
<1> QED
  BY <1>2 DEF AStep

LEMMA CarriedConnects ==
  ASSUME NEW n, Good(n), AloneIn(n), Become(n), NEW s, Carried(n, Node, s),
         readmit = <<>>, readmit' = readmit
  PROVE  AStep
<1> DEFINE body == ToSet(s)
<1>1. cache' = n.cache /\ pool' = n.pool
  BY BecameAlone
<1>2. /\ Walk(s, cache.nonce, cache'.nonce) /\ Settled(n)
      /\ pool' = Rebuilt(pool.txs \ body, cache')
  BY <1>1, NodeFields DEF Carried
<1>3. body \in SUBSET Tx /\ Abstract!Moves(body, Confirmed(cache), Confirmed(cache)')
  <2>1. Abstract!Moves(body, Confirmed(cache), Confirmed(cache'))
    BY <1>2, WalkMoves
  <2> QED
    BY <1>2, <2>1, WalkOrders, Views
<1> HIDE DEF body
<1>4. Abstract!Save
  BY <1>2, ViewSaved
<1>5. /\ Confirmed(cache)' \in Abstract!Nonces /\ Spendable(cache)' \in Abstract!Balances0
      /\ pool' = Abstract!Rebuilt(pool.txs \ body, Abstract!Standing')
  BY <1>2, ViewReady
<1>6. Abstract!Connect(body)
  BY <1>3, <1>4, <1>5 DEF Abstract!Connect
<1> QED
  BY <1>3, <1>6 DEF AStep, Abstract!Next

LEMMA AdvancesSteps ==
  ASSUME NEW n, Advances(n, Node), Become(n), readmit = <<>>, readmit' = readmit
  PROVE  PoolInv' /\ AStep
<1>1. Good(n) /\ AloneIn(n)
  BY DEF Advances
<1>2. CASE Still(n, Node)
  BY <1>1, <1>2, StillStutters, BecameAlone
<1>3. ASSUME NEW s, Carried(n, Node, s)
      PROVE  AStep
  BY <1>1, <1>3, CarriedConnects
<1> QED
  BY <1>1, <1>2, <1>3, BecameAlone DEF Advances

LEMMA ReceivePool ==
  ASSUME PoolInv, NEW h \in Blk, Receive(h)
  PROVE  PoolInv' /\ AStep
<1>1. Advances(TryAddBlock(Node, h), Node)
  BY TryAddBlockAdvances DEF PoolInv, IInv
<1> QED
  BY <1>1, AdvancesSteps DEF Receive, Idle

LEMMA ReceiveLinearPool ==
  ASSUME PoolInv, NEW from, NEW tail \in Tails, ReceiveLinear(from, tail)
  PROVE  PoolInv' /\ AStep
<1> DEFINE m == Swept(Node)
           l == AddRange(m, tail)
<1>1. Good(Node) /\ AloneIn(Node)
  BY DEF PoolInv, IInv
<1>2. Good(m) /\ AloneIn(m) /\ Advances(m, Node)
  BY <1>1, SweptBare, BareAlone DEF Advances
<1>3. Become(l) /\ readmit = <<>> /\ readmit' = readmit
  BY DEF ReceiveLinear, Idle
<1> HIDE DEF m
<1>4. Advances(l, m)
  BY <1>2, TailType, AddRangeAdvances
<1> HIDE DEF l
<1>5. Advances(l, Node)
  BY <1>2, <1>4, AdvancesOn
<1> QED
  BY <1>3, <1>5, AdvancesSteps

LEMMA RefuseForkPool ==
  ASSUME PoolInv, NEW from, NEW tail, RefuseFork(from, tail)
  PROVE  PoolInv' /\ AStep
<1>1. Advances(Swept(Node), Node)
  BY SweptBare, BareAlone DEF PoolInv, IInv, Advances
<1> QED
  BY <1>1, AdvancesSteps DEF RefuseFork, Idle

\* A range is adopted on a node that has been swept.
LEMMA AdoptionGround ==
  ASSUME PoolInv, NEW from \in Nat, NEW tail \in Tails, Adoptable(Node, Incoming(Node, from, tail))
  PROVE  LET m == Swept(Node)
             Q == Incoming(Node, from, tail)
         IN /\ Good(Node) /\ Good(m) /\ Still(m, Node) /\ Bare(m.orphans)
            /\ Q \in Seq(Blk) \ {<<>>} /\ Q[1] = Node.blocks[1] /\ Q[1] = m.blocks[1]
            /\ Adoptable(m, Q)
<1>1. /\ Good(Node) /\ Good(Swept(Node)) /\ Still(Swept(Node), Node) /\ Bare(Swept(Node).orphans)
  BY SweptBare DEF PoolInv, IInv
<1> QED
  BY <1>1, TailType, IncomingStart, SweptSame DEF Still

LEMMA ReplayForkPool ==
  ASSUME PoolInv, NEW from \in Nat, NEW tail \in Tails, ReplayFork(from, tail)
  PROVE  PoolInv' /\ AStep
<1> DEFINE Q == Incoming(Node, from, tail)
           m == Swept(Node)
           st == Replayed(Q, m.anchor).st
           l == [m EXCEPT !.blocks = Q, !.cache = st, !.pool = Rebuilt(@.txs, st)]
           r == AdoptByReplay(m, Q)
<1>1. Adoptable(Node, Q) /\ Become(r) /\ readmit = <<>> /\ readmit' = readmit
  BY DEF ReplayFork, Idle
<1>2. /\ Good(m) /\ Still(m, Node) /\ Bare(m.orphans)
      /\ Q \in Seq(Blk) \ {<<>>} /\ Q[1] = m.blocks[1] /\ Adoptable(m, Q)
  BY <1>1, AdoptionGround
<1>3. r = Settle(l)
  BY DEF AdoptByReplay
<1>4. /\ DOMAIN l = DOMAIN m /\ l.blocks = Q /\ l.cache = st /\ l.anchor = m.anchor
      /\ l.orphans = m.orphans /\ l.saved = m.saved /\ l.pool = Rebuilt(m.pool.txs, st)
  BY <1>2 DEF Good
<1> HIDE DEF l, m, Q
<1>5. st = Header[Last(Q)].root
  BY <1>2, AdoptableBetter
<1> HIDE DEF st, r
<1>6. Good(l) /\ Bare(l.orphans)
  BY <1>2, <1>4, <1>5, MovedGood
<1>7. Good(r) /\ Same(r, l) /\ Bare(r.orphans) /\ Settled(r)
  BY <1>3, <1>6, BareAlone, SettleSettles
<1>8. AloneIn(r) /\ PoolInv' /\ cache' = r.cache /\ pool' = r.pool
  BY <1>1, <1>7, BareAlone, BecameAlone
<1>9. pool' = Rebuilt(pool.txs, cache')
  BY <1>2, <1>4, <1>7, <1>8, NodeFields DEF Same, Still
<1>10. /\ Confirmed(cache)' \in Abstract!Nonces /\ Spendable(cache)' \in Abstract!Balances0
       /\ pool' = Abstract!Rebuilt(pool.txs, Abstract!Standing')
  BY <1>1, <1>7, <1>8, <1>9, ViewReady
<1>11. Abstract!Save
  BY <1>1, <1>7, <1>8, ViewSaved
<1>12. Abstract!ReorgRebuild
  BY <1>1, <1>10, <1>11 DEF Abstract!ReorgRebuild
<1> QED
  BY <1>8, <1>12 DEF AStep, Abstract!Next

\* What the last of the readmissions ends with, or nothing yet.
LEMMA FinishedSettles ==
  ASSUME NEW n, Good(n), AloneIn(n), NEW left
  PROVE  LET m == Finished(n, left)
         IN /\ Good(m) /\ AloneIn(m) /\ Same(m, n)
            /\ left = <<>> => Settled(m)
            /\ left # <<>> => m = n
<1>1. CASE left = <<>>
  <2>1. Finished(n, left) = Settle(n)
    BY <1>1 DEF Finished
  <2> QED
    BY <1>1, <2>1, SettleSettles, BareAlone
<1>2. CASE left # <<>>
  BY <1>2 DEF Finished, Same
<1> QED
  BY <1>1, <1>2

LEMMA RedoForkPool ==
  ASSUME PoolInv, NEW from \in Nat, NEW tail \in Tails, RedoFork(from, tail)
  PROVE  PoolInv' /\ AStep
<1> DEFINE Q == Incoming(Node, from, tail)
           m == Swept(Node)
           l == AdoptByUndo(m, Q)
           r == Finished(l, readmit')
           first == BodyOf(Undone(Node, Q))
<1>1. /\ Adoptable(Node, Q) /\ Redo(Node, Q).ok /\ Become(r) /\ readmit = <<>>
      /\ \E waiting \in SetToSeqs(pool.txs) : readmit' = first \o waiting
  BY DEF RedoFork, Idle
<1>2. /\ Good(Node) /\ Good(m) /\ Still(m, Node) /\ Bare(m.orphans)
      /\ Q \in Seq(Blk) \ {<<>>} /\ Q[1] = Node.blocks[1] /\ Q[1] = m.blocks[1]
      /\ Adoptable(m, Q) /\ Redo(m, Q).ok
  <2>1. Redo(m, Q).ok
    BY <1>1, SweptSame DEF PoolInv, IInv
  <2> QED
    BY <1>1, <2>1, AdoptionGround
<1> HIDE DEF Q
<1>3. PICK h \in Genuine : /\ Walk(first, Header[h].root.nonce, cache.nonce)
                           /\ \E s : Walk(s, Header[h].root.nonce, Header[Last(Q)].root.nonce)
  BY <1>1, <1>2, ForkWalks, NodeFields
<1> DEFINE st == Header[h].root
           fork == Confirmed(st)
           undone == ToSet(first)
           x == Redo(m, Q).st
<1>4. x = Header[Last(Q)].root
  BY <1>2, RedoRoot
<1>5. l = [m EXCEPT !.blocks = Q, !.cache = x, !.pool = EmptyPool]
  BY DEF AdoptByUndo
<1> HIDE DEF m, x, l, first
<1>6. /\ l.cache = x /\ l.pool = EmptyPool /\ l.orphans = m.orphans /\ l.saved = m.saved
  BY <1>2, <1>5 DEF Good
<1>7. Good(l) /\ AloneIn(l)
  BY <1>2, <1>6, AdoptByUndoGood, BareAlone DEF l
<1>8. /\ Good(r) /\ AloneIn(r) /\ Same(r, l)
      /\ readmit' = <<>> => Settled(r)
      /\ readmit' # <<>> => r = l
  BY <1>7, FinishedSettles
<1> HIDE DEF r
<1>9. PoolInv' /\ cache' = x /\ pool' = EmptyPool /\ saved' = r.saved
  BY <1>1, <1>6, <1>8, BecameAlone DEF Same
<1>10. /\ Confirmed(cache)' \in Abstract!Nonces /\ Spendable(cache)' \in Abstract!Balances0
  BY <1>1, <1>8, ViewReady
<1>11. Abstract!Moves(undone, fork, Confirmed(cache)) /\ undone \in SUBSET Tx
       /\ first \in Abstract!ChainOrders(undone)
  BY <1>3, WalkMoves, WalkOrders
<1>12. \A a \in Account : fork[a] <= Confirmed(cache)'[a]
  <2>1. PICK s : Walk(s, st.nonce, cache'.nonce)
    BY <1>3, <1>4, <1>9
  <2>2. \A a \in Account : fork[a] <= Confirmed(cache')[a]
    BY <2>1, WalkMoves
  <2> QED
    BY <2>2, Views
<1>13. fork \in Abstract!Nonces
  BY GenuineReady DEF Ready
<1>14. pool' = Abstract!EmptyPool
  BY <1>9 DEF EmptyPool, Abstract!EmptyPool, EmptyMap, Abstract!EmptyMap
<1>15. \E one \in Abstract!ChainOrders(undone), rest \in Abstract!SetToSeqs(pool.txs) :
         readmit' = one \o rest
  <2>1. Abstract!SetToSeqs(pool.txs) = SetToSeqs(pool.txs)
    BY AbstractCardinality DEF Abstract!SetToSeqs, SetToSeqs
  <2> QED
    BY <1>1, <1>11, <2>1
<1>16. IF readmit' = <<>> THEN Abstract!Save ELSE View(saved)' = View(saved)
  <2>1. CASE readmit' = <<>>
    BY <1>1, <1>8, <2>1, ViewSaved
  <2>2. CASE readmit' # <<>>
    <3>1. saved' = saved
      BY <1>2, <1>6, <1>8, <1>9, <2>2, NodeFields DEF Still
    <3> QED
      BY <2>2, <3>1, Views
  <2> QED
    BY <2>1, <2>2
<1> HIDE DEF fork, undone
<1>17. Abstract!StartReorg(undone, fork)
  BY <1>1, <1>10, <1>11, <1>12, <1>14, <1>15, <1>16 DEF Abstract!StartReorg
<1> QED
  BY <1>9, <1>11, <1>13, <1>17 DEF AStep, Abstract!Next
-----------------------------------------------------------------------------
\* The pool takes what admission made of it, with a save if the transfer is in.
LEMMA OfferedPool ==
  ASSUME NEW n, Good(n), AloneIn(n), NEW outcome
  PROVE  LET m == Offered(n, outcome)
         IN /\ Good(m) /\ AloneIn(m) /\ m.cache = n.cache /\ m.pool = outcome.pool
            /\ Confirms(m.blocks) \subseteq Confirms(n.blocks)
            /\ outcome.added => Settled(m)
            /\ ~ outcome.added => m.saved = n.saved
<1> DEFINE l == [n EXCEPT !.pool = outcome.pool]
           m == Offered(n, outcome)
<1>1. m = IF outcome.added THEN Save(l) ELSE l
  BY DEF Offered
<1>2. /\ DOMAIN l = DOMAIN n /\ l.blocks = n.blocks /\ l.cache = n.cache /\ l.anchor = n.anchor
      /\ l.orphans = n.orphans /\ l.saved = n.saved /\ l.pool = outcome.pool
  BY DEF Good
<1> HIDE DEF l, m
<1>3. Good(l) /\ AloneIn(l)
  BY <1>2 DEF Good, AloneIn, Known
<1>4. CASE outcome.added
  <2>1. Good(m) /\ Same(m, l) /\ Bare(m.orphans) /\ Settled(m)
    BY <1>1, <1>3, <1>4, SaveSettles
  <2> QED
    BY <1>2, <1>4, <2>1, BareAlone DEF Same, m
<1>5. CASE ~ outcome.added
  BY <1>1, <1>2, <1>3, <1>5 DEF m
<1> QED
  BY <1>4, <1>5

LEMMA NodeOfferings ==
  ASSUME PoolInv, NEW t
  PROVE  Abstract!AddToMempool(pool, Abstract!Standing, t) = AddToMempool(pool, cache, t)
<1>1. Ready(cache)
  BY GoodReady, NodeFields DEF PoolInv, IInv
<1> QED
  BY <1>1, Views, ReadySame

\* The ledger stays what it was.
LEMMA LedgerStays ==
  cache' = cache => UNCHANGED <<Confirmed(cache), Spendable(cache)>>
  BY Views

LEMMA SubmitPool ==
  ASSUME PoolInv, NEW t \in Tx, Submit(t)
  PROVE  PoolInv' /\ AStep
<1>1. readmit = <<>> /\ readmit' = readmit
  BY DEF Submit, Idle
<1>2. PICK outcome \in AddToMempool(pool, cache, t) : Become(Offered(Node, outcome))
  BY DEF Submit
<1> DEFINE m == Offered(Node, outcome)
<1>3. /\ Good(m) /\ AloneIn(m) /\ m.cache = cache /\ m.pool = outcome.pool
      /\ outcome.added => Settled(m)
      /\ ~ outcome.added => m.saved = saved
  BY OfferedPool, NodeFields DEF PoolInv, IInv
<1>4. Become(m)
  BY <1>2
<1> HIDE DEF m
<1>5. PoolInv' /\ cache' = cache /\ pool' = outcome.pool /\ saved' = m.saved
  BY <1>3, <1>4, BecameAlone
<1>6. outcome.added => Abstract!Save
  BY <1>3, <1>4, ViewSaved
<1>7. ~ outcome.added => View(saved)' = View(saved)
  BY <1>3, <1>5, Views
<1>8. outcome \in Abstract!AddToMempool(pool, Abstract!Standing, t)
  BY <1>2, NodeOfferings
<1>9. Abstract!Offer(t, FALSE)
  BY <1>5, <1>6, <1>7, <1>8, LedgerStays DEF Abstract!Offer
<1>10. Abstract!Submit(t)
  BY <1>1, <1>9 DEF Abstract!Submit
<1> QED
  BY <1>5, <1>10 DEF AStep, Abstract!Next

LEMMA ReadmitPool ==
  ASSUME PoolInv, Readmit
  PROVE  PoolInv' /\ AStep
<1> DEFINE t == Head(readmit)
<1>1. readmit # <<>> /\ readmit' = Tail(readmit)
  BY DEF Readmit, Idle
<1>2. PICK outcome \in AddToMempool(pool, cache, t) :
        Become(Finished(Offered(Node, outcome), readmit'))
  BY DEF Readmit
<1> DEFINE m == Offered(Node, outcome)
           r == Finished(m, readmit')
<1>3. /\ Good(m) /\ AloneIn(m) /\ m.cache = cache /\ m.pool = outcome.pool
      /\ outcome.added => Settled(m)
      /\ ~ outcome.added => m.saved = saved
  BY OfferedPool, NodeFields DEF PoolInv, IInv
<1>4. Become(r)
  BY <1>2
<1> HIDE DEF m
<1>5. /\ Good(r) /\ AloneIn(r) /\ Same(r, m)
      /\ readmit' = <<>> => Settled(r)
      /\ readmit' # <<>> => r = m
  BY <1>3, FinishedSettles
<1> HIDE DEF r
<1>6. PoolInv' /\ cache' = cache /\ pool' = outcome.pool /\ saved' = r.saved
  BY <1>3, <1>4, <1>5, BecameAlone DEF Same
<1>7. outcome.added \/ readmit' = <<>> => Abstract!Save
  BY <1>3, <1>4, <1>5, ViewSaved
<1>8. ~ (outcome.added \/ readmit' = <<>>) => View(saved)' = View(saved)
  BY <1>3, <1>5, <1>6, Views
<1>9. outcome \in Abstract!AddToMempool(pool, Abstract!Standing, t)
  BY <1>2, NodeOfferings
<1>10. Abstract!Offer(t, readmit' = <<>>)
  BY <1>6, <1>7, <1>8, <1>9, LedgerStays DEF Abstract!Offer
<1>11. Abstract!Readmit
  BY <1>1, <1>10 DEF Abstract!Readmit
<1> QED
  BY <1>6, <1>11 DEF AStep, Abstract!Next

LEMMA ExpirePool ==
  ASSUME PoolInv, Expire
  PROVE  PoolInv' /\ AStep
<1>1. /\ blocks' = blocks /\ cache' = cache /\ pool' = pool /\ saved' = saved /\ readmit' = readmit
      /\ orphans'.order = orphans.order /\ orphans'.blks = orphans.blks
  BY NodeFields DEF Expire, PoolInv, IInv, Good, OrphansOk
<1>2. Node'.blocks = blocks' /\ Node'.orphans = orphans'
  BY DEF Node
<1>3. AloneIn(Node') /\ AloneIn(Node)' = AloneIn(Node')
  BY <1>1, <1>2, NodeFields DEF PoolInv, AloneIn, Alone, Bare, Known
<1>4. IInv'
  BY ExpireInv DEF PoolInv
<1>5. UNCHANGED Abstract!vars
  BY <1>1, Views DEF Abstract!vars
<1> QED
  BY <1>3, <1>4, <1>5 DEF PoolInv, AStep

LEMMA SetStorageModePool ==
  ASSUME PoolInv, NEW on, SetStorageMode(on)
  PROVE  PoolInv' /\ AStep
<1> DEFINE m == [Node EXCEPT !.pruning = on]
           r == Save(m)
<1>1. Become(r) /\ readmit = <<>> /\ readmit' = readmit
  BY DEF SetStorageMode, Idle
<1>2. /\ DOMAIN m = DOMAIN Node /\ m.blocks = Node.blocks /\ m.cache = cache
      /\ m.anchor = Node.anchor /\ m.orphans = Node.orphans /\ m.saved = Node.saved /\ m.pool = pool
  BY NodeFields
<1> HIDE DEF m
<1>3. Good(m) /\ AloneIn(m)
  BY <1>2, NodeFields DEF PoolInv, IInv, Good, AloneIn, Known
<1>4. Good(r) /\ Same(r, m) /\ Bare(r.orphans) /\ Settled(r)
  BY <1>3, SaveSettles
<1> HIDE DEF r
<1>5. PoolInv' /\ cache' = cache /\ pool' = pool /\ AloneIn(r)
  BY <1>1, <1>2, <1>4, BareAlone, BecameAlone DEF Same
<1>6. Abstract!Save
  BY <1>1, <1>4, <1>5, ViewSaved
<1>7. Abstract!SetPruneConfig
  BY <1>1, <1>5, <1>6, LedgerStays DEF Abstract!SetPruneConfig
<1> QED
  BY <1>5, <1>7 DEF AStep, Abstract!Next

LEMMA ImportPool ==
  ASSUME PoolInv, NEW h \in Genuine, ImportCheckpoint(h)
  PROVE  PoolInv' /\ AStep
<1> DEFINE m == [Node EXCEPT !.blocks = <<h>>, !.anchor = SnapshotOf(h),
                             !.cache = SnapshotOf(h).state,
                             !.pool = EmptyPool, !.orphans = EmptyOrphans]
           r == Save(m)
<1>1. Become(r) /\ readmit = <<>> /\ readmit' = readmit
  BY DEF ImportCheckpoint, Idle
<1>2. /\ DOMAIN m = DOMAIN Node /\ m.blocks = <<h>> /\ m.cache = SnapshotOf(h).state
      /\ m.anchor = SnapshotOf(h) /\ m.orphans = EmptyOrphans /\ m.saved = saved
      /\ m.pool = EmptyPool
  BY NodeFields
<1> HIDE DEF m
<1>3. SnapshotOf(h) = [height |-> Depth(h), state |-> Header[h].root]
  <2>1. FullReplay(h) = Reached(h)
    BY GenuineAt DEF Genuine
  <2> QED
    BY <2>1 DEF SnapshotOf, Reached
<1>4. IsPiece(<<h>>) /\ <<h>>[1] = h /\ Last(<<h>>) = h
  BY PieceOne DEF Last
<1>5. Good(m)
  BY <1>2, <1>3, <1>4, EmptyOrphansOk, NodeFields DEF Good, Sits, PoolInv, IInv
<1>6. AloneIn(m)
  BY <1>2, BareAlone DEF Bare, EmptyOrphans
<1>7. Good(r) /\ Same(r, m) /\ Bare(r.orphans) /\ Settled(r)
  BY <1>5, <1>6, SaveSettles
<1> HIDE DEF r
<1>8. PoolInv' /\ pool' = EmptyPool /\ AloneIn(r)
  BY <1>1, <1>2, <1>7, BareAlone, BecameAlone DEF Same
<1>9. /\ Confirmed(cache)' \in Abstract!Nonces /\ Spendable(cache)' \in Abstract!Balances0
      /\ Abstract!Save
  BY <1>1, <1>7, <1>8, ViewReady, ViewSaved
<1>10. pool' = Abstract!EmptyPool
  BY <1>8 DEF EmptyPool, Abstract!EmptyPool, EmptyMap, Abstract!EmptyMap
<1>11. Abstract!ImportCheckpoint
  BY <1>1, <1>9, <1>10 DEF Abstract!ImportCheckpoint
<1> QED
  BY <1>8, <1>11 DEF AStep, Abstract!Next

LEMMA RestartPool ==
  ASSUME PoolInv, Restart
  PROVE  PoolInv' /\ AStep
<1> DEFINE loaded == Replayed(saved.blocks, saved.anchor)
           left == {t \in saved.txs : PolicyOk(t)}
           m == [blocks |-> saved.blocks, anchor |-> saved.anchor, cache |-> loaded.st,
                 pool |-> Rebuilt(left, loaded.st),
                 orphans |-> EmptyOrphans, pruning |-> saved.pruning, saved |-> saved]
<1>1. Become(m) /\ readmit' = <<>>
  BY DEF Restart
<1>2. /\ DOMAIN m = {"blocks", "anchor", "cache", "pool", "orphans", "pruning", "saved"}
      /\ m.blocks = saved.blocks /\ m.cache = loaded.st
      /\ m.anchor = saved.anchor /\ m.orphans = EmptyOrphans /\ m.saved = saved
      /\ m.pool = Rebuilt(left, loaded.st)
  OBVIOUS
<1>3. Sits(saved.blocks, saved.anchor)
  BY NodeFields DEF PoolInv, IInv, Good
<1>4. loaded.st = Header[Last(saved.blocks)].root
  <2>1. loaded = Reached(Last(saved.blocks))
    BY <1>3, PieceReplay, PieceEnds DEF Sits, Replayed
  <2> HIDE DEF loaded
  <2> QED
    BY <2>1 DEF Reached
<1> HIDE DEF m, loaded
<1>5. Good(m) /\ AloneIn(m)
  BY <1>2, <1>3, <1>4, EmptyOrphansOk, BareAlone DEF Good, Bare, EmptyOrphans
<1>6. PoolInv' /\ cache' = loaded.st /\ pool' = Rebuilt(left, cache') /\ saved' = saved
  BY <1>1, <1>2, <1>5, BecameAlone
<1>7. /\ View(saved).txs = saved.txs
      /\ View(saved).confirmed = Confirmed(cache') /\ View(saved).spendable = Spendable(cache')
  BY <1>4, <1>6 DEF View
<1>8. left = {t \in View(saved).txs : Abstract!PolicyOk(t)}
  BY <1>7, AbstractPolicy
<1> HIDE DEF left
<1>9. pool' = Abstract!Rebuilt(left, Abstract!Standing')
  BY <1>1, <1>5, <1>6, ViewReady
<1>10. Abstract!Restart
  BY <1>1, <1>6, <1>7, <1>8, <1>9, Views DEF Abstract!Restart
<1> QED
  BY <1>6, <1>10 DEF AStep, Abstract!Next

LEMMA StepPool ==
  ASSUME PoolInv, [Next]_vars
  PROVE  PoolInv' /\ AStep
<1>1. ASSUME NEW h \in Blk, Receive(h)
      PROVE  PoolInv' /\ AStep
  BY <1>1, ReceivePool
<1>2. ASSUME NEW from \in 0..(MaxHeight + 1), NEW tail \in Tails,
             \/ ReceiveLinear(from, tail) \/ RefuseFork(from, tail)
             \/ ReplayFork(from, tail) \/ RedoFork(from, tail)
      PROVE  PoolInv' /\ AStep
  <2>1. from \in Nat
    OBVIOUS
  <2> QED
    BY <1>2, <2>1, ReceiveLinearPool, RefuseForkPool, ReplayForkPool, RedoForkPool
<1>3. CASE Readmit
  BY <1>3, ReadmitPool
<1>4. ASSUME NEW t \in Tx, Submit(t)
      PROVE  PoolInv' /\ AStep
  BY <1>4, SubmitPool
<1>5. CASE Expire
  BY <1>5, ExpirePool
<1>6. ASSUME NEW on \in BOOLEAN, SetStorageMode(on)
      PROVE  PoolInv' /\ AStep
  BY <1>6, SetStorageModePool
<1>7. ASSUME NEW h \in Genuine \ {Genesis}, ImportCheckpoint(h)
      PROVE  PoolInv' /\ AStep
  BY <1>7, ImportPool
<1>8. CASE Restart
  BY <1>8, RestartPool
<1>9. CASE UNCHANGED vars
  <2>1. /\ Node' = Node /\ blocks' = blocks /\ cache' = cache /\ pool' = pool /\ saved' = saved
        /\ readmit' = readmit
    BY <1>9 DEF vars, Node
  <2>2. UNCHANGED Abstract!vars
    BY <2>1, Views DEF Abstract!vars
  <2> QED
    BY <2>1, <2>2 DEF PoolInv, IInv, AStep
<1> QED
  BY <1>1, <1>2, <1>3, <1>4, <1>5, <1>6, <1>7, <1>8, <1>9 DEF Next

LEMMA InitPool == Init => PoolInv /\ Abstract!Init
<1>1. SUFFICES ASSUME Init
               PROVE  PoolInv /\ Abstract!Init
  OBVIOUS
<1>2. IInv
  BY <1>1, InitInv
<1>3. orphans = EmptyOrphans /\ cache = EmptyLedger /\ pool = EmptyPool /\ readmit = <<>>
      /\ saved.blocks = <<Genesis>> /\ saved.txs = {}
  BY <1>1 DEF Init
<1>4. AloneIn(Node)
  BY <1>3, NodeFields, BareAlone DEF Bare, EmptyOrphans
<1>5. Ready(cache)
  BY <1>2, GoodReady, NodeFields DEF IInv
<1>6. Confirmed(cache) = [a \in Account |-> 0]
  BY <1>3 DEF Confirmed, Num, EmptyLedger, EmptyMap
<1>7. View(saved) = Written({}, cache)
  <2>1. Last(<<Genesis>>) = Genesis
    BY DEF Last
  <2>2. Header[Last(saved.blocks)].root = cache
    BY <1>3, <2>1, HeaderAssumption
  <2> QED
    BY <1>3, <2>2 DEF View, Written
<1>8. pool = Abstract!EmptyPool
  BY <1>3 DEF EmptyPool, Abstract!EmptyPool, EmptyMap, Abstract!EmptyMap
<1>9. Abstract!Init
  BY <1>3, <1>5, <1>6, <1>7, <1>8 DEF Abstract!Init, Ready, Written
<1> QED
  BY <1>2, <1>4, <1>9 DEF PoolInv

(* Between two calls at most one orphan waits, and it waits for a block     *)
(* that is not known: the next call discards it.                            *)
THEOREM OrphansWait == Spec => []PoolInv
<1>1. PoolInv /\ [Next]_vars => PoolInv'
  BY StepPool
<1> QED
  BY <1>1, InitPool, PTL DEF Spec

(* The full node's pool behaves as Mempool says it does: every handler of   *)
(* chain.ts, whatever it does to the chain, is a step of Mempool or none.   *)
THEOREM PoolImplementation == Spec => PoolImplemented
<1>1. PoolInv /\ [Next]_vars => [Abstract!Next]_(Abstract!vars)
  BY StepPool DEF AStep
<1>2. Init => Abstract!Init
  BY InitPool
<1> QED
  BY <1>1, <1>2, OrphansWait, PTL DEF Spec, PoolImplemented, Abstract!Spec
-----------------------------------------------------------------------------
(* What Mempool_proofs proves, of the full node's pool.                     *)

MP == INSTANCE Mempool_proofs WITH
  confirmed <- Confirmed(cache), spendable <- Spendable(cache),
  saved <- View(saved), Balance <- 0..MaxSupply

LEMMA MPAssumptions ==
  /\ Tx \subseteq MP!TransferType
  /\ MP!IsFiniteSet(Tx)
  /\ 0..MaxSupply \subseteq Nat
<1>1. Tx \subseteq MP!TransferType
  BY ChainAssumption DEF MP!TransferType, TransferType
<1>2. MP!IsFiniteSet(Tx)
  BY TransferAssumption DEF MP!IsFiniteSet, IsFiniteSet
<1> QED
  BY <1>1, <1>2, LedgerAssumption
LEMMA ClaimedCardinality == \A S : MP!Cardinality(S) = Cardinality(S)
  BY DEF MP!Cardinality, Cardinality

LEMMA ClaimedSum == ASSUME NEW f PROVE MP!SumFunction(f) = SumFunction(f)
  BY DEF MP!SumFunction, SumFunction, MP!SumFunctionOnSet, SumFunctionOnSet,
         MP!FoldFunctionOnSet, FoldFunctionOnSet, MP!MapThenFoldSet, MapThenFoldSet

LEMMA ClaimedRebuilt ==
  ASSUME NEW txs, NEW st
  PROVE  MP!Rebuilt(txs, st) = Rebuilt(txs, st)
  BY ClaimedSum
  DEF MP!Rebuilt, Rebuilt, MP!Usable, Usable, MP!FirstGap, FirstGap,
      MP!NoncesOf, NoncesOf, MP!Num, Num, MP!Senders, Senders,
      MP!Total, Total, MP!Cost, Cost

LEMMA ClaimedEvict ==
  \A txs, t : MP!MaybeEvictForAdmission(txs, t) = MaybeEvictForAdmission(txs, t)
<1>1. \A txs, w : MP!Package(txs, w) = Package(txs, w)
  BY DEF MP!Package, Package
<1>2. \A t, q : MP!Outbids(t, q) <=> Outbids(t, q)
  BY ClaimedSum DEF MP!Outbids, Outbids, MP!Total, Total
<1>3. \A scope : MP!Weakest(scope) = Weakest(scope)
  BY DEF MP!Weakest, Weakest, MP!EvictedBefore, EvictedBefore, MP!Weaker, Weaker,
         MP!RateBelow, RateBelow, MP!RateEqual, RateEqual
<1>4. \A txs, t, scope : MP!EvictFrom(txs, t, scope) = EvictFrom(txs, t, scope)
  BY <1>1, <1>2, <1>3 DEF MP!EvictFrom, EvictFrom
<1>5. \A txs, t : MP!EvictForSender(txs, t) = EvictForSender(txs, t)
  BY <1>4, ClaimedCardinality DEF MP!EvictForSender, EvictForSender
<1>6. \A txs, t : MP!EvictForPool(txs, t) = EvictForPool(txs, t)
  BY <1>4, ClaimedCardinality DEF MP!EvictForPool, EvictForPool
<1> QED
  BY <1>5, <1>6 DEF MP!MaybeEvictForAdmission, MaybeEvictForAdmission

LEMMA ClaimedPolicy == \A t : MP!PolicyOk(t) <=> PolicyOk(t)
  BY DEF MP!PolicyOk, PolicyOk, MP!RelayFee, RelayFee, MP!Max, Max,
         MP!MempoolMinBytes, MempoolMinBytes, MP!MempoolMaxBytes, MempoolMaxBytes

LEMMA ClaimedAdmission ==
  \A p, st, t : MP!AddToMempool(p, st, t) = AddToMempool(p, st, t)
<1>1. ASSUME NEW txs, NEW st, NEW t
      PROVE  MP!Admit(txs, st, t) = Admit(txs, st, t)
  <2>1. \A s : MP!Rebuilt(s, st) = Rebuilt(s, st)
    BY ClaimedRebuilt
  <2>2. \A m, k : MP!Num(m, k) = Num(m, k)
    BY DEF MP!Num, Num
  <2>3. MP!Cost(t) = Cost(t)
    BY DEF MP!Cost, Cost
  <2>4. (MP!Num(st.bal, t.from) - MP!Num(MP!Rebuilt(txs, st).held, t.from) >= MP!Cost(t))
          <=> (Num(st.bal, t.from) - Num(Rebuilt(txs, st).held, t.from) >= Cost(t))
    BY <2>1, <2>2, <2>3, Zenon
  <2> QED
    BY <2>1, <2>4, Zenon DEF MP!Admit, Admit
<1>2. ASSUME NEW p, NEW st, NEW t
      PROVE  MP!Acceptable(p, st, t) <=> Acceptable(p, st, t)
  <2>1. MP!NextNonce(p, st, t.from) = NextNonce(p, st, t.from)
    BY DEF MP!NextNonce, NextNonce, MP!Num, Num
  <2> QED
    BY <2>1, ClaimedPolicy DEF MP!Acceptable, Acceptable
<1>3. ASSUME NEW p, NEW st, NEW t
      PROVE  MP!AddToMempool(p, st, t) = AddToMempool(p, st, t)
  <2>1. MP!Acceptable(p, st, t) <=> Acceptable(p, st, t)
    BY <1>2
  <2>2. MP!MaybeEvictForAdmission(p.txs, t) = MaybeEvictForAdmission(p.txs, t)
    BY ClaimedEvict
  <2>3. \A s : MP!Rebuilt(s, st) = Rebuilt(s, st) /\ MP!Admit(s, st, t) = Admit(s, st, t)
    BY <1>1, ClaimedRebuilt
  <2>4. CASE ~ Acceptable(p, st, t)
    BY <2>1, <2>4 DEF MP!AddToMempool, AddToMempool
  <2>5. CASE Acceptable(p, st, t)
    <3>1. MP!AddToMempool(p, st, t)
            = {IF e.ok THEN MP!Admit(e.txs, st, t)
                       ELSE [added |-> FALSE,
                             pool |-> IF e.txs = p.txs THEN p ELSE MP!Rebuilt(e.txs, st)] :
                 e \in MP!MaybeEvictForAdmission(p.txs, t)}
      BY <2>1, <2>5 DEF MP!AddToMempool
    <3>2. AddToMempool(p, st, t)
            = {IF e.ok THEN Admit(e.txs, st, t)
                       ELSE [added |-> FALSE,
                             pool |-> IF e.txs = p.txs THEN p ELSE Rebuilt(e.txs, st)] :
                 e \in MaybeEvictForAdmission(p.txs, t)}
      BY <2>5 DEF AddToMempool
    <3> QED
      BY <2>2, <2>3, <3>1, <3>2
  <2> QED
    BY <2>4, <2>5
<1> QED
  BY <1>3

LEMMA ClaimedParts ==
  /\ MP!Nonces = Abstract!Nonces /\ MP!Balances0 = Abstract!Balances0
  /\ MP!Standing = Abstract!Standing /\ MP!vars = Abstract!vars /\ MP!EmptyPool = Abstract!EmptyPool
  /\ \A body : MP!ChainOrders(body) = Abstract!ChainOrders(body)
  /\ \A body, from, to : MP!Moves(body, from, to) <=> Abstract!Moves(body, from, to)
<1>1. \A txs, a : MP!NoncesOf(txs, a) = Abstract!NoncesOf(txs, a)
  BY DEF MP!NoncesOf, Abstract!NoncesOf
<1>2. MP!Nonces = Abstract!Nonces
  BY <1>1 DEF MP!Nonces, Abstract!Nonces
<1>3. \A body, from, to : MP!Moves(body, from, to) <=> Abstract!Moves(body, from, to)
  BY <1>1 DEF MP!Moves, Abstract!Moves, MP!UniqueNonces, Abstract!UniqueNonces
<1>4. \A body : MP!SetToSeqs(body) = Abstract!SetToSeqs(body)
  BY ClaimedCardinality, AbstractCardinality DEF MP!SetToSeqs, Abstract!SetToSeqs
<1>5. \A body : MP!ChainOrders(body) = Abstract!ChainOrders(body)
  BY <1>4 DEF MP!ChainOrders, Abstract!ChainOrders
<1>6. MP!Balances0 = Abstract!Balances0 /\ MP!Standing = Abstract!Standing /\ MP!vars = Abstract!vars
  BY DEF MP!Balances0, Abstract!Balances0, MP!Standing, Abstract!Standing, MP!vars, Abstract!vars
<1>7. MP!EmptyPool = Abstract!EmptyPool
  BY DEF MP!EmptyPool, Abstract!EmptyPool, MP!EmptyMap, Abstract!EmptyMap
<1> QED
  BY <1>2, <1>3, <1>5, <1>6, <1>7

LEMMA ClaimedOffers ==
  /\ MP!Save <=> Abstract!Save
  /\ \A t, anyway : MP!Offer(t, anyway) <=> Abstract!Offer(t, anyway)
  /\ \A t : Abstract!Submit(t) => MP!Submit(t)
<1>1. \A p, st, t : MP!AddToMempool(p, st, t) = Abstract!AddToMempool(p, st, t)
  BY ClaimedAdmission, AbstractAdmission
<1>2. MP!Save <=> Abstract!Save
  BY DEF MP!Save, Abstract!Save
<1>3. \A t, anyway : MP!Offer(t, anyway) <=> Abstract!Offer(t, anyway)
  BY <1>1, <1>2, ClaimedParts DEF MP!Offer, Abstract!Offer
<1>4. \A t : Abstract!Submit(t) => MP!Submit(t)
  BY <1>3 DEF MP!Submit, Abstract!Submit
<1> QED
  BY <1>2, <1>3, <1>4

LEMMA ClaimedSpec == (Abstract!Init => MP!Init) /\ (Abstract!Next => MP!Next)
<1>1. Abstract!Init => MP!Init
  BY ClaimedParts DEF MP!Init, Abstract!Init
<1>2. \A txs, st : MP!Rebuilt(txs, st) = Abstract!Rebuilt(txs, st)
  BY ClaimedRebuilt, AbstractRebuilt
<1>3. MP!Standing' = Abstract!Standing'
  BY DEF MP!Standing, Abstract!Standing
<1>4. \A body : Abstract!Connect(body) => MP!Connect(body)
  BY <1>2, ClaimedOffers, <1>3, ClaimedParts DEF MP!Connect, Abstract!Connect
<1>5. \A undone, fork : Abstract!StartReorg(undone, fork) => MP!StartReorg(undone, fork)
  <2>1. \A S : MP!SetToSeqs(S) = Abstract!SetToSeqs(S)
    BY ClaimedCardinality, AbstractCardinality DEF MP!SetToSeqs, Abstract!SetToSeqs
  <2> QED
    BY <2>1, ClaimedOffers, ClaimedParts DEF MP!StartReorg, Abstract!StartReorg
<1>6. Abstract!Readmit => MP!Readmit
  BY ClaimedOffers DEF MP!Readmit, Abstract!Readmit
<1>7. Abstract!ReorgRebuild => MP!ReorgRebuild
  BY <1>2, ClaimedOffers, <1>3, ClaimedParts DEF MP!ReorgRebuild, Abstract!ReorgRebuild
<1>8. Abstract!ImportCheckpoint => MP!ImportCheckpoint
  BY ClaimedOffers, ClaimedParts DEF MP!ImportCheckpoint, Abstract!ImportCheckpoint
<1>9. Abstract!SetPruneConfig => MP!SetPruneConfig
  BY ClaimedOffers DEF MP!SetPruneConfig, Abstract!SetPruneConfig
<1>10. Abstract!Restart => MP!Restart
  <2>1. \A t : MP!PolicyOk(t) <=> Abstract!PolicyOk(t)
    BY ClaimedPolicy, AbstractPolicy
  <2> QED
    BY <2>1, <1>2, <1>3 DEF MP!Restart, Abstract!Restart
<1>11. Abstract!Next => MP!Next
  BY ClaimedOffers, <1>4, <1>5, <1>6, <1>7, <1>8, <1>9, <1>10, ClaimedParts DEF MP!Next, Abstract!Next
<1> QED
  BY <1>1, <1>11

\* What Mempool's invariant says, of the node's own pool and save.
PoolKept ==
  /\ Abstract!IndexFresh
  /\ Abstract!UniqueNonce
  /\ Abstract!PoolBounded
  /\ Abstract!AcceptedIsSaved

LEMMA InductiveKept == MP!Inductive => PoolKept
<1> SUFFICES ASSUME MP!Inductive PROVE PoolKept
  OBVIOUS
<1>1. Abstract!IndexFresh
  BY ClaimedRebuilt, AbstractRebuilt, ClaimedParts DEF MP!Inductive, MP!IndexFresh, Abstract!IndexFresh
<1>2. Abstract!UniqueNonce
  BY DEF MP!Inductive, MP!UniqueNonces, Abstract!UniqueNonce, Abstract!UniqueNonces
<1>3. Abstract!PoolBounded
  BY ClaimedCardinality, AbstractCardinality DEF MP!Inductive, MP!Bounded, MP!OwnOf, Abstract!PoolBounded
<1>4. Abstract!AcceptedIsSaved
  BY DEF MP!Inductive, MP!AcceptedIsSaved, Abstract!AcceptedIsSaved
<1> QED
  BY <1>1, <1>2, <1>3, <1>4 DEF PoolKept

LEMMA ClaimedBehaviour == Spec => MP!Spec
<1>1. [Abstract!Next]_(Abstract!vars) => [MP!Next]_(MP!vars)
  BY ClaimedSpec, ClaimedParts DEF MP!vars, Abstract!vars
<1>2. Spec => Abstract!Spec
  BY PoolImplementation DEF PoolImplemented
<1> QED
  BY <1>1, <1>2, ClaimedSpec, PTL DEF Abstract!Spec, MP!Spec

LEMMA ClaimedInvariant == Spec => []MP!Inductive
<1>1. MP!Inductive /\ [MP!Next]_(MP!vars) => MP!Inductive'
  BY MP!InductiveStep, MPAssumptions, LedgerAssumption, PoolAssumption
<1>2. MP!Init => MP!Inductive
  BY MP!InductiveInit, MPAssumptions, LedgerAssumption, PoolAssumption
<1> QED
  BY <1>1, <1>2, ClaimedBehaviour, PTL DEF MP!Spec

(* The full node's pool stays within its limits, holds no two transfers     *)
(* with one sender and nonce, and its index is what a rebuild would make; a *)
(* transfer reported as accepted is in the file.                            *)
THEOREM PoolAlwaysKept == Spec => []PoolKept
  BY ClaimedInvariant, InductiveKept, PTL

(* What the full node evicts from its pool takes along all that the sender  *)
(* has pending after it.                                                    *)
THEOREM PoolEvictsTails == Spec => Abstract!EvictionTakesTail
<1>1. MP!Spec => MP!EvictionTakesTail
  BY MP!EvictionAlwaysTail, MPAssumptions, LedgerAssumption, PoolAssumption
<1>2. MP!EvictionTakesTail => Abstract!EvictionTakesTail
  <2>1. \A t : Abstract!Submit(t) => MP!Submit(t)
    BY ClaimedOffers
  <2>2. [\A t \in Tx : MP!Submit(t) =>
          \A gone \in pool.txs \ pool'.txs, kept \in pool.txs \cap pool'.txs :
            gone.from = kept.from => kept.nonce < gone.nonce]_(MP!vars)
        => [\A t \in Tx : Abstract!Submit(t) =>
          \A gone \in pool.txs \ pool'.txs, kept \in pool.txs \cap pool'.txs :
            gone.from = kept.from => kept.nonce < gone.nonce]_(Abstract!vars)
    BY <2>1 DEF MP!vars, Abstract!vars
  <2> QED
    BY <2>2, PTL DEF MP!EvictionTakesTail, Abstract!EvictionTakesTail
<1> QED
  BY <1>1, <1>2, ClaimedBehaviour, PTL
-----------------------------------------------------------------------------
(* What is pending is not confirmed. *)

\* What the node has pending, and has saved as such, is not on its own blocks.
ApartIn(n) ==
  /\ n.pool.txs \cap Confirms(n.blocks) = {}
  /\ n.saved.txs \cap Confirms(n.saved.blocks) = {}

LEMMA ConfirmsOne == \A h : Confirms(<<h>>) = {}
  BY DEF Confirms

LEMMA ConfirmsIn ==
  ASSUME NEW Q \in Seq(Blk)
  PROVE  Confirms(Q) \subseteq Tx
  BY TransferAssumption DEF Confirms

LEMMA PieceBody == \A Q : IsPiece(Q) => ToSet(BodyOf(Tail(Q))) = Confirms(Q)
<1> DEFINE K == {Q \in Seq(Blk) : ToSet(BodyOf(Tail(Q))) = Confirms(Q)}
<1>1. ASSUME NEW h \in Genuine
      PROVE  <<h>> \in K
  <2>1. Tail(<<h>>) = <<>> /\ <<h>> \in Seq(Blk)
    BY DEF Genuine
  <2>2. BodyOf(Tail(<<h>>)) = <<>>
    BY <2>1, BodyOne
  <2>3. ToSet(<<>>) = {}
    BY DEF ToSet
  <2> QED
    BY <2>1, <2>2, <2>3, ConfirmsOne
<1>2. ASSUME NEW P \in Seq(Blk) \ {<<>>}, NEW h \in Genuine \ {Genesis},
             IsPiece(P), Header[h].prev = P[Len(P)], P \in K
      PROVE  Append(P, h) \in K
  <2> DEFINE Q == Append(P, h)
  <2>1. h \in Blk /\ Tail(P) \in Seq(Blk) /\ Tail(Q) = Append(Tail(P), h) /\ Q \in Seq(Blk)
    BY DEF Genuine
  <2>2. BodyOf(Tail(Q)) = BodyOf(Tail(P)) \o Header[h].txs
    BY <2>1, BodyMore
  <2>3. BodyOf(Tail(P)) \in Seq(Tx)
    BY <1>2, PieceWalked DEF PieceWalks, Walk
  <2>4. Header[h].txs \in Seq(Tx)
    BY <2>1, BodyTypes
  <2>5. ToSet(BodyOf(Tail(P)) \o Header[h].txs) = ToSet(BodyOf(Tail(P))) \cup ToSet(Header[h].txs)
    <3> DEFINE s == BodyOf(Tail(P))
               t == Header[h].txs
    <3>1. s \in Seq(Tx) /\ t \in Seq(Tx)
      BY <2>3, <2>4
    <3> HIDE DEF s, t
    <3>2. Len(s) \in Nat /\ Len(t) \in Nat /\ Len(s \o t) = Len(s) + Len(t) /\ s \o t \in Seq(Tx)
      BY <3>1
    <3>3. /\ \A i \in 1..Len(s) : i \in 1..Len(s \o t) /\ (s \o t)[i] = s[i]
          /\ \A i \in 1..Len(t) : Len(s) + i \in 1..Len(s \o t) /\ (s \o t)[Len(s) + i] = t[i]
      BY <3>1, <3>2
    <3>4. \A i \in 1..Len(s \o t) : i \in 1..Len(s) \/ i - Len(s) \in 1..Len(t)
      BY <3>2
    <3>5. ToSet(s \o t) = ToSet(s) \cup ToSet(t)
      <4>1. /\ ToSet(s) = {s[i] : i \in 1..Len(s)} /\ ToSet(t) = {t[i] : i \in 1..Len(t)}
            /\ ToSet(s \o t) = {(s \o t)[i] : i \in 1..Len(s \o t)}
        BY <3>1, <3>2 DEF ToSet
      <4>2. ASSUME NEW i \in 1..Len(s \o t)
            PROVE  (s \o t)[i] \in ToSet(s) \cup ToSet(t)
        <5>1. CASE i \in 1..Len(s)
          BY <5>1, <4>1, <3>3
        <5>2. CASE i - Len(s) \in 1..Len(t)
          <6>1. Len(s) + (i - Len(s)) = i
            BY <3>2
          <6>2. (s \o t)[i] = t[i - Len(s)]
            BY <5>2, <6>1, <3>3
          <6> QED
            BY <5>2, <6>2, <4>1
        <5> QED
          BY <5>1, <5>2, <3>4
      <4>3. \A i \in 1..Len(s) : s[i] \in ToSet(s \o t)
        BY <4>1, <3>3
      <4>4. \A i \in 1..Len(t) : t[i] \in ToSet(s \o t)
        BY <4>1, <3>3
      <4> HIDE DEF s, t
      <4> QED
        BY <4>1, <4>2, <4>3, <4>4
    <3> QED
      BY <3>5 DEF s, t
  <2>6. Confirms(Q) = Confirms(P) \cup ToSet(Header[h].txs)
    BY <2>1, ConfirmsMore
  <2> HIDE DEF Q
  <2> QED
    BY <1>2, <2>1, <2>2, <2>5, <2>6 DEF Q
<1> HIDE DEF K
<1>3. \A Q : IsPiece(Q) => Q \in K
  BY <1>1, <1>2, PieceSet
<1> QED
  BY <1>3 DEF K

\* A confirmed transfer's nonce is confirmed.
LEMMA ConfirmedNonces ==
  ASSUME NEW Q, IsPiece(Q), NEW t \in Confirms(Q)
  PROVE  t.nonce <= Num(Header[Q[Len(Q)]].root.nonce, t.from)
<1> DEFINE s == BodyOf(Tail(Q))
           to == Header[Q[Len(Q)]].root.nonce
           from == Header[Q[1]].root.nonce
<1>1. Walk(s, from, to)
  BY PieceWalked DEF PieceWalks
<1>2. t \in ToSet(s)
  BY PieceBody
<1> HIDE DEF s, to, from
<1>3. PICK i \in DOMAIN s : s[i] = t
  BY <1>2 DEF ToSet
<1>4. t.nonce \in NoncesIn(s, t.from)
  BY <1>3 DEF NoncesIn
<1>5. /\ Num(from, t.from) \in Nat /\ Num(to, t.from) \in Nat
      /\ NoncesIn(s, t.from) = (Num(from, t.from) + 1)..Num(to, t.from)
  BY <1>1 DEF Walk
<1>6. t.nonce <= Num(to, t.from)
  BY <1>4, <1>5
<1> QED
  BY <1>6 DEF to

\* The pages and the save say so of a node that is what it should be.
LEMMA PagesApart == IInv => (AllApart <=> ApartIn(Node))
<1> SUFFICES ASSUME IInv PROVE AllApart <=> ApartIn(Node)
  OBVIOUS
<1>1. IsPiece(blocks) /\ IsPiece(saved.blocks)
  BY NodeFields DEF IInv, Good, Sits
<1>2. blocks \in Seq(Blk) /\ Len(blocks) \in Nat \ {0}
  BY <1>1, PieceEnds
<1>3. ToSet(BodyOf(Tail(saved.blocks))) = Confirms(saved.blocks)
  BY <1>1, PieceBody
<1>4. ASSUME NEW t
      PROVE  Places(t) = {} <=> t \notin Confirms(blocks)
  <2>1. Places(t) = {p \in 1..(Len(blocks) - 1) : t \in ToSet(Header[blocks[p + 1]].txs)}
    BY DEF Places, Place, At
  <2>2. ASSUME NEW i \in 2..Len(blocks), t \in ToSet(Header[blocks[i]].txs)
        PROVE  Places(t) # {}
    <3>1. i - 1 \in 1..(Len(blocks) - 1) /\ (i - 1) + 1 = i
      BY <1>2
    <3> QED
      BY <2>1, <2>2, <3>1
  <2>3. ASSUME NEW p \in 1..(Len(blocks) - 1), t \in ToSet(Header[blocks[p + 1]].txs)
        PROVE  t \in Confirms(blocks)
    <3>1. p + 1 \in 2..Len(blocks)
      BY <1>2
    <3> QED
      BY <2>3, <3>1 DEF Confirms
  <2>4. t \in Confirms(blocks) => \E i \in 2..Len(blocks) : t \in ToSet(Header[blocks[i]].txs)
    BY DEF Confirms
  <2> QED
    BY <2>1, <2>2, <2>3, <2>4
<1>5. \A t : TxPage(t).status = "pending" <=> t \in pool.txs
  BY DEF TxPage
<1>6. Confirms(blocks) \subseteq Tx
  BY <1>2, ConfirmsIn
<1>7. (\A t \in Tx : TxPage(t).status = "pending" => Places(t) = {})
        <=> pool.txs \cap Confirms(blocks) = {}
  BY <1>4, <1>5, <1>6
<1> QED
  BY <1>3, <1>7, NodeFields DEF AllApart, ApartIn

\* The node that comes of a step is apart.
LEMMA BecameApart ==
  ASSUME NEW n, Become(n), ApartIn(n), IInv'
  PROVE  AllApart'
<1>1. IInv' => (AllApart' <=> ApartIn(Node)')
  BY PagesApart, PTL
<1>2. blocks' = n.blocks /\ pool' = n.pool /\ saved' = n.saved
  BY DEF Become
<1>3. ApartIn(Node)' <=> /\ pool'.txs \cap Confirms(blocks') = {}
                         /\ saved'.txs \cap Confirms(saved'.blocks) = {}
  BY DEF ApartIn, Node, Confirms
<1> QED
  BY <1>1, <1>2, <1>3 DEF ApartIn

\* What is settled is apart once its pool is.
LEMMA SettledApart ==
  ASSUME NEW m, Settled(m), m.pool.txs \cap Confirms(m.blocks) = {}
  PROVE  ApartIn(m)
  BY DEF Settled, ApartIn

LEMMA AdvancesApart ==
  ASSUME NEW m, NEW n, Advances(m, n), ApartIn(n)
  PROVE  ApartIn(m)
<1>1. CASE Still(m, n)
  BY <1>1 DEF Still, ApartIn
<1>2. ASSUME NEW s, Carried(m, n, s)
      PROVE  ApartIn(m)
  <2>1. m.pool.txs = n.pool.txs \ ToSet(s)
    BY <1>2, RebuiltTxs DEF Carried
  <2>2. m.pool.txs \cap Confirms(m.blocks) = {}
    BY <1>2, <2>1 DEF Carried, ApartIn
  <2> QED
    BY <1>2, <2>2, SettledApart DEF Carried
<1> QED
  BY <1>1, <1>2 DEF Advances
-----------------------------------------------------------------------------
(* Action by action. *)

PendInv == PoolInv /\ MP!Inductive

LEMMA ReceiveApart ==
  ASSUME PendInv, ApartIn(Node), NEW h \in Blk, Receive(h), IInv'
  PROVE  AllApart'
<1>1. Advances(TryAddBlock(Node, h), Node)
  BY TryAddBlockAdvances DEF PendInv, PoolInv, IInv
<1> QED
  BY <1>1, AdvancesApart, BecameApart DEF Receive

LEMMA ReceiveLinearApart ==
  ASSUME PendInv, ApartIn(Node), NEW from, NEW tail \in Tails, ReceiveLinear(from, tail), IInv'
  PROVE  AllApart'
<1> DEFINE m == Swept(Node)
           l == AddRange(m, tail)
<1>1. Good(Node) /\ AloneIn(Node)
  BY DEF PendInv, PoolInv, IInv
<1>2. Good(m) /\ AloneIn(m) /\ Advances(m, Node)
  BY <1>1, SweptBare, BareAlone DEF Advances
<1>3. Become(l)
  BY DEF ReceiveLinear
<1> HIDE DEF m
<1>4. Advances(l, m)
  BY <1>2, TailType, AddRangeAdvances
<1> HIDE DEF l
<1>5. Advances(l, Node)
  BY <1>2, <1>4, AdvancesOn
<1> QED
  BY <1>3, <1>5, AdvancesApart, BecameApart

LEMMA RefuseForkApart ==
  ASSUME PendInv, ApartIn(Node), NEW from, NEW tail, RefuseFork(from, tail), IInv'
  PROVE  AllApart'
<1>1. Advances(Swept(Node), Node)
  BY SweptBare, BareAlone DEF PendInv, PoolInv, IInv, Advances
<1> QED
  BY <1>1, AdvancesApart, BecameApart DEF RefuseFork

LEMMA RedoForkApart ==
  ASSUME PendInv, ApartIn(Node), NEW from \in Nat, NEW tail \in Tails, RedoFork(from, tail), IInv'
  PROVE  AllApart'
<1> DEFINE Q == Incoming(Node, from, tail)
           m == Swept(Node)
           l == AdoptByUndo(m, Q)
           r == Finished(l, readmit')
<1>1. Adoptable(Node, Q) /\ Redo(Node, Q).ok /\ Become(r)
  BY DEF RedoFork
<1>2. /\ Good(m) /\ Still(m, Node) /\ Bare(m.orphans)
      /\ Q \in Seq(Blk) \ {<<>>} /\ Q[1] = m.blocks[1]
      /\ Adoptable(m, Q) /\ Redo(m, Q).ok
  <2>1. Redo(m, Q).ok
    BY <1>1, SweptSame DEF PendInv, PoolInv, IInv
  <2> QED
    BY <1>1, <2>1, AdoptionGround DEF PendInv
<1> HIDE DEF Q
<1>3. l = [m EXCEPT !.blocks = Q, !.cache = Redo(m, Q).st, !.pool = EmptyPool]
  BY DEF AdoptByUndo
<1> HIDE DEF m, l
<1>4. l.pool = EmptyPool /\ l.orphans = m.orphans /\ l.saved = m.saved
  BY <1>2, <1>3 DEF Good
<1>5. Good(l) /\ AloneIn(l)
  BY <1>2, <1>4, AdoptByUndoGood, BareAlone DEF l
<1>6. /\ Same(r, l)
      /\ readmit' = <<>> => Settled(r)
      /\ readmit' # <<>> => r = l
  BY <1>5, FinishedSettles
<1> HIDE DEF r
<1>7. r.pool.txs = {}
  BY <1>4, <1>6 DEF Same, EmptyPool
<1>8. CASE readmit' = <<>>
  BY <1>1, <1>6, <1>7, <1>8, SettledApart, BecameApart
<1>9. CASE readmit' # <<>>
  <2>1. r.saved = Node.saved
    BY <1>2, <1>4, <1>6, <1>9 DEF Still
  <2>2. ApartIn(r)
    BY <1>7, <2>1 DEF ApartIn
  <2> QED
    BY <1>1, <2>2, BecameApart
<1> QED
  BY <1>8, <1>9

\* What admission leaves in the pool is not confirmed.
LEMMA OutcomeApart ==
  ASSUME PendInv, ApartIn(Node), NEW t \in Tx, NEW outcome \in AddToMempool(pool, cache, t)
  PROVE  outcome.pool.txs \cap Confirms(blocks) = {}
<1>1. outcome \in MP!AddToMempool(pool, MP!Standing, t)
  <2>1. outcome \in Abstract!AddToMempool(pool, Abstract!Standing, t)
    BY NodeOfferings DEF PendInv
  <2>2. MP!AddToMempool(pool, MP!Standing, t) = Abstract!AddToMempool(pool, Abstract!Standing, t)
    BY ClaimedAdmission, AbstractAdmission, ClaimedParts
  <2> QED
    BY <2>1, <2>2
<1>2. PICK rest \in SUBSET pool.txs :
        \/ outcome.pool = MP!Rebuilt(rest, MP!Standing)
        \/ /\ outcome.pool = MP!Rebuilt(rest \cup {t}, MP!Standing)
           /\ t.nonce > MP!Num(MP!Standing.nonce, t.from)
  <2>1. MP!Inductive
    BY DEF PendInv
  <2> QED
    BY <1>1, <2>1, MP!Outcome, MPAssumptions, LedgerAssumption, PoolAssumption
<1>3. \A txs, st : MP!Rebuilt(txs, st).txs = txs
  BY ClaimedRebuilt, RebuiltTxs
<1>4. rest \cap Confirms(blocks) = {}
  BY NodeFields DEF ApartIn
<1>5. CASE outcome.pool = MP!Rebuilt(rest, MP!Standing)
  BY <1>3, <1>4, <1>5
<1>6. CASE /\ outcome.pool = MP!Rebuilt(rest \cup {t}, MP!Standing)
           /\ t.nonce > MP!Num(MP!Standing.nonce, t.from)
  <2>1. t.from \in Account /\ t.nonce \in Nat
    BY ChainAssumption DEF TransferType
  <2>2. MP!Num(MP!Standing.nonce, t.from) = Num(cache.nonce, t.from)
    BY <2>1 DEF MP!Standing, Confirmed, MP!Num, Num
  <2>3. IsPiece(blocks) /\ cache = Header[blocks[Len(blocks)]].root
    BY NodeFields, GoodTip DEF PendInv, PoolInv, IInv, Good
  <2>4. Num(cache.nonce, t.from) \in Nat
    BY <2>3, PieceEnds, GenuineNonced, NoncedNat
  <2>5. t \notin Confirms(blocks)
    BY <1>6, <2>1, <2>2, <2>3, <2>4, ConfirmedNonces
  <2> QED
    BY <1>3, <1>4, <1>6, <2>5
<1> QED
  BY <1>2, <1>5, <1>6

LEMMA OfferedApart ==
  ASSUME PendInv, ApartIn(Node), NEW t \in Tx, NEW outcome \in AddToMempool(pool, cache, t)
  PROVE  LET m == Offered(Node, outcome)
         IN Good(m) /\ AloneIn(m) /\ ApartIn(m)
<1> DEFINE m == Offered(Node, outcome)
<1>1. /\ Good(m) /\ AloneIn(m) /\ m.pool = outcome.pool
      /\ Confirms(m.blocks) \subseteq Confirms(blocks)
      /\ outcome.added => Settled(m)
      /\ ~ outcome.added => m.saved = Node.saved
  BY OfferedPool, NodeFields DEF PendInv, PoolInv, IInv
<1>2. outcome.pool.txs \cap Confirms(blocks) = {}
  BY OutcomeApart
<1> HIDE DEF m
<1>3. m.pool.txs \cap Confirms(m.blocks) = {}
  BY <1>1, <1>2
<1>4. ApartIn(m)
  BY <1>1, <1>3, SettledApart DEF ApartIn
<1> QED
  BY <1>1, <1>4 DEF m

LEMMA SubmitApart ==
  ASSUME PendInv, ApartIn(Node), NEW t \in Tx, Submit(t), IInv'
  PROVE  AllApart'
<1>1. PICK outcome \in AddToMempool(pool, cache, t) : Become(Offered(Node, outcome))
  BY DEF Submit
<1> QED
  BY <1>1, OfferedApart, BecameApart

LEMMA ReadmitApart ==
  ASSUME PendInv, ApartIn(Node), Readmit, IInv'
  PROVE  AllApart'
<1> DEFINE t == Head(readmit)
<1>1. PICK outcome \in AddToMempool(pool, cache, t) :
        Become(Finished(Offered(Node, outcome), readmit'))
  BY DEF Readmit
<1>2. t \in Tx
  <2>1. readmit \in Seq(Tx) /\ readmit # <<>>
    BY DEF PendInv, MP!Inductive, MP!TypeOK, Readmit, Idle
  <2> QED
    BY <2>1
<1> DEFINE m == Offered(Node, outcome)
           r == Finished(m, readmit')
<1>3. Good(m) /\ AloneIn(m) /\ ApartIn(m)
  BY <1>2, OfferedApart
<1>4. Become(r)
  BY <1>1
<1> HIDE DEF m
<1>5. /\ Same(r, m)
      /\ readmit' = <<>> => Settled(r)
      /\ readmit' # <<>> => r = m
  BY <1>3, FinishedSettles
<1> HIDE DEF r
<1>6. r.pool.txs \cap Confirms(r.blocks) = {}
  BY <1>3, <1>5 DEF Same, ApartIn
<1>7. ApartIn(r)
  BY <1>3, <1>5, <1>6, SettledApart
<1> QED
  BY <1>4, <1>7, BecameApart

LEMMA ExpireApart ==
  ASSUME PendInv, ApartIn(Node), Expire, IInv'
  PROVE  AllApart'
<1>1. IInv' => (AllApart' <=> ApartIn(Node)')
  BY PagesApart, PTL
<1>2. ApartIn(Node)'
  BY DEF Expire, ApartIn, Node, Confirms
<1> QED
  BY <1>1, <1>2

LEMMA SetStorageModeApart ==
  ASSUME PendInv, ApartIn(Node), NEW on, SetStorageMode(on), IInv'
  PROVE  AllApart'
<1> DEFINE m == [Node EXCEPT !.pruning = on]
           r == Save(m)
<1>1. Become(r)
  BY DEF SetStorageMode
<1>2. /\ DOMAIN m = DOMAIN Node /\ m.blocks = Node.blocks /\ m.cache = cache
      /\ m.anchor = Node.anchor /\ m.orphans = Node.orphans /\ m.saved = Node.saved
      /\ m.pool = Node.pool
  BY NodeFields
<1> HIDE DEF m
<1>3. Good(m) /\ AloneIn(m)
  BY <1>2, NodeFields DEF PendInv, PoolInv, IInv, Good, AloneIn, Known
<1>4. Same(r, m) /\ Settled(r)
  BY <1>3, SaveSettles
<1> HIDE DEF r
<1>5. r.pool.txs \cap Confirms(r.blocks) = {}
  BY <1>2, <1>4 DEF Same, ApartIn
<1> QED
  BY <1>1, <1>4, <1>5, SettledApart, BecameApart

LEMMA ImportApart ==
  ASSUME PendInv, NEW h \in Genuine, ImportCheckpoint(h), IInv'
  PROVE  AllApart'
<1> DEFINE m == [Node EXCEPT !.blocks = <<h>>, !.anchor = SnapshotOf(h),
                             !.cache = SnapshotOf(h).state,
                             !.pool = EmptyPool, !.orphans = EmptyOrphans]
           r == Save(m)
<1>1. Become(r)
  BY DEF ImportCheckpoint
<1>2. /\ DOMAIN m = DOMAIN Node /\ m.blocks = <<h>> /\ m.cache = SnapshotOf(h).state
      /\ m.anchor = SnapshotOf(h) /\ m.orphans = EmptyOrphans /\ m.saved = saved
      /\ m.pool = EmptyPool
  BY NodeFields
<1> HIDE DEF m
<1>3. SnapshotOf(h) = [height |-> Depth(h), state |-> Header[h].root]
  <2>1. FullReplay(h) = Reached(h)
    BY GenuineAt DEF Genuine
  <2> QED
    BY <2>1 DEF SnapshotOf, Reached
<1>4. IsPiece(<<h>>) /\ <<h>>[1] = h /\ Last(<<h>>) = h
  BY PieceOne DEF Last
<1>5. Good(m)
  BY <1>2, <1>3, <1>4, EmptyOrphansOk, NodeFields DEF Good, Sits, PendInv, PoolInv, IInv
<1>6. AloneIn(m)
  BY <1>2, BareAlone DEF Bare, EmptyOrphans
<1>7. Same(r, m) /\ Settled(r)
  BY <1>5, <1>6, SaveSettles
<1> HIDE DEF r
<1>8. r.pool.txs = {}
  BY <1>2, <1>7 DEF Same, EmptyPool
<1> QED
  BY <1>1, <1>7, <1>8, SettledApart, BecameApart

LEMMA RestartApart ==
  ASSUME PendInv, ApartIn(Node), Restart, IInv'
  PROVE  AllApart'
<1> DEFINE loaded == Replayed(saved.blocks, saved.anchor)
           left == {t \in saved.txs : PolicyOk(t)}
           m == [blocks |-> saved.blocks, anchor |-> saved.anchor, cache |-> loaded.st,
                 pool |-> Rebuilt(left, loaded.st),
                 orphans |-> EmptyOrphans, pruning |-> saved.pruning, saved |-> saved]
<1>1. Become(m)
  BY DEF Restart
<1>2. m.blocks = saved.blocks /\ m.saved = saved /\ m.pool = Rebuilt(left, loaded.st)
  OBVIOUS
<1> HIDE DEF m, loaded
<1>3. m.pool.txs = left /\ left \subseteq saved.txs
  BY <1>2, RebuiltTxs
<1>4. saved.txs \cap Confirms(saved.blocks) = {}
  BY NodeFields DEF ApartIn
<1> HIDE DEF left
<1>5. ApartIn(m)
  BY <1>2, <1>3, <1>4 DEF ApartIn
<1> QED
  BY <1>1, <1>5, BecameApart

LEMMA StepApart ==
  ASSUME PendInv, AllApart, IInv', [Next]_vars
  PROVE  \/ AllApart'
         \/ \E from \in 0..(MaxHeight + 1), tail \in Tails : ReplayFork(from, tail)
<1>0. ApartIn(Node)
  BY PagesApart DEF PendInv, PoolInv
<1>1. ASSUME NEW h \in Blk, Receive(h)
      PROVE  AllApart'
  BY <1>0, <1>1, ReceiveApart
<1>2. ASSUME NEW from \in 0..(MaxHeight + 1), NEW tail \in Tails,
             \/ ReceiveLinear(from, tail) \/ RefuseFork(from, tail) \/ RedoFork(from, tail)
      PROVE  AllApart'
  <2>1. from \in Nat
    BY ChainAssumption
  <2> QED
    BY <1>0, <1>2, <2>1, ReceiveLinearApart, RefuseForkApart, RedoForkApart
<1>3. CASE Readmit
  BY <1>0, <1>3, ReadmitApart
<1>4. ASSUME NEW t \in Tx, Submit(t)
      PROVE  AllApart'
  BY <1>0, <1>4, SubmitApart
<1>5. CASE Expire
  BY <1>0, <1>5, ExpireApart
<1>6. ASSUME NEW on \in BOOLEAN, SetStorageMode(on)
      PROVE  AllApart'
  BY <1>0, <1>6, SetStorageModeApart
<1>7. ASSUME NEW h \in Genuine \ {Genesis}, ImportCheckpoint(h)
      PROVE  AllApart'
  BY <1>7, ImportApart
<1>8. CASE Restart
  BY <1>0, <1>8, RestartApart
<1>9. CASE UNCHANGED vars
  <2>1. IInv' => (AllApart' <=> ApartIn(Node)')
    BY PagesApart, PTL
  <2>2. ApartIn(Node)'
    BY <1>0, <1>9 DEF vars, ApartIn, Node, Confirms
  <2> QED
    BY <2>1, <2>2
<1> QED
  BY <1>1, <1>2, <1>3, <1>4, <1>5, <1>6, <1>7, <1>8, <1>9 DEF Next

(* What is pending, or saved as such, is not confirmed as well, unless an   *)
(* adoption by full replay has just confirmed it.                           *)
THEOREM PendingStaysApart == Spec => PendingUnconfirmed
<1>1. PendInv /\ IInv' /\ [Next]_vars =>
        [AllApart => \/ AllApart'
                     \/ \E from \in 0..(MaxHeight + 1), tail \in Tails : ReplayFork(from, tail)]_vars
  BY StepApart
<1>2. Spec => []PendInv
  BY OrphansWait, ClaimedInvariant, PTL DEF PendInv
<1> QED
  BY <1>1, <1>2, Invariant, PTL DEF Spec, PendingUnconfirmed
-----------------------------------------------------------------------------
(* The wallet's page against the ledger: the books, account by account.     *)

\* What a has in the ledger st, spendable and immature.
TotalIn(st, a) == Num(st.bal, a) + Amounts({p \in st.pend : p.to = a})

LEMMA TotalNat ==
  ASSUME NEW st, NEW n, NEW excess, Booked(st, n, excess), NEW a
  PROVE  /\ Num(st.bal, a) \in Nat /\ Amounts({p \in st.pend : p.to = a}) \in Nat
         /\ TotalIn(st, a) \in Nat
<1>1. Num(st.bal, a) \in Nat
  BY BookedInts
<1>2. {p \in st.pend : p.to = a} \in SUBSET st.pend
  OBVIOUS
<1>3. Amounts({p \in st.pend : p.to = a}) \in Nat
  BY <1>2, AmountsPositive DEF Booked
<1> QED
  BY <1>1, <1>3 DEF TotalIn

\* The accounts' totals are the balances and the rewards, so what was minted.
LEMMA SupplySum ==
  ASSUME NEW st, NEW n, Booked(st, n, 0), Housed(st), IsFiniteSet(Account)
  PROVE  SumFunction([a \in Account |-> TotalIn(st, a)]) = st.minted
<1> DEFINE m == st.bal
           R == st.pend
           D == DOMAIN m \cup {p.to : p \in R}
           paid == [a \in D |-> Num(m, a) + Amounts({p \in R : p.to = a})]
           g == [a \in Account |-> TotalIn(st, a)]
<1>1. SumFunction(paid) = SumFunction(m) + Amounts(R)
  <2>1. \A a \in DOMAIN m : m[a] \in Int
    BY DEF Booked
  <2>2. m = [a \in DOMAIN m |-> m[a]] /\ IsFiniteSet(DOMAIN m) /\ IsFiniteSet(R) /\ R \subseteq Reward
    BY DEF Booked
  <2> HIDE DEF m, R
  <2> QED
    BY <2>1, <2>2, RipeSum
<1>2. Balances(st) = SumFunction(m) /\ Immature(st) = Amounts(R)
  BY DEF Balances, Immature
<1>3. SumFunction(m) + Amounts(R) = st.minted
  <2>1. Balances(st) + Immature(st) = st.minted + 0 /\ st.minted \in Nat
    BY DEF Booked
  <2> HIDE DEF m, R
  <2> QED
    BY <1>2, <2>1
<1>4. D \in SUBSET Account /\ DOMAIN paid = D /\ DOMAIN g = Account
  BY DEF Housed
<1>5. \A a \in D : paid[a] \in Int /\ g[a] = paid[a]
  <2>1. \A a \in D : paid[a] = TotalIn(st, a) /\ g[a] = TotalIn(st, a)
    BY <1>4 DEF TotalIn
  <2>2. \A a : TotalIn(st, a) \in Nat
    BY TotalNat
  <2> HIDE DEF paid, g, D
  <2> QED
    BY <2>1, <2>2
<1>6. \A a \in Account \ D : g[a] = 0
  <2>1. SUFFICES ASSUME NEW a \in Account \ D
                 PROVE  g[a] = 0
    OBVIOUS
  <2>2. Num(m, a) = 0
    BY <2>1 DEF Num
  <2>3. {p \in R : p.to = a} = {}
    BY <2>1
  <2>4. Amounts({p \in R : p.to = a}) = 0
    BY <2>3, AmountsEmpty
  <2> QED
    BY <2>2, <2>4 DEF TotalIn
<1>7. IsFiniteSet(D)
  BY <1>4, FS_Subset
<1>8. SumFunction(g) = SumFunctionOnSet(g, Account) /\ SumFunction(paid) = SumFunctionOnSet(paid, D)
  BY <1>4 DEF SumFunction
<1> HIDE DEF g, paid, D, m, R
<1>9. SumFunctionOnSet(g, D) = SumFunctionOnSet(paid, D)
  BY <1>5, <1>7, SumSame
<1>10. SumFunctionOnSet(g, Account) = SumFunctionOnSet(g, D)
  <2>1. \A a \in D : g[a] \in Int
    BY <1>5
  <2> QED
    BY <1>4, <1>6, <2>1, SumZeros
<1> QED
  BY <1>1, <1>3, <1>8, <1>9, <1>10 DEF g

\* A reward that ripens stays its owner's.
LEMMA UnlockTotal ==
  ASSUME NEW st, NEW n \in Int, NEW excess, Booked(st, n, excess), NEW height, NEW a
  PROVE  TotalIn(UnlockMatured(st, height), a) = TotalIn(st, a)
<1> DEFINE ripe == {p \in st.pend : p.unlock <= height}
           RipeOf(x) == Amounts({p \in ripe : p.to = x})
           D == DOMAIN st.bal \cup {p.to : p \in ripe}
           paid == [x \in D |-> Num(st.bal, x) + RipeOf(x)]
           next == UnlockMatured(st, height)
           mine == {p \in st.pend : p.to = a}
           due == {p \in ripe : p.to = a}
<1>1. next.bal = paid /\ next.pend = st.pend \ ripe
  <2>1. st = [bal |-> st.bal, nonce |-> st.nonce, pend |-> st.pend, minted |-> st.minted]
    BY DEF Booked
  <2>2. next = [st EXCEPT !.bal = paid, !.pend = st.pend \ ripe]
    BY DEF UnlockMatured
  <2> HIDE DEF paid, ripe, next
  <2>3. next = [bal |-> paid, nonce |-> st.nonce, pend |-> st.pend \ ripe, minted |-> st.minted]
    BY <2>1, <2>2
  <2> QED
    BY <2>3
<1>2. {p \in st.pend \ ripe : p.to = a} = mine \ due /\ due \in SUBSET mine
      /\ mine \in SUBSET st.pend
  OBVIOUS
<1>3. IsFiniteSet(mine) /\ mine \subseteq Reward
  BY <1>2, FS_Subset DEF Booked
<1>4. Num(paid, a) = Num(st.bal, a) + Amounts(due)
  <2>1. CASE a \in D
    <3>1. Num(paid, a) = paid[a] /\ paid[a] = Num(st.bal, a) + RipeOf(a)
      BY <2>1 DEF Num
    <3> QED
      BY <3>1
  <2>2. CASE a \notin D
    <3>1. Num(paid, a) = 0 /\ Num(st.bal, a) = 0 /\ due = {}
      BY <2>2 DEF Num
    <3>2. Amounts(due) = 0
      BY <3>1, AmountsEmpty
    <3> HIDE DEF paid, due
    <3> QED
      BY <3>1, <3>2
  <2> QED
    BY <2>1, <2>2
<1> HIDE DEF next, paid, ripe, D, mine, due
<1>5. Amounts(mine) = Amounts(due) + Amounts(mine \ due)
  BY <1>2, <1>3, AmountsPart
<1>6. Amounts(due) \in Nat /\ Amounts(mine \ due) \in Nat
  <2>1. mine \ due \in SUBSET mine
    OBVIOUS
  <2> QED
    BY <1>2, <1>3, <2>1, AmountsPositive
<1>7. Num(st.bal, a) \in Nat
  BY TotalNat
<1>8. TotalIn(next, a) = Num(paid, a) + Amounts(mine \ due)
  BY <1>1, <1>2 DEF TotalIn
<1>9. TotalIn(st, a) = Num(st.bal, a) + Amounts(mine)
  BY DEF TotalIn, mine
<1> DEFINE x == Amounts(due)
           y == Amounts(mine \ due)
           v == Num(st.bal, a)
<1>10. (v + x) + y = v + (x + y)
  <2>1. v \in Nat /\ x \in Nat /\ y \in Nat
    BY <1>6, <1>7
  <2> HIDE DEF v, x, y
  <2> QED
    BY <2>1
<1> QED
  BY <1>4, <1>5, <1>8, <1>9, <1>10 DEF next

Payable(st, n, b) ==
  /\ n \in Nat /\ Booked(st, n - 1, 0) /\ b.miner \in Account
  /\ BlockReward(n) \in Nat /\ Fees(b) \in Nat /\ CoinbaseOk(st, b, n)

\* The coinbase's reward is its miner's.
LEMMA CoinbaseTotal ==
  ASSUME NEW st, NEW n, NEW b, Payable(st, n, b), NEW a
  PROVE  /\ b.reward \in Nat /\ b.reward = BlockReward(n) + Fees(b)
         /\ PayCoinbase(st, b, n).minted = st.minted + BlockReward(n)
         /\ b.miner = a => TotalIn(PayCoinbase(st, b, n), a) = TotalIn(st, a) + b.reward
         /\ b.miner # a => TotalIn(PayCoinbase(st, b, n), a) = TotalIn(st, a)
<1> DEFINE q == RewardOf(b, n)
           next == PayCoinbase(st, b, n)
           r == BlockReward(n)
           mine == {p \in st.pend : p.to = a}
<1>0. /\ n \in Nat /\ Booked(st, n - 1, 0) /\ b.miner \in Account
      /\ BlockReward(n) \in Nat /\ Fees(b) \in Nat /\ CoinbaseOk(st, b, n)
  BY DEF Payable
<1>1. b.reward = r + Fees(b) /\ b.reward \in Nat
  BY <1>0 DEF CoinbaseOk
<1>2. q \in Reward /\ q.amount = b.reward /\ q.unlock = n + Maturity /\ q.to = b.miner
  BY <1>0, <1>1, Numbers DEF RewardOf, Reward
<1>3. q \notin st.pend
  <2>1. \A p \in st.pend : p.unlock <= (n - 1) + Maturity /\ p.unlock \in Int
    BY <1>0 DEF Booked, Reward
  <2> QED
    BY <1>0, <1>2, <2>1, Numbers
<1>4. next.bal = st.bal /\ next.pend = st.pend \cup {q} /\ next.minted = st.minted + r
  <2>1. st = [bal |-> st.bal, nonce |-> st.nonce, pend |-> st.pend, minted |-> st.minted]
    BY <1>0 DEF Booked
  <2>2. next = [st EXCEPT !.pend = st.pend \cup {q}, !.minted = st.minted + r]
    BY DEF PayCoinbase
  <2> HIDE DEF q, r, next
  <2>3. next = [bal |-> st.bal, nonce |-> st.nonce, pend |-> st.pend \cup {q}, minted |-> st.minted + r]
    BY <2>1, <2>2
  <2> QED
    BY <2>3
<1>5. TotalIn(st, a) \in Nat /\ Num(st.bal, a) \in Nat /\ Amounts(mine) \in Nat
  BY <1>0, TotalNat
<1>6. IsFiniteSet(mine) /\ mine \subseteq Reward
  <2>1. mine \in SUBSET st.pend
    OBVIOUS
  <2> QED
    BY <1>0, <2>1, FS_Subset DEF Booked
<1> HIDE DEF next, q
<1>7. CASE b.miner = a
  <2>1. {p \in next.pend : p.to = a} = mine \cup {q} /\ q \notin mine
    BY <1>2, <1>3, <1>4, <1>7
  <2>2. Amounts(mine \cup {q}) = Amounts(mine) + b.reward
    <3> HIDE DEF mine
    <3> QED
      BY <1>2, <1>6, <2>1, AmountsAdd
  <2>3. TotalIn(next, a) = Num(st.bal, a) + (Amounts(mine) + b.reward)
    BY <1>4, <2>1, <2>2 DEF TotalIn
  <2>4. TotalIn(st, a) = Num(st.bal, a) + Amounts(mine)
    BY DEF TotalIn
  <2>5. TotalIn(next, a) = TotalIn(st, a) + b.reward
    <3> HIDE DEF mine
    <3> QED
      BY <1>1, <1>5, <2>3, <2>4
  <2> QED
    BY <1>1, <1>4, <1>7, <2>5 DEF next
<1>8. CASE b.miner # a
  <2>1. {p \in next.pend : p.to = a} = mine
    BY <1>2, <1>4, <1>8
  <2>2. TotalIn(next, a) = TotalIn(st, a)
    BY <1>4, <2>1 DEF TotalIn
  <2> QED
    BY <1>1, <1>4, <1>5, <1>8, <2>2 DEF next
<1> QED
  BY <1>7, <1>8
-----------------------------------------------------------------------------
(* An account's page, entry by entry. *)

IsEntry(e) ==
  /\ e.direction \in {"mined", "received", "sent", "self"}
  /\ e.amount \in Nat /\ e.fee \in Nat

Picked(E, directions) == {e \in E : e.direction \in directions}

AmountsIn(E) == Total(AmountOf, E)
FeesIn(E) == Total(FeeOf, E)

\* What the entries leave their account with, and what one of them adds to it.
NetOf(E) ==
  (AmountsIn(Picked(E, {"received", "mined"})) - AmountsIn(Picked(E, {"sent"})))
    - FeesIn(Picked(E, {"sent", "self"}))

Worth(e) ==
  IF e.direction \in {"received", "mined"} THEN e.amount
  ELSE IF e.direction = "sent" THEN 0 - (e.amount + e.fee) ELSE 0 - e.fee

Restricts(f, g, S, x) ==
  /\ DOMAIN f = S /\ DOMAIN g = S \cup {x}
  /\ \A y \in S : f[y] = g[y]
  /\ \A y \in S \cup {x} : g[y] \in Int

LEMMA RestrictAdd ==
  ASSUME NEW S, IsFiniteSet(S), NEW x, x \notin S, NEW f, NEW g, Restricts(f, g, S, x)
  PROVE  SumFunction(g) = g[x] + SumFunction(f) /\ SumFunction(f) \in Int
<1>1. SumFunction(g) = SumFunctionOnSet(g, S \cup {x}) /\ SumFunction(f) = SumFunctionOnSet(f, S)
  BY DEF SumFunction, Restricts
<1>2. SumFunctionOnSet(g, S \cup {x}) = g[x] + SumFunctionOnSet(g, S)
  BY SumAdd DEF Restricts
<1>3. SumFunctionOnSet(f, S) = SumFunctionOnSet(g, S)
  BY SumSame DEF Restricts
<1>4. SumFunctionOnSet(g, S) \in Int
  BY SumInt DEF Restricts
<1> QED
  BY <1>1, <1>2, <1>3, <1>4

LEMMA AmountsInAdd ==
  ASSUME NEW S, IsFiniteSet(S), \A e \in S : e.amount \in Nat, NEW x, x \notin S, x.amount \in Nat
  PROVE  AmountsIn(S \cup {x}) = x.amount + AmountsIn(S) /\ AmountsIn(S) \in Int
<1> DEFINE f == [y \in S |-> y.amount]
           g == [y \in S \cup {x} |-> y.amount]
<1>1. /\ DOMAIN f = S /\ DOMAIN g = S \cup {x} /\ g[x] = x.amount
      /\ \A y \in S : f[y] = g[y]
  OBVIOUS
<1>2. \A y \in S \cup {x} : g[y] \in Int
  OBVIOUS
<1>3. AmountsIn(S) = SumFunction(f) /\ AmountsIn(S \cup {x}) = SumFunction(g)
  BY DEF AmountsIn, Total, AmountOf
<1> HIDE DEF f, g
<1>4. Restricts(f, g, S, x)
  BY <1>1, <1>2 DEF Restricts
<1>5. SumFunction(g) = g[x] + SumFunction(f) /\ SumFunction(f) \in Int
  BY <1>4, RestrictAdd
<1> QED
  BY <1>1, <1>3, <1>5

LEMMA FeesInAdd ==
  ASSUME NEW S, IsFiniteSet(S), \A e \in S : e.fee \in Nat, NEW x, x \notin S, x.fee \in Nat
  PROVE  FeesIn(S \cup {x}) = x.fee + FeesIn(S) /\ FeesIn(S) \in Int
<1> DEFINE f == [y \in S |-> y.fee]
           g == [y \in S \cup {x} |-> y.fee]
<1>1. /\ DOMAIN f = S /\ DOMAIN g = S \cup {x} /\ g[x] = x.fee
      /\ \A y \in S : f[y] = g[y]
  OBVIOUS
<1>2. \A y \in S \cup {x} : g[y] \in Int
  OBVIOUS
<1>3. FeesIn(S) = SumFunction(f) /\ FeesIn(S \cup {x}) = SumFunction(g)
  BY DEF FeesIn, Total, FeeOf
<1> HIDE DEF f, g
<1>4. Restricts(f, g, S, x)
  BY <1>1, <1>2 DEF Restricts
<1>5. SumFunction(g) = g[x] + SumFunction(f) /\ SumFunction(f) \in Int
  BY <1>4, RestrictAdd
<1> QED
  BY <1>1, <1>3, <1>5

LEMMA InInts ==
  ASSUME NEW E, IsFiniteSet(E), \A e \in E : IsEntry(e), NEW directions
  PROVE  AmountsIn(Picked(E, directions)) \in Int /\ FeesIn(Picked(E, directions)) \in Int
<1> DEFINE S == Picked(E, directions)
           f == [e \in S |-> e.amount]
           g == [e \in S |-> e.fee]
<1>1. IsFiniteSet(S) /\ \A e \in S : e.amount \in Int /\ e.fee \in Int
  <2>1. S \in SUBSET E
    BY DEF Picked
  <2>2. \A e \in S : IsEntry(e)
    BY <2>1
  <2> QED
    BY <2>1, <2>2, FS_Subset DEF IsEntry
<1> HIDE DEF S
<1>2. AmountsIn(S) = SumFunctionOnSet(f, S) /\ FeesIn(S) = SumFunctionOnSet(g, S)
  BY DEF AmountsIn, FeesIn, Total, SumFunction, AmountOf, FeeOf
<1>3. \A e \in S : f[e] \in Int /\ g[e] \in Int
  BY <1>1
<1> HIDE DEF f, g
<1> QED
  BY <1>1, <1>2, <1>3, SumInt DEF S

LEMMA InNone == AmountsIn({}) = 0 /\ FeesIn({}) = 0
<1> DEFINE f == [e \in {} |-> AmountOf(e)]
           g == [e \in {} |-> FeeOf(e)]
<1>1. AmountsIn({}) = SumFunctionOnSet(f, {}) /\ FeesIn({}) = SumFunctionOnSet(g, {})
  BY DEF AmountsIn, FeesIn, Total, SumFunction
<1> HIDE DEF f, g
<1> QED
  BY <1>1, SumEmpty

LEMMA NetNone == NetOf({}) = 0
<1>1. \A directions : Picked({}, directions) = {}
  BY DEF Picked
<1>2. NetOf({}) = (AmountsIn({}) - AmountsIn({})) - FeesIn({})
  BY <1>1, Zenon DEF NetOf
<1> QED
  BY <1>2, InNone

\* One entry more.
LEMMA NetAdd ==
  ASSUME NEW E, IsFiniteSet(E), \A e \in E : IsEntry(e), NEW x, x \notin E, IsEntry(x)
  PROVE  NetOf(E \cup {x}) = NetOf(E) + Worth(x) /\ NetOf(E) \in Int
<1> DEFINE in == Picked(E, {"received", "mined"})
           out == Picked(E, {"sent"})
           paid == Picked(E, {"sent", "self"})
           in1 == Picked(E \cup {x}, {"received", "mined"})
           out1 == Picked(E \cup {x}, {"sent"})
           paid1 == Picked(E \cup {x}, {"sent", "self"})
<1>1. /\ IsFiniteSet(in) /\ IsFiniteSet(out) /\ IsFiniteSet(paid)
      /\ x \notin in /\ x \notin out /\ x \notin paid
  <2>1. in \in SUBSET E /\ out \in SUBSET E /\ paid \in SUBSET E
    BY DEF Picked
  <2> QED
    BY <2>1, FS_Subset
<1>2. /\ \A e \in in : e.amount \in Nat
      /\ \A e \in out : e.amount \in Nat
      /\ \A e \in paid : e.fee \in Nat
  BY DEF Picked, IsEntry
<1>3. x.amount \in Nat /\ x.fee \in Nat /\ x.direction \in {"mined", "received", "sent", "self"}
  BY DEF IsEntry
<1>4. /\ x.direction \in {"received", "mined"} => in1 = in \cup {x} /\ out1 = out /\ paid1 = paid
      /\ x.direction = "sent" => in1 = in /\ out1 = out \cup {x} /\ paid1 = paid \cup {x}
      /\ x.direction = "self" => in1 = in /\ out1 = out /\ paid1 = paid \cup {x}
  BY DEF Picked
<1>5. /\ NetOf(E) = (AmountsIn(in) - AmountsIn(out)) - FeesIn(paid)
      /\ NetOf(E \cup {x}) = (AmountsIn(in1) - AmountsIn(out1)) - FeesIn(paid1)
  BY DEF NetOf
<1> HIDE DEF in, out, paid, in1, out1, paid1
<1>6. /\ AmountsIn(in \cup {x}) = x.amount + AmountsIn(in) /\ AmountsIn(in) \in Int
      /\ AmountsIn(out \cup {x}) = x.amount + AmountsIn(out) /\ AmountsIn(out) \in Int
      /\ FeesIn(paid \cup {x}) = x.fee + FeesIn(paid) /\ FeesIn(paid) \in Int
  BY <1>1, <1>2, <1>3, AmountsInAdd, FeesInAdd
<1> DEFINE i == AmountsIn(in)
           o == AmountsIn(out)
           p == FeesIn(paid)
           v == x.amount
           fee == x.fee
<1>7. NetOf(E) = (i - o) - p /\ i \in Int /\ o \in Int /\ p \in Int /\ v \in Nat /\ fee \in Nat
  BY <1>3, <1>5, <1>6
<1>8. CASE x.direction \in {"received", "mined"}
  <2>1. NetOf(E \cup {x}) = ((v + i) - o) - p /\ Worth(x) = v
    BY <1>4, <1>5, <1>6, <1>8 DEF Worth
  <2> HIDE DEF i, o, p, v, fee
  <2> QED
    BY <1>7, <2>1
<1>9. CASE x.direction = "sent"
  <2>1. NetOf(E \cup {x}) = (i - (v + o)) - (fee + p) /\ Worth(x) = 0 - (v + fee)
    BY <1>4, <1>5, <1>6, <1>9 DEF Worth
  <2> HIDE DEF i, o, p, v, fee
  <2> QED
    BY <1>7, <2>1
<1>10. CASE x.direction = "self"
  <2>1. NetOf(E \cup {x}) = (i - o) - (fee + p) /\ Worth(x) = 0 - fee
    BY <1>4, <1>5, <1>6, <1>10 DEF Worth
  <2> HIDE DEF i, o, p, v, fee
  <2> QED
    BY <1>7, <2>1
<1> QED
  BY <1>3, <1>8, <1>9, <1>10

LEMMA EntryIs ==
  ASSUME NEW t \in TransferType, NEW a, Concerns(t, a), NEW place, NEW index
  PROVE  LET e == EntryOf(t, a, place, index)
         IN /\ IsEntry(e) /\ e.place = place /\ e.index = index
            /\ Worth(e) = IF t.from # a THEN t.amount
                          ELSE IF t.to # a THEN 0 - (t.amount + t.fee) ELSE 0 - t.fee
<1> DEFINE e == EntryOf(t, a, place, index)
<1>1. /\ e.direction = Direction(t, a) /\ e.amount = t.amount /\ e.fee = t.fee
      /\ e.place = place /\ e.index = index
  BY DEF EntryOf, Entry
<1> HIDE DEF e
<1>2. t.amount \in Nat /\ t.fee \in Nat
  BY DEF TransferType
<1>3. IsEntry(e)
  BY <1>1, <1>2 DEF IsEntry, Direction
<1>4. Worth(e) = IF t.from # a THEN t.amount
                 ELSE IF t.to # a THEN 0 - (t.amount + t.fee) ELSE 0 - t.fee
  BY <1>1 DEF Worth, Direction
<1> QED
  BY <1>1, <1>3, <1>4 DEF e

LEMMA MinedIs ==
  ASSUME NEW amount \in Nat, NEW place
  PROVE  LET e == Entry("mined", amount, 0, place, 0)
         IN IsEntry(e) /\ e.place = place /\ e.index = 0 /\ Worth(e) = amount
  BY DEF IsEntry, Entry, Worth

\* A transfer changes an account's total by what its entry is worth.
LEMMA TransferTotal ==
  ASSUME NEW st, NEW n, NEW excess \in Int, Booked(st, n, excess),
         NEW t \in TransferType, TransferOk(st, t), NEW a
  PROVE  /\ Transfer(st, t).minted = st.minted
         /\ ~ Concerns(t, a) => TotalIn(Transfer(st, t), a) = TotalIn(st, a)
         /\ Concerns(t, a) =>
              TotalIn(Transfer(st, t), a)
                = TotalIn(st, a) + (IF t.from # a THEN t.amount
                                    ELSE IF t.to # a THEN 0 - (t.amount + t.fee) ELSE 0 - t.fee)
<1> DEFINE cost == Cost(t)
           v == Num(st.bal, t.from) - cost
           paid == Put(st.bal, t.from, v)
           w == Num(paid, t.to) + t.amount
           end == Put(paid, t.to, w)
           next == Transfer(st, t)
           due == Amounts({p \in st.pend : p.to = a})
           had == Num(st.bal, a)
           amount == t.amount
           fee == t.fee
<1>1. next.bal = end /\ next.pend = st.pend /\ next.minted = st.minted
  <2>1. st = [bal |-> st.bal, nonce |-> st.nonce, pend |-> st.pend, minted |-> st.minted]
    BY DEF Booked
  <2>2. next = [st EXCEPT !.bal = end, !.nonce = Put(st.nonce, t.from, t.nonce)]
    BY DEF Transfer
  <2> HIDE DEF end, next
  <2>3. next = [bal |-> end, nonce |-> Put(st.nonce, t.from, t.nonce), pend |-> st.pend, minted |-> st.minted]
    BY <2>1, <2>2
  <2> QED
    BY <2>3
<1>2. /\ Num(end, a) = IF a = t.to THEN w ELSE Num(paid, a)
      /\ Num(paid, a) = IF a = t.from THEN v ELSE had
      /\ Num(paid, t.to) = IF t.to = t.from THEN v ELSE Num(st.bal, t.to)
  <2> HIDE DEF v, w
  <2> QED
    BY NumPut
<1>3. cost = amount + fee /\ amount \in Nat /\ fee \in Nat
  BY DEF Cost, TransferType
<1>4. due \in Nat /\ had \in Nat /\ TotalIn(st, a) = had + due
  BY TotalNat DEF TotalIn
<1>5. TotalIn(next, a) = Num(end, a) + due
  BY <1>1 DEF TotalIn
<1>6. Concerns(t, a) <=> a = t.from \/ a = t.to
  BY DEF Concerns
<1>7. /\ a = t.from /\ a = t.to => Num(end, a) = (had - cost) + amount
      /\ a = t.from /\ a # t.to => Num(end, a) = had - cost
      /\ a # t.from /\ a = t.to => Num(end, a) = had + amount
      /\ a # t.from /\ a # t.to => Num(end, a) = had
  BY <1>2
<1> HIDE DEF cost, v, paid, w, end, due, had, amount, fee, next
<1>8. CASE a = t.from /\ a = t.to
  <2>1. TotalIn(next, a) = ((had - (amount + fee)) + amount) + due
    BY <1>3, <1>5, <1>7, <1>8
  <2>2. TotalIn(next, a) = TotalIn(st, a) + (0 - fee)
    BY <1>3, <1>4, <2>1
  <2> QED
    BY <1>1, <1>6, <1>8, <2>2 DEF next, fee
<1>9. CASE a = t.from /\ a # t.to
  <2>1. TotalIn(next, a) = (had - (amount + fee)) + due
    BY <1>3, <1>5, <1>7, <1>9
  <2>2. TotalIn(next, a) = TotalIn(st, a) + (0 - (amount + fee))
    BY <1>3, <1>4, <2>1
  <2> QED
    BY <1>1, <1>6, <1>9, <2>2 DEF next, fee, amount
<1>10. CASE a # t.from /\ a = t.to
  <2>1. TotalIn(next, a) = (had + amount) + due
    BY <1>3, <1>5, <1>7, <1>10
  <2>2. TotalIn(next, a) = TotalIn(st, a) + amount
    BY <1>3, <1>4, <2>1
  <2> QED
    BY <1>1, <1>6, <1>10, <2>2 DEF next, amount
<1>11. CASE a # t.from /\ a # t.to
  BY <1>1, <1>4, <1>5, <1>6, <1>7, <1>11 DEF next
<1> QED
  BY <1>8, <1>9, <1>10, <1>11
-----------------------------------------------------------------------------
(* Block by block. *)

\* The entries of a body.
Sheet(s, a, place) ==
  {EntryOf(s[i], a, place, i) : i \in {k \in DOMAIN s : Concerns(s[k], a)}}

LEMMA SheetNone == \A a, place : Sheet(<<>>, a, place) = {}
  BY DEF Sheet

LEMMA SheetIn ==
  ASSUME NEW s \in Seq(TransferType), NEW a, NEW place, NEW e \in Sheet(s, a, place)
  PROVE  IsEntry(e) /\ e.place = place /\ e.index \in 1..Len(s)
<1>1. PICK i \in DOMAIN s : Concerns(s[i], a) /\ e = EntryOf(s[i], a, place, i)
  BY DEF Sheet
<1>2. i \in 1..Len(s) /\ s[i] \in TransferType
  OBVIOUS
<1> QED
  BY <1>1, <1>2, EntryIs

LEMMA SheetAppend ==
  ASSUME NEW s \in Seq(TransferType), NEW t \in TransferType, NEW a, NEW place
  PROVE  /\ Concerns(t, a) => Sheet(Append(s, t), a, place)
                                = Sheet(s, a, place) \cup {EntryOf(t, a, place, Len(s) + 1)}
         /\ ~ Concerns(t, a) => Sheet(Append(s, t), a, place) = Sheet(s, a, place)
<1> DEFINE q == Append(s, t)
           n == Len(s)
           F(r, i) == EntryOf(r[i], a, place, i)
           Of(r) == {k \in DOMAIN r : Concerns(r[k], a)}
<1>1. /\ n \in Nat /\ DOMAIN s = 1..n /\ DOMAIN q = 1..(n + 1)
      /\ q[n + 1] = t /\ \A i \in 1..n : q[i] = s[i]
  OBVIOUS
<1> HIDE DEF q, n
<1>2. \A i \in 1..n : i \in Of(q) <=> i \in Of(s)
  BY <1>1
<1>3. n + 1 \in Of(q) <=> Concerns(t, a)
  BY <1>1
<1>4. Of(q) \subseteq 1..(n + 1) /\ Of(s) \subseteq 1..n
  BY <1>1
<1>5. \A i \in 1..n : F(q, i) = F(s, i)
  BY <1>1
<1>6. F(q, n + 1) = EntryOf(t, a, place, n + 1)
  BY <1>1
<1>7. \A i : i \in 1..(n + 1) <=> i \in 1..n \/ i = n + 1
  BY <1>1
<1>8. /\ Sheet(q, a, place) = {F(q, i) : i \in Of(q)}
      /\ Sheet(s, a, place) = {F(s, i) : i \in Of(s)}
  BY DEF Sheet
<1> HIDE DEF F, Of
<1>9. CASE Concerns(t, a)
  <2>1. Of(q) = Of(s) \cup {n + 1}
    BY <1>2, <1>3, <1>4, <1>7, <1>9
  <2>2. {F(q, i) : i \in Of(q)} = {F(s, i) : i \in Of(s)} \cup {F(q, n + 1)}
    BY <1>4, <1>5, <2>1
  <2> QED
    BY <1>6, <1>8, <1>9, <2>2 DEF q, n
<1>10. CASE ~ Concerns(t, a)
  <2>1. Of(q) = Of(s)
    BY <1>2, <1>3, <1>4, <1>7, <1>10
  <2>2. {F(q, i) : i \in Of(q)} = {F(s, i) : i \in Of(s)}
    BY <1>4, <1>5, <2>1
  <2> QED
    BY <1>8, <1>10, <2>2 DEF q
<1> QED
  BY <1>9, <1>10

\* The entries E tell the total of a.
Told(E, st, a) ==
  /\ IsFiniteSet(E) /\ \A e \in E : IsEntry(e)
  /\ TotalIn(st, a) = NetOf(E)

LEMMA ToldMore ==
  ASSUME NEW E, NEW st, NEW a, Told(E, st, a), NEW x, x \notin E, IsEntry(x),
         NEW next, TotalIn(next, a) = TotalIn(st, a) + Worth(x)
  PROVE  Told(E \cup {x}, next, a)
<1>1. NetOf(E \cup {x}) = NetOf(E) + Worth(x)
  BY NetAdd DEF Told
<1>2. IsFiniteSet(E \cup {x})
  BY FS_AddElement DEF Told
<1> QED
  BY <1>1, <1>2 DEF Told

\* What has been told after the transfers s, if all are accepted.
Tallied(start, n, excess, E, a, place, s) ==
  LET end == Applying!Fold(start, s)
  IN /\ "ok" \in DOMAIN end /\ "st" \in DOMAIN end
     /\ end.ok => /\ start.ok
                  /\ Booked(end.st, n, excess - Feeing!Fold(0, s))
                  /\ Told(E \cup Sheet(s, a, place), end.st, a)
                  /\ end.st.minted = start.st.minted

LEMMA BodyTold ==
  ASSUME NEW start, "ok" \in DOMAIN start, "st" \in DOMAIN start, NEW n, NEW excess \in Int,
         NEW a, NEW place, NEW E, \A e \in E : e.place = place => e.index = 0,
         start.ok => Booked(start.st, n, excess) /\ Told(E, start.st, a),
         NEW s \in Seq(TransferType)
  PROVE  Tallied(start, n, excess, E, a, place, s)
<1> DEFINE K == {r \in Seq(TransferType) : Tallied(start, n, excess, E, a, place, r)}
<1>1. <<>> \in K
  <2>1. Applying!Fold(start, <<>>) = start /\ Feeing!Fold(0, <<>>) = 0
    BY Applying!FoldEmpty, Feeing!FoldEmpty
  <2>2. E \cup Sheet(<<>>, a, place) = E /\ excess - 0 = excess
    BY SheetNone
  <2>3. Tallied(start, n, excess, E, a, place, <<>>)
    BY <2>1, <2>2 DEF Tallied
  <2> QED
    BY <2>3
<1>2. ASSUME NEW r \in Seq(TransferType), NEW t \in TransferType, r \in K
      PROVE  Append(r, t) \in K
  <2> DEFINE q == Append(r, t)
             before == Applying!Fold(start, r)
             after == Applying!Fold(start, q)
             fees == Feeing!Fold(0, r)
             had == E \cup Sheet(r, a, place)
             x == EntryOf(t, a, place, Len(r) + 1)
  <2>1. after = ApplyTransfer(before, t) /\ Feeing!Fold(0, q) = fees + t.fee
        /\ q \in Seq(TransferType)
    BY Applying!FoldAppend, Feeing!FoldAppend DEF AddFee
  <2>2. /\ "ok" \in DOMAIN before /\ "st" \in DOMAIN before
        /\ before.ok => /\ start.ok /\ Booked(before.st, n, excess - fees)
                        /\ Told(had, before.st, a) /\ before.st.minted = start.st.minted
    BY <1>2 DEF Tallied
  <2>3. fees \in Nat /\ t.fee \in Nat
    BY FeesNat DEF TransferType
  <2>4. /\ Concerns(t, a) => E \cup Sheet(q, a, place) = had \cup {x}
        /\ ~ Concerns(t, a) => E \cup Sheet(q, a, place) = had
    BY SheetAppend
  <2>5. Concerns(t, a) => x \notin had
    <3>1. ASSUME Concerns(t, a), x \in had
          PROVE  FALSE
      <4>1. x.place = place /\ x.index = Len(r) + 1 /\ Len(r) \in Nat
        BY <3>1, EntryIs
      <4>2. CASE x \in E
        <5> HIDE DEF x
        <5> QED
          BY <4>1, <4>2
      <4>3. CASE x \in Sheet(r, a, place)
        <5>1. x.index \in 1..Len(r)
          BY <4>3, SheetIn
        <5> HIDE DEF x
        <5> QED
          BY <4>1, <5>1
      <4> QED
        BY <3>1, <4>2, <4>3
    <3> QED
      BY <3>1
  <2>6. Concerns(t, a) =>
          /\ IsEntry(x)
          /\ Worth(x) = IF t.from # a THEN t.amount
                        ELSE IF t.to # a THEN 0 - (t.amount + t.fee) ELSE 0 - t.fee
    BY EntryIs
  <2> HIDE DEF before, fees, q, had, x
  <2>7. /\ "ok" \in DOMAIN after /\ "st" \in DOMAIN after
        /\ after.ok => before.ok /\ TransferOk(before.st, t) /\ after.st = Transfer(before.st, t)
    <3> DEFINE go == [before EXCEPT !.st = Transfer(@, t)]
               stay == [before EXCEPT !.ok = FALSE]
    <3>1. after = IF before.ok /\ TransferOk(before.st, t) THEN go ELSE stay
      BY <2>1 DEF ApplyTransfer
    <3>2. /\ "ok" \in DOMAIN go /\ "st" \in DOMAIN go /\ go.st = Transfer(before.st, t)
          /\ "ok" \in DOMAIN stay /\ "st" \in DOMAIN stay /\ stay.ok = FALSE
      BY <2>2
    <3> HIDE DEF go, stay, after
    <3> QED
      BY <3>1, <3>2
  <2> HIDE DEF after
  <2>8. ASSUME after.ok
        PROVE  /\ start.ok /\ Booked(after.st, n, excess - (fees + t.fee))
               /\ Told(E \cup Sheet(q, a, place), after.st, a)
               /\ after.st.minted = start.st.minted
    <3>1. before.ok /\ TransferOk(before.st, t) /\ after.st = Transfer(before.st, t)
      BY <2>7, <2>8
    <3>2. /\ Booked(before.st, n, excess - fees) /\ excess - fees \in Int /\ start.ok
          /\ Told(had, before.st, a) /\ before.st.minted = start.st.minted
      BY <2>2, <2>3, <3>1
    <3>3. Booked(after.st, n, (excess - fees) - t.fee)
      BY <3>1, <3>2, TransferBooked
    <3>4. (excess - fees) - t.fee = excess - (fees + t.fee)
      BY <2>3
    <3> DEFINE worth == IF t.from # a THEN t.amount
                        ELSE IF t.to # a THEN 0 - (t.amount + t.fee) ELSE 0 - t.fee
    <3>5. /\ after.st.minted = before.st.minted
          /\ ~ Concerns(t, a) => TotalIn(after.st, a) = TotalIn(before.st, a)
          /\ Concerns(t, a) => TotalIn(after.st, a) = TotalIn(before.st, a) + worth
      BY <3>1, <3>2, TransferTotal
    <3>6. Concerns(t, a) => Worth(x) = worth
      BY <2>6
    <3> HIDE DEF worth
    <3>7. Told(E \cup Sheet(q, a, place), after.st, a)
      <4>1. CASE Concerns(t, a)
        <5>1. TotalIn(after.st, a) = TotalIn(before.st, a) + Worth(x)
          BY <3>5, <3>6, <4>1
        <5>2. Told(had \cup {x}, after.st, a)
          BY <2>5, <2>6, <3>2, <4>1, <5>1, ToldMore
        <5> QED
          BY <2>4, <4>1, <5>2
      <4>2. CASE ~ Concerns(t, a)
        BY <2>4, <3>2, <3>5, <4>2 DEF Told
      <4> QED
        BY <4>1, <4>2
    <3> QED
      BY <3>2, <3>3, <3>4, <3>5, <3>7
  <2>9. Tallied(start, n, excess, E, a, place, q)
    BY <2>1, <2>7, <2>8 DEF Tallied, after
  <2> QED
    BY <2>1, <2>9 DEF q
<1> HIDE DEF K
<1>3. Seq(TransferType) \subseteq K
  BY <1>1, <1>2, Replaying!SeqSet
<1> QED
  BY <1>3 DEF K

\* The entries of a block.
BlockSheet(b, a, place) ==
  (IF b.miner = a THEN {Entry("mined", b.reward, 0, place, 0)} ELSE {}) \cup Sheet(b.txs, a, place)

LEMMA BlockSheetAt ==
  ASSUME NEW b, b.txs \in Seq(TransferType), NEW a, NEW place, NEW e \in BlockSheet(b, a, place)
  PROVE  e.place = place
<1>1. CASE e \in Sheet(b.txs, a, place)
  BY <1>1, SheetIn
<1>2. CASE e = Entry("mined", b.reward, 0, place, 0)
  BY <1>2 DEF Entry
<1> QED
  BY <1>1, <1>2 DEF BlockSheet

\* Block n is valid after a ledger that the entries E tell, those of other places.
Follows(st, n, b, a, place, E) ==
  /\ n \in Nat /\ Booked(st, n - 1, 0) /\ BlockReward(n) \in Nat
  /\ b.miner \in Account /\ b.txs \in Seq(TransferType) /\ PostState(st, b, n).ok
  /\ Told(E, st, a) /\ \A e \in E : e.place # place

\* With its own entries they tell the ledger that it leaves.
LEMMA BlockTold ==
  ASSUME NEW st, NEW n, NEW b, NEW a, NEW place, NEW E, Follows(st, n, b, a, place, E)
  PROVE  /\ Told(E \cup BlockSheet(b, a, place), PostState(st, b, n).st, a)
         /\ PostState(st, b, n).st.minted = st.minted + BlockReward(n)
         /\ b.reward = BlockReward(n) + Fees(b)
<1> DEFINE unlocked == UnlockMatured(st, n)
           start == [ok |-> CoinbaseOk(unlocked, b, n), st |-> PayCoinbase(unlocked, b, n)]
           body == ApplyBody(st, b, n)
           end == PostState(st, b, n)
           fees == Feeing!Fold(0, b.txs)
           x == Entry("mined", b.reward, 0, place, 0)
           top == IF b.miner = a THEN {x} ELSE {}
           s == b.txs
<1>0. /\ n \in Nat /\ Booked(st, n - 1, 0) /\ BlockReward(n) \in Nat
      /\ b.miner \in Account /\ b.txs \in Seq(TransferType) /\ PostState(st, b, n).ok
      /\ Told(E, st, a) /\ \A e \in E : e.place # place
  BY DEF Follows
<1>1. Booked(unlocked, n - 1, 0) /\ unlocked.minted = st.minted
  <2>1. n - 1 \in Int
    BY <1>0
  <2> QED
    BY <1>0, <2>1, UnlockBooked
<1>2. TotalIn(unlocked, a) = TotalIn(st, a)
  <2>1. n - 1 \in Int
    BY <1>0
  <2> QED
    BY <1>0, <2>1, UnlockTotal
<1>3. fees \in Nat /\ Fees(b) = fees /\ s \in Seq(TransferType)
  BY <1>0, FeesNat, FeesFold
<1>4. body = Applying!Fold(start, b.txs)
  BY BodyFolds
<1>5. end = [ok |-> body.ok, st |-> IF body.ok THEN UnlockMatured(body.st, n) ELSE st]
  BY DEF PostState
<1>6. "ok" \in DOMAIN start /\ "st" \in DOMAIN start
      /\ start.ok = CoinbaseOk(unlocked, b, n) /\ start.st = PayCoinbase(unlocked, b, n)
  OBVIOUS
<1>7. body.ok /\ end.st = UnlockMatured(body.st, n)
  <2>1. end.ok
    BY <1>0
  <2> HIDE DEF end, body
  <2>2. body.ok
    BY <1>5, <2>1
  <2> QED
    BY <1>5, <2>2
<1>8. BlockSheet(b, a, place) = top \cup Sheet(s, a, place)
  BY DEF BlockSheet
<1> HIDE DEF start, unlocked, body, fees, end, s
<1>9. ASSUME start.ok
      PROVE  /\ Booked(start.st, n, fees) /\ Told(E \cup top, start.st, a)
             /\ start.st.minted = st.minted + BlockReward(n)
             /\ b.reward = BlockReward(n) + Fees(b)
             /\ b.miner = a => x.place = place /\ x.index = 0
  <2>1. CoinbaseOk(unlocked, b, n) /\ start.st = PayCoinbase(unlocked, b, n) /\ Fees(b) \in Nat
    BY <1>3, <1>6, <1>9
  <2>2. Booked(start.st, n, fees)
    BY <1>0, <1>1, <1>3, <2>1, CoinbaseBooked
  <2>3. /\ b.reward \in Nat /\ b.reward = BlockReward(n) + Fees(b)
        /\ start.st.minted = st.minted + BlockReward(n)
        /\ b.miner = a => TotalIn(start.st, a) = TotalIn(st, a) + b.reward
        /\ b.miner # a => TotalIn(start.st, a) = TotalIn(st, a)
    <3> DEFINE paid == PayCoinbase(unlocked, b, n)
    <3>0. Payable(unlocked, n, b)
      BY <1>0, <1>1, <2>1 DEF Payable
    <3>1. /\ b.reward \in Nat /\ b.reward = BlockReward(n) + Fees(b)
          /\ paid.minted = unlocked.minted + BlockReward(n)
          /\ b.miner = a => TotalIn(paid, a) = TotalIn(unlocked, a) + b.reward
          /\ b.miner # a => TotalIn(paid, a) = TotalIn(unlocked, a)
      BY <3>0, CoinbaseTotal
    <3>2. start.st = paid
      BY <2>1
    <3> HIDE DEF paid
    <3> QED
      BY <1>1, <1>2, <3>1, <3>2
  <2>4. IsEntry(x) /\ x.place = place /\ x.index = 0 /\ Worth(x) = b.reward
    BY <2>3, MinedIs
  <2> HIDE DEF x
  <2>5. Told(E \cup top, start.st, a)
    <3>1. CASE b.miner = a
      <4>1. x \notin E /\ TotalIn(start.st, a) = TotalIn(st, a) + Worth(x) /\ E \cup top = E \cup {x}
        BY <1>0, <2>3, <2>4, <3>1
      <4> QED
        BY <1>0, <2>4, <4>1, ToldMore
    <3>2. CASE b.miner # a
      <4>1. E \cup top = E /\ TotalIn(start.st, a) = TotalIn(st, a)
        BY <2>3, <3>2
      <4> QED
        BY <1>0, <4>1 DEF Told
    <3> QED
      BY <3>1, <3>2
  <2> QED
    BY <2>2, <2>3, <2>4, <2>5
<1>10. ASSUME start.ok
       PROVE  \A e \in E \cup top : e.place = place => e.index = 0
  <2>1. b.miner = a => x.place = place /\ x.index = 0
    BY <1>9, <1>10
  <2> HIDE DEF x
  <2> QED
    BY <1>0, <2>1
<1>11. start.ok
  <2>1. ASSUME ~ start.ok
        PROVE  FALSE
    <3>1. fees \in Int /\ \A e \in {} : e.place = place => e.index = 0
      BY <1>3
    <3>2. Tallied(start, n, fees, {}, a, place, s)
      BY <1>3, <1>6, <2>1, <3>1, BodyTold
    <3> QED
      BY <1>4, <1>7, <2>1, <3>2 DEF Tallied, s
  <2> QED
    BY <2>1
<1>12. Tallied(start, n, fees, E \cup top, a, place, s)
  <2> DEFINE G == E \cup top
  <2>1. /\ fees \in Int /\ \A e \in G : e.place = place => e.index = 0
        /\ start.ok => Booked(start.st, n, fees) /\ Told(G, start.st, a)
    BY <1>3, <1>9, <1>10, <1>11
  <2> HIDE DEF G
  <2>2. Tallied(start, n, fees, G, a, place, s)
    BY <1>3, <1>6, <2>1, BodyTold
  <2> QED
    BY <2>2 DEF G
<1>13. /\ Booked(body.st, n, fees - fees)
       /\ Told((E \cup top) \cup Sheet(s, a, place), body.st, a)
       /\ body.st.minted = start.st.minted
  BY <1>4, <1>7, <1>12 DEF Tallied, fees, s
<1>14. Booked(body.st, n, 0)
  <2>1. fees - fees = 0
    BY <1>3
  <2> QED
    BY <1>13, <2>1
<1>15. /\ UnlockMatured(body.st, n).minted = body.st.minted
       /\ TotalIn(UnlockMatured(body.st, n), a) = TotalIn(body.st, a)
  BY <1>0, <1>14, UnlockBooked, UnlockTotal
<1>16. (E \cup top) \cup Sheet(s, a, place) = E \cup BlockSheet(b, a, place)
  BY <1>8
<1>17. Told(E \cup BlockSheet(b, a, place), end.st, a)
  <2>1. Told(E \cup BlockSheet(b, a, place), body.st, a)
    BY <1>13, <1>16
  <2> QED
    BY <1>7, <1>15, <2>1 DEF Told
<1> QED
  BY <1>7, <1>9, <1>11, <1>13, <1>15, <1>17 DEF end
-----------------------------------------------------------------------------
(* What a whole node's pages tell. *)

\* The block at a place, on its parent's ledger.
LEMMA PlaceValid ==
  ASSUME IInv, Whole, NEW p \in Place
  PROVE  /\ p \in Nat \ {0} /\ p + 1 \in 1..Len(blocks) /\ At(p) = Header[blocks[p + 1]]
         /\ Booked(Header[blocks[p]].root, p - 1, 0) /\ BlockReward(p) \in Nat
         /\ At(p).miner \in Account /\ At(p).txs \in Seq(TransferType)
         /\ PostState(Header[blocks[p]].root, At(p), p).ok
         /\ PostState(Header[blocks[p]].root, At(p), p).st = At(p).root
<1> DEFINE h == blocks[p + 1]
           g == blocks[p]
<1>1. /\ IsPiece(blocks) /\ Len(blocks) \in Nat \ {0}
      /\ \A i \in 1..Len(blocks) : blocks[i] \in Blk /\ Depth(blocks[i]) = i - 1
  BY WholeBlocks
<1>2. p \in Nat \ {0} /\ p \in 1..Len(blocks) /\ p + 1 \in 2..Len(blocks) /\ p + 1 \in 1..Len(blocks)
      /\ (p + 1) - 1 = p
  BY <1>1 DEF Place
<1>3. /\ h \in Blk /\ g \in Blk /\ h \in Genuine /\ g \in Genuine
      /\ Header[h].prev = g /\ Depth(h) = p /\ Depth(g) = p - 1
  <2>1. Header[blocks[p + 1]].prev = blocks[(p + 1) - 1]
    BY <1>1, <1>2 DEF IsPiece
  <2>2. blocks[p + 1] \in Blk /\ Depth(blocks[p + 1]) = (p + 1) - 1
    BY <1>1, <1>2
  <2>3. blocks[p] \in Blk /\ Depth(blocks[p]) = p - 1
    BY <1>1, <1>2
  <2>4. blocks[p + 1] \in Genuine /\ blocks[p] \in Genuine
    BY <1>1, <1>2 DEF IsPiece
  <2> QED
    BY <1>2, <2>1, <2>2, <2>3, <2>4
<1> HIDE DEF h, g
<1>4. Validate(h, p, Header[g].root).ok /\ Validate(h, p, Header[g].root).st = Header[h].root
  <2>1. Depth(g) + 1 = p
    BY <1>2, <1>3
  <2> QED
    BY <1>3, <2>1, GenuineValid
<1>5. PostState(Header[g].root, Header[h], p).ok /\ PostState(Header[g].root, Header[h], p).st = Header[h].root
  BY <1>4 DEF Validate
<1>6. Booked(Header[g].root, p - 1, 0)
  BY <1>3, GenuineBooked DEF Kosher
<1>7. Header[h].miner \in Account /\ Header[h].txs \in Seq(TransferType) /\ BlockReward(p) \in Nat
  BY <1>3, HeaderAssumption, SubsidyAssumption
<1>8. At(p) = Header[h]
  BY DEF At, h
<1> QED
  BY <1>2, <1>5, <1>6, <1>7, <1>8 DEF h, g

\* The entries of a at the first k places.
Book(a, k) == UNION {BlockSheet(Header[blocks[p + 1]], a, p) : p \in 1..k}

LEMMA BookMore ==
  ASSUME NEW a, NEW k \in Nat
  PROVE  Book(a, k + 1) = Book(a, k) \cup BlockSheet(Header[blocks[(k + 1) + 1]], a, k + 1)
<1> DEFINE F(p) == BlockSheet(Header[blocks[p + 1]], a, p)
<1>1. \A p : p \in 1..(k + 1) <=> p \in 1..k \/ p = k + 1
  OBVIOUS
<1>2. Book(a, k + 1) = UNION {F(p) : p \in 1..(k + 1)} /\ Book(a, k) = UNION {F(p) : p \in 1..k}
  BY DEF Book
<1> HIDE DEF F
<1>3. ASSUME NEW e
      PROVE  /\ e \in Book(a, k + 1) <=> \E p \in 1..(k + 1) : e \in F(p)
             /\ e \in Book(a, k) <=> \E p \in 1..k : e \in F(p)
  BY <1>2
<1>4. ASSUME NEW e
      PROVE  e \in Book(a, k + 1) <=> e \in Book(a, k) \/ e \in F(k + 1)
  BY <1>1, <1>3
<1>5. Book(a, k + 1) = Book(a, k) \cup F(k + 1)
  BY <1>4
<1> QED
  BY <1>5 DEF F

\* They tell the total in the ledger the last of them left.
LEMMA BookTold ==
  ASSUME IInv, Whole, NEW a, NEW j \in Nat, j <= Len(blocks) - 1
  PROVE  Told(Book(a, j), Header[blocks[j + 1]].root, a) /\ \A e \in Book(a, j) : e.place \in 1..j
<1> DEFINE N == Len(blocks) - 1
           Root(k) == Header[blocks[k + 1]].root
           Fine(k) == Told(Book(a, k), Root(k), a) /\ \A e \in Book(a, k) : e.place \in 1..k
           K == {k \in Nat : k <= N => Fine(k)}
<1>1. /\ IsPiece(blocks) /\ blocks[1] = Genesis /\ Len(blocks) \in Nat \ {0} /\ N \in Nat
  BY WholeBlocks
<1>2. 0 \in K
  <2>1. Book(a, 0) = {}
    <3>1. 1..0 = {}
      OBVIOUS
    <3> QED
      BY <3>1 DEF Book
  <2>2. Root(0) = EmptyLedger
    BY <1>1, HeaderAssumption
  <2>3. TotalIn(EmptyLedger, a) = 0
    <3>1. EmptyLedger.pend = {} /\ Num(EmptyLedger.bal, a) = 0
      BY DEF EmptyLedger, EmptyMap, Num
    <3>2. {p \in EmptyLedger.pend : p.to = a} = {}
      BY <3>1
    <3>3. Amounts({p \in EmptyLedger.pend : p.to = a}) = 0
      BY <3>2, AmountsEmpty
    <3> QED
      BY <3>1, <3>3 DEF TotalIn
  <2>4. Told({}, EmptyLedger, a)
    BY <2>3, NetNone, FS_EmptySet DEF Told
  <2> QED
    BY <2>1, <2>2, <2>4
<1>3. ASSUME NEW k \in Nat, k \in K
      PROVE  k + 1 \in K
  <2>1. SUFFICES ASSUME k + 1 <= N
                 PROVE  Fine(k + 1)
    OBVIOUS
  <2> DEFINE p == k + 1
             b == Header[blocks[p + 1]]
             st == Header[blocks[p]].root
             sheet == BlockSheet(b, a, p)
             E == Book(a, k)
  <2>2. p \in Place /\ k <= N
    BY <1>1, <2>1 DEF Place
  <2>3. Told(E, st, a) /\ \A e \in E : e.place \in 1..k
    BY <1>3, <2>2
  <2>4. \A e \in E : e.place # p
    <3> HIDE DEF E
    <3> QED
      BY <2>3
  <2>5. /\ p \in Nat /\ At(p) = b /\ Booked(st, p - 1, 0) /\ BlockReward(p) \in Nat
        /\ b.miner \in Account /\ b.txs \in Seq(TransferType) /\ PostState(st, b, p).ok
        /\ PostState(st, b, p).st = b.root
    <3>1. At(p) = b
      BY DEF At
    <3> HIDE DEF p, b
    <3> QED
      BY <2>2, <3>1, PlaceValid
  <2>6. Book(a, p) = E \cup sheet
    BY BookMore
  <2>7. Root(p) = b.root
    OBVIOUS
  <2> HIDE DEF E, st, b, sheet, Root
  <2>8. Told(E \cup BlockSheet(b, a, p), PostState(st, b, p).st, a)
        /\ \A e \in BlockSheet(b, a, p) : e.place = p
    <3> HIDE DEF p
    <3>1. Told(E, st, a) /\ \A e \in E : e.place # p
      BY <2>3, <2>4
    <3>2. Follows(st, p, b, a, p, E)
      BY <2>5, <3>1 DEF Follows
    <3>4. Told(E \cup BlockSheet(b, a, p), PostState(st, b, p).st, a)
      BY <3>2, BlockTold
    <3>3. \A e \in BlockSheet(b, a, p) : e.place = p
      BY <2>5, BlockSheetAt
    <3> QED
      BY <3>3, <3>4
  <2>9. Told(Book(a, p), Root(p), a)
    BY <2>5, <2>6, <2>7, <2>8 DEF sheet
  <2>10. \A e \in Book(a, p) : e.place \in 1..p
    <3>1. \A e \in sheet : e.place = p
      BY <2>8 DEF sheet
    <3> QED
      BY <2>3, <2>6, <3>1
  <2> QED
    BY <2>9, <2>10
<1> HIDE DEF K
<1>4. j \in K
  BY <1>2, <1>3, Replaying!NatSet
<1>5. Fine(j)
  BY <1>4 DEF K
<1> QED
  BY <1>5

\* Over the whole chain, that in the cached one.
LEMMA ChainTold ==
  ASSUME IInv, Whole, NEW a
  PROVE  Told(Book(a, Len(blocks) - 1), cache, a)
<1> DEFINE N == Len(blocks) - 1
<1>1. IsPiece(blocks) /\ N \in Nat /\ N <= Len(blocks) - 1 /\ N + 1 = Len(blocks)
  BY WholeBlocks
<1>2. cache = Header[blocks[Len(blocks)]].root
  BY NodeFields DEF IInv, Good, Last
<1> HIDE DEF N
<1>3. Told(Book(a, N), Header[blocks[N + 1]].root, a)
  BY <1>1, BookTold
<1>4. Told(Book(a, N), cache, a)
  BY <1>1, <1>2, <1>3
<1> QED
  BY <1>4 DEF N

\* What the block at a place mints and what its coinbase has.
LEMMA PlacePays ==
  ASSUME IInv, Whole, NEW p \in Place
  PROVE  /\ Header[blocks[p + 1]].root.minted = Header[blocks[p]].root.minted + BlockReward(p)
         /\ At(p).reward = BlockReward(p) + Fees(At(p))
<1> DEFINE st == Header[blocks[p]].root
           b == At(p)
           a == At(p).miner
           k == p - 1
           E == Book(a, k)
<1>1. /\ p \in Nat \ {0} /\ p + 1 \in 1..Len(blocks) /\ Booked(st, p - 1, 0) /\ BlockReward(p) \in Nat
      /\ b.miner \in Account /\ b.txs \in Seq(TransferType) /\ PostState(st, b, p).ok
      /\ PostState(st, b, p).st = b.root /\ b = Header[blocks[p + 1]]
  BY PlaceValid
<1>2. k \in Nat /\ k <= Len(blocks) - 1 /\ k + 1 = p
  BY <1>1, WholeBlocks
<1>3. Told(E, st, a) /\ \A e \in E : e.place # p
  <2> HIDE DEF k
  <2>1. Told(Book(a, k), Header[blocks[k + 1]].root, a) /\ \A e \in Book(a, k) : e.place \in 1..k
    BY <1>2, BookTold
  <2> QED
    BY <1>2, <2>1
<1> HIDE DEF st, b, a, E
<1>4. /\ p \in Nat /\ Booked(st, p - 1, 0) /\ BlockReward(p) \in Nat
      /\ b.miner \in Account /\ b.txs \in Seq(TransferType) /\ PostState(st, b, p).ok
  BY <1>1
<1>5. Follows(st, p, b, a, p, E)
  BY <1>3, <1>4 DEF Follows
<1>6. PostState(st, b, p).st.minted = st.minted + BlockReward(p)
  BY <1>5, BlockTold
<1>7. b.reward = BlockReward(p) + Fees(b)
  BY <1>5, BlockTold
<1> QED
  BY <1>1, <1>6, <1>7 DEF st, b

\* The pages' entries are those.
LEMMA ActivityBook == \A a : ConfirmedActivity(a) = Book(a, Len(blocks) - 1)
<1>1. SUFFICES ASSUME NEW a
               PROVE  ConfirmedActivity(a) = Book(a, Len(blocks) - 1)
  OBVIOUS
<1> DEFINE Mine(p) == Entry("mined", At(p).reward, 0, p, 0)
           Top(p) == IF At(p).miner = a THEN {Mine(p)} ELSE {}
           Rest(p) == Sheet(At(p).txs, a, p)
<1>2. \A p : BlockSheet(Header[blocks[p + 1]], a, p) = Top(p) \cup Rest(p)
  BY DEF BlockSheet, At
<1>3. MinedBy(a) = {Mine(p) : p \in {q \in Place : At(q).miner = a}}
  BY DEF MinedBy
<1>4. Moved(a) = UNION {Rest(p) : p \in Place}
  BY DEF Moved, Sheet
<1>5. Book(a, Len(blocks) - 1) = UNION {Top(p) \cup Rest(p) : p \in Place}
  BY <1>2 DEF Book, Place
<1>6. \A x, p : x \in Top(p) <=> At(p).miner = a /\ x = Mine(p)
  OBVIOUS
<1> HIDE DEF Mine, Top, Rest
<1>7. {Mine(p) : p \in {q \in Place : At(q).miner = a}} \cup UNION {Rest(p) : p \in Place}
        = UNION {Top(p) \cup Rest(p) : p \in Place}
  BY <1>6
<1> QED
  BY <1>3, <1>4, <1>5, <1>7 DEF ConfirmedActivity
-----------------------------------------------------------------------------
(* The supply reckoned back from the tip. *)

Later(p) == {q \in Place : q > p}

LEMMA MintedBack ==
  ASSUME IInv, Whole, NEW k \in Nat, k <= Len(blocks) - 1
  PROVE  /\ Header[blocks[Len(blocks) - k]].root.minted \in Nat
         /\ Total(BlockReward, Later(Len(blocks) - 1 - k)) \in Int
         /\ Header[blocks[Len(blocks) - k]].root.minted + Total(BlockReward, Later(Len(blocks) - 1 - k))
              = cache.minted
<1> DEFINE L == Len(blocks)
           Mint(i) == Header[blocks[i]].root.minted
           Late(p) == Total(BlockReward, Later(p))
           Fine(i) == /\ Mint(L - i) \in Nat /\ Late(L - 1 - i) \in Int
                      /\ Mint(L - i) + Late(L - 1 - i) = cache.minted
           K == {i \in Nat : i <= L - 1 => Fine(i)}
<1>1. /\ IsPiece(blocks) /\ L \in Nat \ {0} /\ cache.minted = Mint(L)
      /\ \A i \in 1..L : blocks[i] \in Blk /\ blocks[i] \in Genuine
  <2>1. IsPiece(blocks) /\ L \in Nat \ {0}
    BY WholeBlocks
  <2>2. cache = Header[Last(blocks)].root
    BY NodeFields DEF IInv, Good
  <2>3. \A i \in 1..L : blocks[i] \in Genuine
    BY <2>1 DEF IsPiece
  <2> QED
    BY <2>1, <2>2, <2>3 DEF Last, Genuine
<1>2. \A i \in 1..L : Mint(i) \in Nat
  <2>1. SUFFICES ASSUME NEW i \in 1..L
                 PROVE  Mint(i) \in Nat
    OBVIOUS
  <2>2. Kosher(blocks[i])
    BY <1>1, GenuineBooked
  <2> QED
    BY <2>2 DEF Kosher, Booked
<1>3. 0 \in K
  <2>1. Later(L - 1) = {}
    BY <1>1 DEF Later, Place
  <2>2. Late(L - 1) = 0
    <3> DEFINE f == [q \in {} |-> BlockReward(q)]
    <3>1. Total(BlockReward, {}) = SumFunctionOnSet(f, {})
      BY DEF Total, SumFunction
    <3> HIDE DEF f
    <3>2. Total(BlockReward, {}) = 0
      BY <3>1, SumEmpty
    <3> QED
      BY <2>1, <3>2
  <2>3. L - 0 = L /\ L - 1 - 0 = L - 1 /\ L \in 1..L
    BY <1>1
  <2>4. Mint(L) \in Nat /\ Mint(L) + Late(L - 1) = cache.minted
    <3>1. Mint(L) \in Nat
      BY <1>2, <2>3
    <3> HIDE DEF Mint, Late
    <3> QED
      BY <1>1, <2>2, <3>1
  <2>5. Fine(0)
    <3> HIDE DEF Mint, Late, L
    <3> QED
      BY <2>2, <2>3, <2>4
  <2> QED
    BY <2>5
<1>4. ASSUME NEW i \in Nat, i \in K
      PROVE  i + 1 \in K
  <2>1. SUFFICES ASSUME i + 1 <= L - 1
                 PROVE  Fine(i + 1)
    OBVIOUS
  <2> DEFINE p == L - 1 - i
             S == Later(p)
  <2>2. /\ p \in Place /\ p \in Nat \ {0} /\ p + 1 = L - i /\ L - (i + 1) = p
        /\ L - 1 - (i + 1) = p - 1 /\ p \in 1..L
    BY <1>1, <2>1 DEF Place
  <2>3. Fine(i)
    BY <1>4, <2>1, <1>1
  <2>4. /\ Mint(p + 1) = Mint(p) + BlockReward(p) /\ BlockReward(p) \in Nat
    BY <2>2, PlacePays, PlaceValid
  <2>5. Later(p - 1) = S \cup {p} /\ p \notin S
    <3>1. \A q \in Place : q \in Int
      BY <1>1 DEF Place
    <3> HIDE DEF p
    <3>2. p \in Int /\ p \in Place
      BY <2>2
    <3>3. \A q \in Place : q > p - 1 <=> q > p \/ q = p
      BY <3>1, <3>2
    <3>4. ~ (p > p)
      BY <3>2
    <3> QED
      BY <3>2, <3>3, <3>4 DEF Later
  <2>6. Late(p - 1) = BlockReward(p) + Late(p) /\ Late(p) \in Int
    <3> DEFINE f == [q \in S |-> BlockReward(q)]
               g == [q \in S \cup {p} |-> BlockReward(q)]
    <3>1. IsFiniteSet(S)
      <4>1. IsFiniteSet(Place)
        BY <1>1, FS_Interval DEF Place
      <4>2. S \in SUBSET Place
        BY DEF Later
      <4> QED
        BY <4>1, <4>2, FS_Subset
    <3>2. \A q \in Place : BlockReward(q) \in Nat
      BY PlaceValid
    <3>3. S \cup {p} \in SUBSET Place
      BY <2>2 DEF Later
    <3>4. \A q \in S \cup {p} : BlockReward(q) \in Int
      <4> HIDE DEF S, p
      <4> QED
        BY <3>2, <3>3
    <3>5. Restricts(f, g, S, p) /\ g[p] = BlockReward(p)
      <4> HIDE DEF S, p
      <4> QED
        BY <3>4 DEF Restricts
    <3>6. Total(BlockReward, S) = SumFunction(f) /\ Total(BlockReward, S \cup {p}) = SumFunction(g)
      BY DEF Total
    <3> HIDE DEF f, g, S, p
    <3>7. SumFunction(g) = g[p] + SumFunction(f) /\ SumFunction(f) \in Int
      BY <2>5, <3>1, <3>5, RestrictAdd
    <3> QED
      BY <2>5, <3>5, <3>6, <3>7 DEF S
  <2>7. Mint(p) \in Nat
    BY <1>2, <2>2
  <2>8. Mint(p + 1) + Late(p) = cache.minted
    BY <2>2, <2>3
  <2>9. Mint(p) \in Nat /\ Late(p - 1) \in Int /\ Mint(p) + Late(p - 1) = cache.minted
    <3> DEFINE m == Mint(p)
               r == BlockReward(p)
               l == Late(p)
    <3>1. m \in Nat /\ r \in Nat /\ l \in Int /\ Mint(p + 1) = m + r /\ Late(p - 1) = r + l
      BY <2>4, <2>6, <2>7
    <3>2. (m + r) + l = cache.minted
      BY <2>8, <3>1
    <3> HIDE DEF m, r, l, Mint, Late
    <3>3. r + l \in Int /\ m + (r + l) = cache.minted
      BY <3>1, <3>2
    <3> QED
      BY <3>1, <3>3 DEF m
  <2> QED
    BY <2>2, <2>9
<1> HIDE DEF K, Fine
<1>5. k \in K
  BY <1>3, <1>4, Replaying!NatSet
<1>6. Fine(k)
  BY <1>1, <1>5 DEF K
<1> QED
  BY <1>6 DEF Fine

LEMMA MintedTells ==
  ASSUME IInv, Whole, NEW p \in Place
  PROVE  MintedAt(p) = FullReplay(blocks[p + 1]).st.minted
<1> DEFINE k == Len(blocks) - 1 - p
           h == blocks[p + 1]
<1>1. k \in Nat /\ k <= Len(blocks) - 1 /\ Len(blocks) - k = p + 1 /\ Len(blocks) - 1 - k = p
      /\ p + 1 \in 1..Len(blocks)
  BY WholeBlocks DEF Place
<1>2. h \in Genuine /\ h \in Blk
  <2>1. IsPiece(blocks)
    BY WholeBlocks
  <2> QED
    BY <1>1, <2>1, PieceEnds DEF IsPiece
<1> HIDE DEF k
<1>3. /\ Header[h].root.minted \in Nat /\ Total(BlockReward, Later(p)) \in Int
      /\ Header[h].root.minted + Total(BlockReward, Later(p)) = cache.minted
  <2>1. /\ Header[blocks[Len(blocks) - k]].root.minted \in Nat
        /\ Total(BlockReward, Later(Len(blocks) - 1 - k)) \in Int
        /\ Header[blocks[Len(blocks) - k]].root.minted + Total(BlockReward, Later(Len(blocks) - 1 - k))
             = cache.minted
    BY <1>1, MintedBack
  <2> QED
    BY <1>1, <2>1
<1> DEFINE m == Header[h].root.minted
           l == Total(BlockReward, Later(p))
<1>4. MintedAt(p) = cache.minted - l
  BY DEF MintedAt, Later, Total
<1>5. FullReplay(h).st = Header[h].root
  BY <1>2, GenuineAt DEF Reached
<1> HIDE DEF l, h
<1>6. cache.minted - l = m
  <2>1. m \in Nat /\ l \in Int /\ m + l = cache.minted
    BY <1>3 DEF l
  <2> HIDE DEF m
  <2> QED
    BY <2>1
<1> QED
  BY <1>4, <1>5, <1>6 DEF h

LEMMA TotalIs == \A a : WalletInfo(a).total = TotalIn(cache, a)
  BY DEF WalletInfo, TotalOf, TotalIn, Amounts

LEMMA SupplyTells ==
  ASSUME IInv
  PROVE  StateReport.remaining + Total(LAMBDA a : WalletInfo(a).total, Account) = MaxSupply
<1> DEFINE t == Last(blocks)
           n == Depth(t)
           sum == SumFunction([a \in Account |-> TotalIn(cache, a)])
           left == StateReport.remaining
<1>1. t \in Genuine /\ t \in Blk /\ cache = Header[t].root
  <2>1. Last(blocks) \in Genuine /\ cache = Header[Last(blocks)].root
    BY NodeFields, GoodTip DEF IInv, Good
  <2> QED
    BY <2>1 DEF Genuine
<1>2. Booked(cache, n, 0)
  BY <1>1, GenuineBooked DEF Kosher
<1>3. Housed(cache)
  BY <1>1, GenuineNonced DEF Nonced
<1>4. sum = cache.minted
  BY <1>2, <1>3, AccountAssumption, SupplySum
<1>5. Total(LAMBDA a : WalletInfo(a).total, Account) = sum
  BY TotalIs DEF Total
<1>6. cache.minted \in Nat /\ cache.minted <= MaxSupply /\ MaxSupply \in Nat
  BY <1>2, Numbers DEF Booked
<1>7. left = Max({0, MaxSupply - cache.minted})
  BY DEF StateReport
<1> HIDE DEF sum, left
<1>8. left = MaxSupply - cache.minted
  <2> DEFINE d == MaxSupply - cache.minted
  <2>1. 0 \in Int /\ d \in Int /\ d >= 0
    BY <1>6
  <2> HIDE DEF d
  <2>2. \A x, y \in Int : Max({x, y}) = IF x >= y THEN x ELSE y
    BY MaxTwo
  <2>3. Max({0, d}) = IF 0 >= d THEN 0 ELSE d
    BY <2>1, <2>2, Zenon
  <2>4. Max({0, d}) = d
    BY <2>1, <2>3
  <2> QED
    BY <1>7, <2>4 DEF d
<1> DEFINE m == cache.minted
<1>9. left + m = MaxSupply
  <2>1. left = MaxSupply - m /\ m \in Nat /\ MaxSupply \in Nat
    BY <1>6, <1>8
  <2> HIDE DEF m
  <2> QED
    BY <2>1
<1> QED
  BY <1>4, <1>5, <1>9 DEF left

LEMMA WalletTells ==
  ASSUME IInv, Whole, IsFiniteSet(pool.txs), NEW a, WalletPage(a).pending = 0
  PROVE  WalletPage(a).received - WalletPage(a).sent - WalletPage(a).fees = WalletInfo(a).total
<1> DEFINE E == ConfirmedActivity(a)
           P == PendingActivity(a)
<1>1. Told(E, cache, a)
  BY ChainTold, ActivityBook
<1>2. P = {}
  <2> DEFINE of == {x \in pool.txs : Concerns(x, a)}
             f == [t \in of |-> [direction |-> Direction(t, a), amount |-> t.amount,
                                 fee |-> t.fee, of |-> t]]
  <2>1. IsFiniteSet(of)
    <3>1. of \in SUBSET pool.txs
      OBVIOUS
    <3> QED
      BY <3>1, FS_Subset
  <2>2. f \in Surjection(of, P)
    BY DEF Surjection, PendingActivity
  <2> HIDE DEF P
  <2>3. IsFiniteSet(P)
    BY <2>1, <2>2, FS_Surjection
  <2>4. Cardinality(P) = 0
    BY DEF WalletPage, P
  <2> QED
    BY <2>3, <2>4, FS_EmptySet
<1>3. /\ \A directions : Summed(AmountOf, a, directions) = AmountsIn(Picked(E, directions)) + AmountsIn({})
      /\ \A directions : Summed(FeeOf, a, directions) = FeesIn(Picked(E, directions)) + FeesIn({})
  <2>1. \A directions : {e \in P : e.direction \in directions} = {}
    BY <1>2
  <2> QED
    BY <2>1 DEF Summed, AmountsIn, FeesIn, Picked
<1> DEFINE in == AmountsIn(Picked(E, {"received", "mined"}))
           out == AmountsIn(Picked(E, {"sent"}))
           paid == FeesIn(Picked(E, {"sent", "self"}))
<1> HIDE DEF E, P
<1>4. /\ \A directions : AmountsIn(Picked(E, directions)) \in Int
      /\ \A directions : FeesIn(Picked(E, directions)) \in Int
  BY <1>1, InInts DEF Told
<1>5. /\ WalletPage(a).received = in + 0 /\ WalletPage(a).sent = out + 0
      /\ WalletPage(a).fees = paid + 0
  BY <1>3, InNone DEF WalletPage
<1>6. in \in Int /\ out \in Int /\ paid \in Int
  BY <1>4
<1>7. NetOf(E) = (in - out) - paid
  BY DEF NetOf
<1> HIDE DEF in, out, paid
<1>8. WalletPage(a).received - WalletPage(a).sent - WalletPage(a).fees = NetOf(E)
  BY <1>5, <1>6, <1>7
<1> QED
  BY <1>1, <1>8, TotalIs DEF Told

LEMMA BooksKept ==
  ASSUME IInv, IsFiniteSet(pool.txs)
  PROVE  BooksBalance
<1>1. ASSUME Whole, NEW a \in Account
      PROVE  \E page \in {WalletPage(a)} :
               page.pending = 0 => page.received - page.sent - page.fees = WalletInfo(a).total
  BY <1>1, WalletTells
<1>2. ASSUME Whole, NEW p \in Place
      PROVE  MintedAt(p) = FullReplay(blocks[p + 1]).st.minted /\ BlockPage(p).total = At(p).reward
  <2>1. BlockPage(p).total = BlockReward(p) + Fees(At(p))
    BY DEF BlockPage
  <2> QED
    BY <1>2, <2>1, MintedTells, PlacePays
<1> QED
  BY <1>1, <1>2, SupplyTells DEF BooksBalance

(* Three ways to keep the books agree, whatever was undone and redone: what *)
(* an account's page sums up to is its total in the ledger, the supply      *)
(* reckoned back from the tip is what each block left, and all totals with  *)
(* what is not minted yet are the whole supply.                             *)
THEOREM BooksAgree == Spec => []BooksBalance
<1>1. MP!Inductive => IsFiniteSet(pool.txs)
  <2>1. MP!Inductive => pool.txs \in SUBSET Tx
    BY DEF MP!Inductive, MP!TypeOK
  <2> QED
    BY <2>1, TransferAssumption, FS_Subset
<1>2. IInv /\ MP!Inductive => BooksBalance
  BY <1>1, BooksKept
<1> QED
  BY <1>2, Invariant, ClaimedInvariant, PTL
=============================================================================
