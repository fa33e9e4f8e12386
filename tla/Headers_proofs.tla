--------------------------- MODULE Headers_proofs ---------------------------
(***************************************************************************)
(* The invariants of Headers, for any windows, limits and clocks.          *)
(*                                                                         *)
(* The times of a chain never go back (Ordered), so that the median of a   *)
(* window is the time of the block in its middle (MtpIs), and the window   *)
(* of a chain cut behind an anchor has the same middle as soon as it is    *)
(* full.  Nodes have the same blocks at the same heights, anchors apart    *)
(* (OneBranch), and no block was ahead of its node's clock by more than    *)
(* MaxFuture when it came (InTime).                                        *)
(***************************************************************************)
EXTENDS Headers, FiniteSetTheorems, SequenceTheorems, TLAPS

LEMMA Numbers ==
  /\ MtpWindow \in Nat /\ MtpWindow > 1 /\ MtpWindow \div 2 \in Nat
  /\ DiffWindow \in Nat \ {0} /\ TargetBlock \in Nat \ {0}
  /\ MinDifficulty \in Int /\ MaxDifficulty \in Int
  /\ MinDifficulty <= GenesisDifficulty /\ GenesisDifficulty <= MaxDifficulty
  /\ GenesisDifficulty \in Int /\ MaxFuture \in Nat
  BY HeadersAssumption

-----------------------------------------------------------------------------
(* Least and greatest. *)

LEMMA MinTwo ==
  ASSUME NEW a \in Int, NEW b \in Int
  PROVE  Min({a, b}) = IF a <= b THEN a ELSE b
<1> DEFINE S == {a, b}
           m == IF a <= b THEN a ELSE b
<1>1. m \in S /\ \A y \in S : m <= y
  OBVIOUS
<1>2. \A x \in S : (\A y \in S : x <= y) => x = m
  OBVIOUS
<1> QED
  BY <1>1, <1>2 DEF Min

LEMMA MaxTwo ==
  ASSUME NEW a \in Int, NEW b \in Int
  PROVE  Max({a, b}) = IF a >= b THEN a ELSE b
<1> DEFINE S == {a, b}
           m == IF a >= b THEN a ELSE b
<1>1. m \in S /\ \A y \in S : m >= y
  OBVIOUS
<1>2. \A x \in S : (\A y \in S : x >= y) => x = m
  OBVIOUS
<1> QED
  BY <1>1, <1>2 DEF Max

LEMMA MaxThree ==
  ASSUME NEW a \in Int, NEW b \in Int, NEW c \in Int
  PROVE  /\ Max({a, b, c}) \in {a, b, c}
         /\ Max({a, b, c}) >= a /\ Max({a, b, c}) >= b /\ Max({a, b, c}) >= c
<1> DEFINE S == {a, b, c}
           m == IF a >= b THEN (IF a >= c THEN a ELSE c) ELSE (IF b >= c THEN b ELSE c)
<1>1. m \in S /\ \A y \in S : m >= y
  OBVIOUS
<1>2. Max(S) \in S /\ \A y \in S : Max(S) >= y
  BY <1>1 DEF Max
<1> QED
  BY <1>2

-----------------------------------------------------------------------------
(* The median. *)

\* The number of the places of a list that a condition picks.
LEMMA Places ==
  ASSUME NEW n \in Nat, NEW S \in SUBSET (1..n)
  PROVE  IsFiniteSet(S) /\ Cardinality(S) \in Nat
<1>1. IsFiniteSet(1..n)
  BY FS_Interval
<1> QED
  BY <1>1, FS_Subset, FS_CardinalityType

LEMMA Fewer ==
  ASSUME NEW n \in Nat, NEW T \in SUBSET (1..n), NEW S \in SUBSET T
  PROVE  /\ Cardinality(S) \in Nat /\ Cardinality(T) \in Nat
         /\ Cardinality(S) <= Cardinality(T)
  BY Places, FS_Subset

\* Of times that do not rise, the middle one.
LEMMA MedianIs ==
  ASSUME NEW n \in Nat \ {0}, NEW times \in [1..n -> Nat],
         \A j, k \in 1..n : j <= k => times[k] <= times[j]
  PROVE  Median(times) = times[n - n \div 2]
<1> DEFINE half == n \div 2
           m == times[n - half]
<1>1. half \in Nat /\ half < n /\ n - half \in 1..n
  OBVIOUS
<1>2. times \in Seq(Nat) /\ Len(times) = n /\ DOMAIN times = 1..n
  <2>1. times \in Seq(Nat)
    BY SeqDef
  <2> QED
    BY <2>1
<1>3. ToSet(times) = {times[k] : k \in 1..n}
  BY <1>2 DEF ToSet
<1> HIDE DEF half
<1>4. m \in ToSet(times) /\ m \in Nat
  BY <1>1, <1>3
<1>5. Earlier(times, m) <= half
  <2>1. {k \in 1..n : times[k] < m} \subseteq (n - half + 1)..n
    <3> SUFFICES ASSUME NEW k \in 1..n, times[k] < m
                 PROVE  k \in (n - half + 1)..n
      OBVIOUS
    <3>1. ~ (k <= n - half)
      BY <1>1, <1>4
    <3> QED
      BY <1>1, <3>1
  <2>2. Cardinality((n - half + 1)..n) = half
    BY <1>1, FS_Interval
  <2>3. (n - half + 1)..n \in SUBSET (1..n)
    BY <1>1
  <2>4. Cardinality({k \in 1..n : times[k] < m}) <= Cardinality((n - half + 1)..n)
    BY <2>1, <2>3, Fewer
  <2> QED
    BY <1>1, <1>2, <2>2, <2>4 DEF Earlier
<1>6. half < UpTo(times, m)
  <2>1. (n - half)..n \subseteq {k \in 1..n : times[k] <= m}
    BY <1>1
  <2>2. Cardinality((n - half)..n) = half + 1
    <3>1. n - half \in Int /\ n \in Int /\ ~ (n - half > n) /\ n - (n - half) + 1 = half + 1
      BY <1>1
    <3> QED
      BY <3>1, FS_Interval
  <2>3. {k \in 1..n : times[k] <= m} \in SUBSET (1..n)
    OBVIOUS
  <2>4. /\ Cardinality((n - half)..n) <= Cardinality({k \in 1..n : times[k] <= m})
        /\ Cardinality({k \in 1..n : times[k] <= m}) \in Nat
    BY <2>1, <2>3, Fewer
  <2> QED
    BY <1>1, <1>2, <2>2, <2>4 DEF UpTo
<1>7. ASSUME NEW t \in ToSet(times), NEW u \in ToSet(times), t < u,
             half < UpTo(times, t), Earlier(times, u) <= half
      PROVE  FALSE
  <2>1. {k \in 1..n : times[k] <= t} \subseteq {k \in 1..n : times[k] < u}
    BY <1>3, <1>7
  <2>2. UpTo(times, t) <= Earlier(times, u) /\ UpTo(times, t) \in Nat /\ Earlier(times, u) \in Nat
    BY <1>2, <2>1, Fewer DEF UpTo, Earlier
  <2> QED
    BY <1>1, <1>7, <2>2
<1>8. ToSet(times) \subseteq Nat
  BY <1>3
<1>9. \A t \in ToSet(times) : Earlier(times, t) <= half /\ half < UpTo(times, t) => t = m
  <2> SUFFICES ASSUME NEW t \in ToSet(times), Earlier(times, t) <= half, half < UpTo(times, t)
               PROVE  t = m
    OBVIOUS
  <2>1. ~ (t < m) /\ ~ (m < t)
    BY <1>4, <1>5, <1>6, <1>7
  <2> QED
    BY <1>4, <1>8, <2>1
<1>10. Median(times) = CHOOSE t \in ToSet(times) : Earlier(times, t) <= half /\ half < UpTo(times, t)
  BY <1>2 DEF Median, half
<1> HIDE DEF m
<1>11. Median(times) = m
  BY <1>4, <1>5, <1>6, <1>9, <1>10
<1> QED
  BY <1>11 DEF m, half

-----------------------------------------------------------------------------
(* Chains. *)

BlockType == [ts : Nat, difficulty : MinDifficulty..MaxDifficulty]

Chains == Seq(BlockType) \ {<<>>}

Ordered(bs) == \A i, j \in 1..Len(bs) : i <= j => bs[i].ts <= bs[j].ts

\* The place in the middle of the window that ends at the i-th block.
Mid(i) == IF MtpWindow <= i THEN i - MtpWindow + MtpWindow \div 2 + 1 ELSE i \div 2 + 1

LEMMA MidIn ==
  ASSUME NEW i \in Nat \ {0}
  PROVE  /\ Mid(i) \in 1..i
         /\ MtpWindow <= i => Mid(i) > 1
  BY Numbers DEF Mid

LEMMA MtpIs ==
  ASSUME NEW bs \in Chains, Ordered(bs), NEW i \in 1..Len(bs)
  PROVE  MedianTimePast(bs, i) = bs[Mid(i)].ts
<1> DEFINE n == Min({MtpWindow, i})
           times == [k \in 1..n |-> bs[i - k + 1].ts]
<1>1. n = IF MtpWindow <= i THEN MtpWindow ELSE i
  BY MinTwo, Numbers
<1>2. n \in Nat \ {0} /\ n <= i /\ i <= Len(bs)
  BY <1>1, Numbers
<1> HIDE DEF n
<1>3. bs \in Seq(BlockType) /\ \A j \in 1..Len(bs) : bs[j].ts \in Nat
  <2>1. bs \in Seq(BlockType) /\ \A b \in BlockType : b.ts \in Nat
    BY DEF Chains, BlockType
  <2> QED
    BY <2>1
<1>4. \A k \in 1..n : i - k + 1 \in 1..Len(bs)
  BY <1>2
<1>5. times \in [1..n -> Nat]
  BY <1>3, <1>4
<1>6. \A j, k \in 1..n : j <= k => times[k] <= times[j]
  <2> SUFFICES ASSUME NEW j \in 1..n, NEW k \in 1..n, j <= k
               PROVE  times[k] <= times[j]
    OBVIOUS
  <2>1. i - k + 1 \in 1..Len(bs) /\ i - j + 1 \in 1..Len(bs) /\ i - k + 1 <= i - j + 1
    BY <1>2, <1>4
  <2>2. bs[i - k + 1].ts <= bs[i - j + 1].ts
    BY <2>1 DEF Ordered
  <2> QED
    BY <2>2
<1>7. n - n \div 2 \in 1..n
  BY <1>2
<1>8. times[n - n \div 2] = bs[i - (n - n \div 2) + 1].ts
  BY <1>7
<1>9. i - (n - n \div 2) + 1 = Mid(i)
  BY <1>1, Numbers DEF Mid
<1> HIDE DEF times
<1>10. Median(times) = times[n - n \div 2]
  BY <1>2, <1>5, <1>6, MedianIs
<1> QED
  BY <1>8, <1>9, <1>10 DEF MedianTimePast, times, n

\* A block put on a chain, behind which nothing changes.
LEMMA Longer ==
  ASSUME NEW bs \in Chains, NEW b \in BlockType
  PROVE  /\ Append(bs, b) \in Chains /\ Len(Append(bs, b)) = Len(bs) + 1
         /\ Append(bs, b)[Len(bs) + 1] = b
         /\ \A i \in 1..Len(bs) : Append(bs, b)[i] = bs[i]
  BY DEF Chains

LEMMA ChainOf ==
  ASSUME NEW bs \in Chains
  PROVE  /\ Len(bs) \in Nat \ {0} /\ Last(bs) = bs[Len(bs)]
         /\ \A i \in 1..Len(bs) :
              bs[i] \in BlockType /\ bs[i].ts \in Nat
                /\ bs[i].difficulty \in MinDifficulty..MaxDifficulty
<1>1. bs \in Seq(BlockType) /\ bs # <<>>
  BY DEF Chains
<1>2. Len(bs) \in Nat \ {0} /\ \A i \in 1..Len(bs) : bs[i] \in BlockType
  BY <1>1
<1> QED
  BY <1>2 DEF BlockType, Last

-----------------------------------------------------------------------------
(* The invariant. *)

JobType == [on : Nat, block : BlockType] \cup {NoJob}

TypeOK ==
  /\ time \in Nat
  /\ offset \in [Node -> Int]
  /\ blocks \in [Node -> Chains]
  /\ base \in [Node -> Nat]
  /\ job \in [Node -> JobType]

\* The first block has genesis' time, and is genesis unless it is an anchor.
Begins ==
  \A n \in Node :
    /\ blocks[n][1].ts = GenesisTs
    /\ base[n] = 0 => blocks[n][1] = Block(GenesisTs, GenesisDifficulty)

Onward == \A n \in Node : Ordered(blocks[n])

InTime ==
  \A n \in Node : \A i \in 2..Len(blocks[n]) : blocks[n][i].ts <= Now(n) + MaxFuture

OneBranch ==
  \A m, n \in Node : \A i \in 2..Len(blocks[m]), j \in 2..Len(blocks[n]) :
    base[m] + i = base[n] + j => blocks[m][i] = blocks[n][j]

Inv == TypeOK /\ Begins /\ Onward /\ InTime /\ OneBranch /\ Replays

\* A block of n that may be replayed.
Fits(bs, whole, i) ==
  \/ TimeFits(bs[i + 1].ts, bs, i)
  \/ ~ whole /\ i < MtpWindow /\ bs[i + 1].ts = bs[i].ts

LEMMA ReplaysFits ==
  Replays <=> \A n \in Node : \A i \in 1..(Len(blocks[n]) - 1) : Fits(blocks[n], ~ (base[n] > 0), i)
  BY DEF Replays, Fits

-----------------------------------------------------------------------------
(* A chain that grows. *)

LEMMA OrderedLonger ==
  ASSUME NEW bs \in Chains, Ordered(bs), NEW b \in BlockType, b.ts >= bs[Len(bs)].ts
  PROVE  Ordered(Append(bs, b))
<1> DEFINE cs == Append(bs, b)
           len == Len(bs)
<1>1. /\ len \in Nat \ {0} /\ Len(cs) = len + 1 /\ cs[len + 1] = b
      /\ \A i \in 1..len : cs[i] = bs[i] /\ bs[i].ts \in Nat
  BY ChainOf, Longer
<1>2. b.ts \in Nat
  BY DEF BlockType
<1>3. \A i \in 1..len : bs[i].ts <= b.ts
  <2> SUFFICES ASSUME NEW i \in 1..len
               PROVE  bs[i].ts <= b.ts
    OBVIOUS
  <2>1. bs[i].ts <= bs[len].ts
    BY <1>1 DEF Ordered
  <2> QED
    BY <1>1, <1>2, <2>1
<1> HIDE DEF cs
<1>4. ASSUME NEW i \in 1..(len + 1), NEW j \in 1..(len + 1), i <= j
      PROVE  cs[i].ts <= cs[j].ts
  <2>1. CASE j <= len
    BY <1>1, <1>4, <2>1 DEF Ordered
  <2>2. CASE j = len + 1 /\ i <= len
    BY <1>1, <1>3, <2>2
  <2>3. CASE j = len + 1 /\ i = len + 1
    BY <1>1, <1>2, <2>3
  <2> QED
    BY <1>1, <1>4, <2>1, <2>2, <2>3
<1>5. Ordered(cs)
  BY <1>1, <1>4 DEF Ordered
<1> QED
  BY <1>5 DEF cs

LEMMA FitsLonger ==
  ASSUME NEW bs \in Chains, Ordered(bs), NEW b \in BlockType, NEW whole \in BOOLEAN,
         TimeFits(b.ts, bs, Len(bs)),
         \A i \in 1..(Len(bs) - 1) : Fits(bs, whole, i)
  PROVE  /\ Ordered(Append(bs, b))
         /\ \A i \in 1..Len(bs) : Fits(Append(bs, b), whole, i)
<1> DEFINE cs == Append(bs, b)
           len == Len(bs)
<1>1. /\ len \in Nat \ {0} /\ Len(cs) = len + 1 /\ cs[len + 1] = b /\ cs \in Chains
      /\ \A i \in 1..len : cs[i] = bs[i]
  BY ChainOf, Longer
<1>2. Ordered(cs)
  BY OrderedLonger DEF TimeFits
<1> HIDE DEF cs
<1>3. ASSUME NEW i \in 1..len
      PROVE  MedianTimePast(cs, i) = MedianTimePast(bs, i) /\ cs[i] = bs[i]
  <2>1. i \in 1..Len(cs) /\ Mid(i) \in 1..len
    BY <1>1, MidIn
  <2> QED
    BY <1>1, <1>2, <2>1, MtpIs
<1>4. ASSUME NEW i \in 1..len
      PROVE  Fits(cs, whole, i)
  <2>1. CASE i = len
    BY <1>1, <1>3, <2>1 DEF Fits, TimeFits
  <2>2. CASE i # len
    <3>1. i \in 1..(len - 1) /\ i + 1 \in 1..len
      BY <1>1, <2>2
    <3> QED
      BY <1>1, <1>3, <3>1 DEF Fits, TimeFits
  <2> QED
    BY <2>1, <2>2
<1> QED
  BY <1>2, <1>4 DEF cs

-----------------------------------------------------------------------------
(* A chain that is cut. *)

Cut(bs, to) == <<Anchor(bs[to].difficulty)>> \o SubSeq(bs, to + 1, Len(bs))

LEMMA AnchorType ==
  ASSUME NEW d \in MinDifficulty..MaxDifficulty
  PROVE  Anchor(d) \in BlockType /\ Anchor(d).ts = 0
  BY DEF Anchor, Block, GenesisTs, BlockType

LEMMA CutIs ==
  ASSUME NEW bs \in Chains, NEW to \in 1..(Len(bs) - 1)
  PROVE  /\ Cut(bs, to) \in Chains /\ Len(Cut(bs, to)) = Len(bs) - to + 1
         /\ Cut(bs, to)[1].ts = 0
         /\ \A j \in 2..(Len(bs) - to + 1) : Cut(bs, to)[j] = bs[to + j - 1]
<1>1. bs \in Seq(BlockType) /\ Len(bs) \in Nat \ {0} /\ bs[to].difficulty \in MinDifficulty..MaxDifficulty
  BY ChainOf DEF Chains
<1> DEFINE a == Anchor(bs[to].difficulty)
           rest == SubSeq(bs, to + 1, Len(bs))
<1>2. a \in BlockType /\ a.ts = 0
  BY <1>1, AnchorType
<1>3. /\ rest \in Seq(BlockType) /\ Len(rest) = Len(bs) - to
      /\ \A j \in 1..(Len(bs) - to) : rest[j] = bs[to + j]
  BY <1>1
<1> HIDE DEF a, rest
<1> DEFINE cs == <<a>> \o rest
<1>4. /\ cs \in Seq(BlockType) /\ Len(cs) = Len(bs) - to + 1 /\ cs[1] = a
      /\ \A j \in 2..(Len(bs) - to + 1) : cs[j] = rest[j - 1]
  <2>1. <<a>> \in Seq(BlockType) /\ Len(<<a>>) = 1 /\ <<a>>[1] = a
    BY <1>2
  <2> DEFINE one == <<a>>
  <2> HIDE DEF one
  <2>2. ASSUME NEW s \in Seq(BlockType), NEW t \in Seq(BlockType)
        PROVE  /\ s \o t \in Seq(BlockType) /\ Len(s \o t) = Len(s) + Len(t)
               /\ \A j \in 1..Len(s) : (s \o t)[j] = s[j]
               /\ \A j \in (Len(s) + 1)..(Len(s) + Len(t)) : (s \o t)[j] = t[j - Len(s)]
    OBVIOUS
  <2>3. cs = one \o rest /\ one \in Seq(BlockType) /\ Len(one) = 1 /\ one[1] = a
    BY <2>1 DEF one
  <2> HIDE DEF cs
  <2> DEFINE len == Len(bs) - to
  <2>5. len \in Nat /\ 1 + len = Len(bs) - to + 1 /\ rest \in Seq(BlockType) /\ Len(rest) = len
    BY <1>1, <1>3
  <2> HIDE DEF len
  <2>6. /\ cs \in Seq(BlockType) /\ Len(cs) = Len(one) + Len(rest)
        /\ \A j \in 1..Len(one) : cs[j] = one[j]
        /\ \A j \in (Len(one) + 1)..(Len(one) + Len(rest)) : cs[j] = rest[j - Len(one)]
    BY <2>2, <2>3, <2>5
  <2>4. /\ cs \in Seq(BlockType) /\ Len(cs) = 1 + len /\ cs[1] = one[1]
        /\ \A j \in 2..(1 + len) : cs[j] = rest[j - 1]
    BY <2>3, <2>5, <2>6
  <2> QED
    BY <2>3, <2>4, <2>5
<1> HIDE DEF cs
<1>5. cs # <<>>
  BY <1>1, <1>4
<1>6. \A j \in 2..(Len(bs) - to + 1) : cs[j] = bs[to + j - 1]
  <2> SUFFICES ASSUME NEW j \in 2..(Len(bs) - to + 1)
               PROVE  cs[j] = bs[to + j - 1]
    OBVIOUS
  <2>1. j - 1 \in 1..(Len(bs) - to) /\ to + (j - 1) = to + j - 1
    BY <1>1
  <2>2. cs[j] = rest[j - 1] /\ rest[j - 1] = bs[to + (j - 1)]
    BY <1>3, <1>4, <2>1
  <2> QED
    BY <2>1, <2>2
<1>7. Cut(bs, to) = cs
  BY DEF Cut, cs, a, rest
<1> QED
  BY <1>2, <1>4, <1>5, <1>6, <1>7 DEF Chains

LEMMA FitsCut ==
  ASSUME NEW bs \in Chains, Ordered(bs), NEW to \in 1..(Len(bs) - 1), NEW whole \in BOOLEAN,
         \A i \in 1..(Len(bs) - 1) : Fits(bs, whole, i)
  PROVE  /\ Ordered(Cut(bs, to))
         /\ \A i \in 1..(Len(bs) - to) : Fits(Cut(bs, to), FALSE, i)
<1> DEFINE cs == Cut(bs, to)
           len == Len(bs) - to + 1
<1>1. /\ cs \in Chains /\ Len(cs) = len /\ cs[1].ts = 0
      /\ \A j \in 2..len : cs[j] = bs[to + j - 1]
  BY CutIs
<1> HIDE DEF cs
<1>2. len \in Nat /\ len >= 2 /\ Len(bs) \in Nat /\ to \in Nat /\ to >= 1 /\ Len(bs) = len + to - 1
  BY ChainOf
<1>3. \A i \in 1..len : cs[i].ts \in Nat
  BY <1>1, ChainOf
<1> HIDE DEF len
<1>4. Ordered(cs)
  <2> SUFFICES ASSUME NEW i \in 1..len, NEW j \in 1..len, i <= j
               PROVE  cs[i].ts <= cs[j].ts
    BY <1>1 DEF Ordered
  <2>1. CASE i = 1
    BY <1>1, <1>3, <2>1
  <2>2. CASE i # 1
    <3>1. i \in 2..len /\ j \in 2..len
      BY <1>2, <2>2
    <3>2. /\ to + i - 1 \in 1..Len(bs) /\ to + j - 1 \in 1..Len(bs)
          /\ to + i - 1 <= to + j - 1
      BY <1>2, <3>1
    <3>3. bs[to + i - 1].ts <= bs[to + j - 1].ts
      BY <3>2 DEF Ordered
    <3> QED
      BY <1>1, <3>1, <3>3
  <2> QED
    BY <2>1, <2>2
<1>5. ASSUME NEW i \in 1..(len - 1)
      PROVE  Fits(cs, FALSE, i)
  <2>1. /\ i \in 1..len /\ i + 1 \in 1..len /\ i + 1 \in 2..len
        /\ to + i - 1 \in 1..(Len(bs) - 1) /\ to + i - 1 \in 1..Len(bs)
        /\ to + (i + 1) - 1 = (to + i - 1) + 1 /\ i \in Nat \ {0}
    BY <1>2
  <2>2. cs[i].ts <= cs[i + 1].ts
    BY <1>1, <1>4, <2>1 DEF Ordered
  <2>3. MedianTimePast(cs, i) = cs[Mid(i)].ts /\ Mid(i) \in 1..i
    <3>1. i \in 1..Len(cs)
      BY <1>1, <2>1
    <3> QED
      BY <1>1, <1>4, <2>1, <3>1, MtpIs, MidIn
  <2>4. CASE i < MtpWindow
    <3>2. Mid(i) \in 1..len /\ Mid(i) <= i
      BY <1>2, <2>1, <2>3
    <3>1. cs[Mid(i)].ts <= cs[i].ts
      BY <1>1, <1>4, <2>1, <3>2 DEF Ordered
    <3>3. cs[i].ts \in Nat /\ cs[i + 1].ts \in Nat /\ cs[Mid(i)].ts \in Nat
      BY <1>3, <2>1, <3>2
    <3>4. \/ cs[i + 1].ts = cs[i].ts
          \/ cs[i + 1].ts > cs[Mid(i)].ts /\ cs[i + 1].ts >= cs[i].ts
      BY <2>2, <3>1, <3>3
    <3>5. \/ cs[i + 1].ts = cs[i].ts
          \/ TimeFits(cs[i + 1].ts, cs, i)
      BY <2>3, <3>4 DEF TimeFits
    <3> QED
      BY <2>4, <3>5 DEF Fits
  <2>5. CASE ~ (i < MtpWindow)
    <3> DEFINE k == to + i - 1
    <3>1. /\ k \in 1..(Len(bs) - 1) /\ k \in 1..Len(bs)
          /\ i + 1 \in 2..len /\ to + (i + 1) - 1 = k + 1
      BY <2>1
    <3>5. k \in Nat /\ k >= i /\ k - i = to - 1
      BY <1>2, <2>1
    <3> HIDE DEF k
    <3>8. MtpWindow <= i
      BY <2>1, <2>5, Numbers
    <3>6. Mid(i) \in 2..len
      <4>1. Mid(i) \in 1..i /\ Mid(i) > 1
        BY <2>1, <3>8, MidIn
      <4> QED
        BY <1>2, <2>1, <4>1
    <3>7. ~ (k < MtpWindow) /\ Mid(k) = to + Mid(i) - 1
      <4>1. MtpWindow <= i /\ MtpWindow <= k
        BY <2>1, <3>5, <3>8, Numbers
      <4>2. /\ Mid(i) = i - MtpWindow + MtpWindow \div 2 + 1
            /\ Mid(k) = k - MtpWindow + MtpWindow \div 2 + 1
        BY <4>1 DEF Mid
      <4> DEFINE half == MtpWindow \div 2
      <4>3. half \in Nat /\ MtpWindow \in Nat /\ i \in Nat /\ k \in Nat /\ to \in Nat
        BY <1>2, <2>1, <3>5, Numbers
      <4> HIDE DEF half
      <4>4. i - MtpWindow + half + 1 + (to - 1) = k - MtpWindow + half + 1
        BY <3>5, <4>3
      <4>5. Mid(k) = Mid(i) + (to - 1) /\ Mid(i) \in Nat
        BY <3>6, <4>2, <4>4 DEF half
      <4> QED
        BY <4>1, <4>3, <4>5
    <3>2. MedianTimePast(bs, k) = bs[Mid(k)].ts
      BY <3>1, MtpIs
    <3>3. cs[Mid(i)] = bs[Mid(k)] /\ cs[i + 1] = bs[k + 1]
      <4>1. cs[Mid(i)] = bs[to + Mid(i) - 1] /\ cs[i + 1] = bs[to + (i + 1) - 1]
        BY <1>1, <3>1, <3>6
      <4> QED
        BY <3>1, <3>7, <4>1
    <3>4. TimeFits(bs[k + 1].ts, bs, k)
      BY <3>1, <3>7 DEF Fits
    <3> QED
      BY <2>2, <2>3, <3>2, <3>3, <3>4 DEF Fits, TimeFits
  <2> QED
    BY <2>4, <2>5
<1>6. Len(bs) - to = len - 1
  BY <1>2
<1> QED
  BY <1>4, <1>5, <1>6 DEF cs

-----------------------------------------------------------------------------
(* Blocks that are built. *)

LEMMA ClampedIn ==
  ASSUME NEW d \in Int
  PROVE  Clamped(d) \in MinDifficulty..MaxDifficulty
<1>1. Min({d, MaxDifficulty}) = IF d <= MaxDifficulty THEN d ELSE MaxDifficulty
  BY MinTwo, Numbers
<1> DEFINE m == Min({d, MaxDifficulty})
<1>2. m \in Int /\ m <= MaxDifficulty
  BY <1>1, Numbers
<1> HIDE DEF m
<1>3. Max({MinDifficulty, m}) = IF MinDifficulty >= m THEN MinDifficulty ELSE m
  BY <1>2, MaxTwo, Numbers
<1> QED
  BY <1>2, <1>3, Numbers DEF Clamped, m

LEMMA NextDifficultyIn ==
  ASSUME NEW bs \in Chains
  PROVE  NextDifficulty(bs) \in MinDifficulty..MaxDifficulty
<1> DEFINE tip == Len(bs)
           easy == bs[tip].difficulty - 1
           eased == IF tip > 1 /\ bs[tip].ts - bs[tip - 1].ts > 4 * TargetBlock
                    THEN Max({MinDifficulty, easy}) ELSE bs[tip].difficulty
           spent == bs[tip].ts - bs[tip - DiffWindow].ts
           expected == TargetBlock * DiffWindow
           by == IF 4 * spent < 3 * expected THEN 1 ELSE IF 4 * spent > 5 * expected THEN -1 ELSE 0
<1>1. tip \in Nat \ {0} /\ bs[tip].difficulty \in Int
  BY ChainOf
<1>2. Max({MinDifficulty, easy}) \in Int
  <2>1. easy \in Int
    BY <1>1
  <2> HIDE DEF easy
  <2> QED
    BY <2>1, MaxTwo, Numbers
<1>3. eased \in Int /\ by \in Int
  BY <1>1, <1>2
<1>4. NextDifficulty(bs) = IF tip <= DiffWindow + 1 THEN Clamped(eased) ELSE Clamped(eased + by)
  BY DEF NextDifficulty
<1> HIDE DEF eased, by, tip
<1>5. eased + by \in Int
  BY <1>3
<1> QED
  BY <1>3, <1>4, <1>5, ClampedIn

\* What the next block would be, its times compared.
LEMMA BuiltIs ==
  ASSUME TypeOK, Onward, NEW n \in Node
  PROVE  LET tip == Len(blocks[n])
         IN /\ Built(n) \in BlockType
            /\ MedianTimePast(blocks[n], tip) \in Nat /\ Now(n) \in Int
            /\ Built(n).ts \in {Now(n), blocks[n][tip].ts, MedianTimePast(blocks[n], tip) + 1}
            /\ Built(n).ts >= blocks[n][tip].ts
            /\ Built(n).ts > MedianTimePast(blocks[n], tip)
<1> DEFINE bs == blocks[n]
           tip == Len(bs)
           mtp == MedianTimePast(bs, tip)
           ts == Max({Now(n), bs[tip].ts, mtp + 1})
<1>1. bs \in Chains /\ Ordered(bs) /\ Now(n) \in Int
  BY DEF TypeOK, Onward, Now
<1>2. tip \in Nat \ {0} /\ tip \in 1..Len(bs) /\ bs[tip].ts \in Nat
  BY <1>1, ChainOf
<1>3. mtp \in Nat
  <2>1. Mid(tip) \in 1..tip /\ mtp = bs[Mid(tip)].ts
    BY <1>1, <1>2, MidIn, MtpIs
  <2> QED
    BY <1>1, <2>1, ChainOf
<1>4. Built(n) = Block(ts, NextDifficulty(bs))
  BY DEF Built
<1> HIDE DEF mtp
<1>5. /\ ts \in {Now(n), bs[tip].ts, mtp + 1}
      /\ ts >= Now(n) /\ ts >= bs[tip].ts /\ ts >= mtp + 1
  <2> DEFINE x == Now(n)
             y == bs[tip].ts
             z == mtp + 1
  <2>1. x \in Int /\ y \in Int /\ z \in Int /\ ts = Max({x, y, z})
    BY <1>1, <1>2, <1>3
  <2> HIDE DEF x, y, z, ts
  <2>2. ts \in {x, y, z} /\ ts >= x /\ ts >= y /\ ts >= z
    BY <2>1, MaxThree
  <2> QED
    BY <2>2 DEF x, y, z
<1> HIDE DEF ts
<1>6. ts \in Nat
  BY <1>1, <1>2, <1>3, <1>5
<1>7. NextDifficulty(bs) \in MinDifficulty..MaxDifficulty
  BY <1>1, NextDifficultyIn
<1>8. Built(n) \in BlockType /\ Built(n).ts = ts
  BY <1>4, <1>6, <1>7 DEF Block, BlockType
<1> QED
  BY <1>1, <1>2, <1>3, <1>5, <1>6, <1>8 DEF mtp

-----------------------------------------------------------------------------
(* The actions. *)

LEMMA InitInv == Init => Inv
<1> SUFFICES ASSUME Init
             PROVE  Inv
  OBVIOUS
<1> DEFINE g == Block(GenesisTs, GenesisDifficulty)
<1>1. g \in BlockType /\ g.ts = 0
  BY Numbers DEF Block, GenesisTs, BlockType
<1> HIDE DEF g
<1>2. <<g>> \in Chains /\ Len(<<g>>) = 1 /\ <<g>>[1] = g
  BY <1>1 DEF Chains
<1>3. \A n \in Node : blocks[n] = <<g>> /\ base[n] = 0
  BY DEF Init, g
<1>4. TypeOK
  <2>1. /\ time \in Nat /\ offset \in [Node -> Int]
        /\ base \in [Node -> Nat] /\ job \in [Node -> JobType]
    BY HeadersAssumption DEF Init, Node, JobType
  <2>2. blocks \in [Node -> Chains]
    BY <1>2 DEF Init, g
  <2> QED
    BY <2>1, <2>2 DEF TypeOK
<1>5. Begins
  BY <1>1, <1>2, <1>3 DEF Begins, g, GenesisTs
<1>6. Onward
  BY <1>1, <1>2, <1>3 DEF Onward, Ordered
<1>7. InTime /\ OneBranch /\ Replays
  BY <1>2, <1>3 DEF InTime, OneBranch, Replays
<1> QED
  BY <1>4, <1>5, <1>6, <1>7 DEF Inv

\* A node takes a block that it accepts, and that the others have there if they have one.
LEMMA TakeInv ==
  ASSUME Inv, NEW n \in Node, NEW b \in BlockType, Accepts(n, b),
         blocks' = [blocks EXCEPT ![n] = Append(@, b)],
         UNCHANGED <<time, offset, base>>, job' \in [Node -> JobType],
         \A m \in Node : m # n => \A j \in 2..Len(blocks[m]) :
           base[m] + j = base[n] + (Len(blocks[n]) + 1) => blocks[m][j] = b
  PROVE  Inv'
<1> DEFINE bs == blocks[n]
           len == Len(bs)
           cs == Append(bs, b)
<1>1. TypeOK /\ bs \in Chains /\ Ordered(bs) /\ Replays
  BY DEF Inv, TypeOK, Onward
<1>2. /\ cs \in Chains /\ Len(cs) = len + 1 /\ cs[len + 1] = b /\ len \in Nat \ {0}
      /\ \A i \in 1..len : cs[i] = bs[i]
  BY <1>1, Longer, ChainOf
<1>3. /\ blocks' \in [Node -> Chains] /\ blocks'[n] = cs
      /\ \A m \in Node : m # n => blocks'[m] = blocks[m]
      /\ base' = base
  BY <1>1, <1>2 DEF TypeOK
<1>4. TypeOK'
  BY <1>1, <1>3 DEF TypeOK
<1>5. /\ Ordered(cs)
      /\ \A i \in 1..len : Fits(cs, ~ (base[n] > 0), i)
  <2>1. TimeFits(b.ts, bs, len)
    BY DEF Accepts
  <2>2. \A i \in 1..(len - 1) : Fits(bs, ~ (base[n] > 0), i)
    BY <1>1, ReplaysFits
  <2>3. (~ (base[n] > 0)) \in BOOLEAN
    OBVIOUS
  <2> DEFINE whole == ~ (base[n] > 0)
  <2> HIDE DEF whole
  <2>4. Ordered(cs) /\ \A i \in 1..len : Fits(cs, whole, i)
    BY <1>1, <2>1, <2>2, <2>3, FitsLonger DEF whole
  <2> QED
    BY <2>4 DEF whole
<1>6. \A i \in 1..len : cs[i] = bs[i]
  BY <1>2
<1> HIDE DEF cs
<1>7. Onward'
  BY <1>3, <1>5 DEF Inv, Onward
<1>8. Begins'
  BY <1>2, <1>3 DEF Inv, Begins
<1>9. Replays'
  <2>1. \A m \in Node : \A i \in 1..(Len(blocks'[m]) - 1) : Fits(blocks'[m], ~ (base'[m] > 0), i)
    <3> SUFFICES ASSUME NEW m \in Node, NEW i \in 1..(Len(blocks'[m]) - 1)
                 PROVE  Fits(blocks'[m], ~ (base'[m] > 0), i)
      OBVIOUS
    <3>1. CASE m = n
      <4>1. blocks'[m] = cs /\ base'[m] = base[n] /\ i \in 1..len
        BY <1>2, <1>3, <3>1
      <4> QED
        BY <1>5, <4>1
    <3>2. CASE m # n
      <4>1. blocks'[m] = blocks[m]
        BY <1>3, <3>2
      <4> QED
        BY <1>1, <1>3, <4>1, ReplaysFits
    <3> QED
      BY <3>1, <3>2
  <2> QED
    BY <2>1 DEF Replays, Fits, TimeFits, MedianTimePast, Median, Earlier, UpTo
<1>10. InTime'
  <2> SUFFICES ASSUME NEW m \in Node, NEW i \in 2..Len(blocks'[m])
               PROVE  blocks'[m][i].ts <= Now(m) + MaxFuture
    BY DEF InTime, Now
  <2>1. CASE m # n \/ i <= len
    <3>1. i \in 2..Len(blocks[m]) /\ blocks'[m][i] = blocks[m][i]
      BY <1>2, <1>3, <2>1
    <3> QED
      BY <3>1 DEF Inv, InTime
  <2>2. CASE m = n /\ i > len
    <3>1. i = len + 1
      BY <1>2, <1>3, <2>2
    <3> QED
      BY <1>2, <1>3, <2>2, <3>1 DEF Accepts
  <2> QED
    BY <1>2, <2>1, <2>2
<1>11. OneBranch'
  <2>1. \A m \in Node : Len(blocks[m]) \in Nat /\ base[m] \in Nat
    BY <1>1, ChainOf DEF TypeOK
  <2>2. ASSUME NEW m \in Node, NEW o \in Node,
               NEW i \in 2..Len(blocks'[m]), NEW j \in 2..Len(blocks'[o]),
               base[m] + i = base[o] + j
        PROVE  blocks'[m][i] = blocks'[o][j]
    <3>1. /\ (m = n => i <= len) => i \in 2..Len(blocks[m]) /\ blocks'[m][i] = blocks[m][i]
          /\ (m = n /\ ~ (i <= len)) => i = len + 1 /\ blocks'[m][i] = b
      BY <1>2, <1>3
    <3>2. /\ (o = n => j <= len) => j \in 2..Len(blocks[o]) /\ blocks'[o][j] = blocks[o][j]
          /\ (o = n /\ ~ (j <= len)) => j = len + 1 /\ blocks'[o][j] = b
      BY <1>2, <1>3
    <3>3. CASE (m = n => i <= len) /\ (o = n => j <= len)
      BY <2>2, <3>1, <3>2, <3>3 DEF Inv, OneBranch
    <3>4. CASE m = n /\ ~ (i <= len) /\ o # n
      <4>1. i = len + 1 /\ blocks'[m][i] = b /\ j \in 2..Len(blocks[o]) /\ blocks'[o][j] = blocks[o][j]
        BY <3>1, <3>2, <3>4
      <4>2. base[o] + j = base[n] + (Len(blocks[n]) + 1)
        <5>1. base[n] + i = base[o] + j /\ i = Len(blocks[n]) + 1
          BY <2>2, <3>4, <4>1
        <5> QED
          BY <2>1, <5>1
      <4>3. blocks[o][j] = b
        BY <3>4, <4>1, <4>2
      <4> QED
        BY <4>1, <4>3
    <3>5. CASE o = n /\ ~ (j <= len) /\ m # n
      <4>1. j = len + 1 /\ blocks'[o][j] = b /\ i \in 2..Len(blocks[m]) /\ blocks'[m][i] = blocks[m][i]
        BY <3>1, <3>2, <3>5
      <4>2. base[m] + i = base[n] + (Len(blocks[n]) + 1)
        <5>1. base[m] + i = base[n] + j /\ j = Len(blocks[n]) + 1
          BY <2>2, <3>5, <4>1
        <5> QED
          BY <2>1, <5>1
      <4>3. blocks[m][i] = b
        BY <3>5, <4>1, <4>2
      <4> QED
        BY <4>1, <4>3
    <3>6. CASE m = n /\ o = n /\ (~ (i <= len) \/ ~ (j <= len))
      <4>1. i = j
        BY <2>1, <2>2, <3>6
      <4> QED
        BY <3>6, <4>1
    <3> QED
      BY <3>3, <3>4, <3>5, <3>6
  <2> QED
    BY <1>3, <2>2 DEF OneBranch
<1> QED
  BY <1>4, <1>7, <1>8, <1>9, <1>10, <1>11 DEF Inv

LEMMA FindInv ==
  ASSUME Inv, NEW n \in Node, Find(n)
  PROVE  Inv'
<1>1. TypeOK /\ Height(n) \in Nat
  <2>1. blocks[n] \in Chains /\ base[n] \in Nat
    BY DEF Inv, TypeOK
  <2> QED
    BY <2>1, ChainOf DEF Inv, Height
<1>2. job[n].block \in BlockType
  <2>1. job[n] \in JobType /\ job[n] # NoJob
    BY <1>1 DEF TypeOK, Find, NoJob
  <2> QED
    BY <2>1 DEF JobType
<1>3. job' \in [Node -> JobType]
  BY <1>1 DEF Find, TypeOK, JobType
<1>4. ASSUME NEW m \in Node, m # n, NEW j \in 2..Len(blocks[m]),
             base[m] + j = base[n] + (Len(blocks[n]) + 1)
      PROVE  FALSE
  <2>1. Other(n) = m
    BY <1>4 DEF Other, Node
  <2>2. Height(n) >= Height(m)
    BY <2>1 DEF Find
  <2>3. base[m] \in Nat /\ base[n] \in Nat /\ Len(blocks[m]) \in Nat /\ Len(blocks[n]) \in Nat
    BY <1>1, ChainOf DEF TypeOK
  <2> DEFINE x == base[n]
             y == Len(blocks[n])
             z == base[m]
             w == Len(blocks[m])
  <2>4. /\ x \in Int /\ y \in Int /\ z \in Int /\ w \in Int
        /\ x + y - 1 >= z + w - 1 /\ j \in Int /\ j <= w /\ z + j = x + (y + 1)
    BY <1>4, <2>2, <2>3 DEF Height
  <2> HIDE DEF x, y, z, w
  <2> QED
    BY <2>4
<1> DEFINE b == job[n].block
<1>5. Accepts(n, b) /\ blocks' = [blocks EXCEPT ![n] = Append(@, b)] /\ UNCHANGED <<time, offset, base>>
  BY DEF Find
<1> HIDE DEF b
<1>6. b \in BlockType
  BY <1>2 DEF b
<1> QED
  BY <1>3, <1>4, <1>5, <1>6, TakeInv

LEMMA DeliverInv ==
  ASSUME Inv, NEW n \in Node, Deliver(n)
  PROVE  Inv'
<1>1. PICK m \in Node : m = Other(n) /\ m # n /\ \A o \in Node : o # n => o = m
  <2>1. CASE n = "whole"
    <3>1. "late" \in Node /\ "late" # n /\ \A o \in Node : o # n => o = "late"
      BY <2>1 DEF Node
    <3> QED
      BY <3>1 DEF Other
  <2>2. CASE n = "late"
    <3>1. "whole" \in Node /\ "whole" # n /\ \A o \in Node : o # n => o = "whole"
      BY <2>2 DEF Node
    <3> QED
      BY <3>1 DEF Other
  <2> QED
    BY <2>1, <2>2 DEF Node
<1>2. /\ TypeOK /\ blocks[n] \in Chains /\ blocks[m] \in Chains
      /\ base[m] \in Nat /\ base[n] \in Nat /\ Len(blocks[m]) \in Nat /\ Len(blocks[n]) \in Nat
  BY ChainOf DEF Inv, TypeOK
<1> DEFINE at == Height(n) - base[m] + 2
           b == NextOf(n)
<1>3. /\ at \in 2..Len(blocks[m]) /\ b = blocks[m][at]
      /\ base[m] + at = base[n] + (Len(blocks[n]) + 1)
  <2>1. Height(n) < Height(m) /\ Height(n) >= base[m] /\ b = blocks[m][at]
    BY <1>1 DEF Deliver, Behind, NextOf
  <2>2. /\ Height(n) = base[n] + Len(blocks[n]) - 1 /\ Height(m) = base[m] + Len(blocks[m]) - 1
        /\ Height(n) \in Int
    BY <1>2 DEF Height
  <2>3. at \in Int /\ at = Height(n) - base[m] + 2
    BY <1>2, <2>2
  <2> HIDE DEF at
  <2>4. at >= 2 /\ at <= Len(blocks[m])
    <3> DEFINE z == base[m]
               w == Len(blocks[m])
               h == Height(n)
    <3>1. /\ z \in Int /\ w \in Int /\ h \in Int
          /\ h < z + w - 1 /\ h >= z /\ at = h - z + 2
      BY <1>2, <2>1, <2>2, <2>3
    <3> HIDE DEF z, w, h
    <3>2. at >= 2 /\ at <= w
      BY <3>1
    <3> QED
      BY <3>2 DEF w
  <2>5. base[m] + at = base[n] + (Len(blocks[n]) + 1)
    <3> DEFINE x == base[n]
               y == Len(blocks[n])
               z == base[m]
               h == Height(n)
    <3>1. /\ x \in Int /\ y \in Int /\ z \in Int /\ h \in Int
          /\ h = x + y - 1 /\ at = h - z + 2
      BY <1>2, <2>2, <2>3
    <3> HIDE DEF x, y, z, h
    <3>2. z + at = x + (y + 1)
      BY <3>1
    <3> QED
      BY <3>2 DEF x, y, z
  <2> QED
    BY <1>2, <2>1, <2>3, <2>4, <2>5
<1>4. Accepts(n, b) /\ blocks' = [blocks EXCEPT ![n] = Append(@, b)] /\ UNCHANGED <<time, offset, base, job>>
  BY DEF Deliver
<1> HIDE DEF at, b
<1>5. b \in BlockType
  BY <1>2, <1>3, ChainOf
<1>6. \A o \in Node : o # n => \A j \in 2..Len(blocks[o]) :
        base[o] + j = base[n] + (Len(blocks[n]) + 1) => blocks[o][j] = b
  BY <1>1, <1>2, <1>3
<1>7. job' \in [Node -> JobType]
  BY <1>2, <1>4 DEF TypeOK
<1> QED
  BY <1>4, <1>5, <1>6, <1>7, TakeInv

LEMMA LaterSum ==
  \A a, b, o, m \in Int : b >= a => a + o + m <= b + o + m
  OBVIOUS

LEMMA SameInv ==
  ASSUME Inv, UNCHANGED <<offset, blocks, base>>,
         time' \in Nat, time' >= time, job' \in [Node -> JobType]
  PROVE  Inv'
<1>1. TypeOK'
  BY DEF Inv, TypeOK
<1>2. InTime'
  <2> SUFFICES ASSUME NEW n \in Node, NEW i \in 2..Len(blocks[n])
               PROVE  blocks[n][i].ts <= time' + offset[n] + MaxFuture
    BY DEF InTime, Now
  <2>1. blocks[n][i].ts <= time + offset[n] + MaxFuture
    BY DEF Inv, InTime, Now
  <2>2. time \in Nat /\ offset[n] \in Int /\ blocks[n] \in Chains
    BY DEF Inv, TypeOK
  <2>3. blocks[n][i].ts \in Nat
    BY <2>2, ChainOf
  <2>4. time + offset[n] + MaxFuture <= time' + offset[n] + MaxFuture
    BY <2>2, Numbers, LaterSum
  <2>5. /\ blocks[n][i].ts \in Int /\ time + offset[n] + MaxFuture \in Int
        /\ time' + offset[n] + MaxFuture \in Int
    BY <2>2, <2>3, Numbers
  <2> QED
    BY <2>1, <2>4, <2>5
<1>3. Begins' /\ Onward' /\ OneBranch'
  BY DEF Inv, Begins, Onward, Ordered, OneBranch
<1>4. Replays'
  <2>1. \A m \in Node : \A i \in 1..(Len(blocks'[m]) - 1) : Fits(blocks'[m], ~ (base'[m] > 0), i)
    BY ReplaysFits DEF Inv
  <2> QED
    BY <2>1 DEF Replays, Fits, TimeFits, MedianTimePast, Median, Earlier, UpTo
<1> QED
  BY <1>1, <1>2, <1>3, <1>4 DEF Inv

LEMMA TickInv ==
  ASSUME Inv, NEW d \in Steps, Tick(d)
  PROVE  Inv'
<1>1. d \in Nat /\ time \in Nat /\ job \in [Node -> JobType]
  BY HeadersAssumption DEF Inv, TypeOK
<1> QED
  BY <1>1, SameInv DEF Tick

LEMMA JobInv ==
  ASSUME Inv, NEW n \in Node, Build(n) \/ GiveUp(n)
  PROVE  Inv'
<1>1. TypeOK /\ Onward
  BY DEF Inv
<1>2. Built(n) \in BlockType /\ Height(n) \in Nat
  <2>1. blocks[n] \in Chains /\ base[n] \in Nat
    BY <1>1 DEF TypeOK
  <2>2. Height(n) \in Nat
    BY <2>1, ChainOf DEF Height
  <2> QED
    BY <1>1, <2>2, BuiltIs
<1>3. CASE Build(n)
  <2>1. [on |-> Height(n), block |-> Built(n)] \in JobType
    BY <1>2 DEF JobType
  <2> DEFINE new == [on |-> Height(n), block |-> Built(n)]
  <2>2. job' = [job EXCEPT ![n] = new] /\ UNCHANGED <<time, offset, blocks, base>>
    BY <1>3 DEF Build
  <2> HIDE DEF new
  <2>3. job' \in [Node -> JobType] /\ time \in Nat
    BY <1>1, <2>1, <2>2 DEF TypeOK, new
  <2> QED
    BY <2>2, <2>3, SameInv
<1>4. CASE GiveUp(n)
  <2>1. job' \in [Node -> JobType] /\ time \in Nat
    BY <1>1, <1>4 DEF TypeOK, GiveUp, JobType
  <2> QED
    BY <1>4, <2>1, SameInv DEF GiveUp
<1> QED
  BY <1>3, <1>4

\* A node goes on with the later part of its chain, behind an anchor.
LEMMA BehindAnchor ==
  ASSUME Inv, NEW n \in Node, NEW cs \in Chains, NEW h \in Nat \ {0},
         blocks' = [blocks EXCEPT ![n] = cs], base' = [base EXCEPT ![n] = h],
         UNCHANGED <<time, offset>>, job' \in [Node -> JobType],
         cs[1].ts = 0, Ordered(cs),
         \A i \in 1..(Len(cs) - 1) : Fits(cs, FALSE, i),
         \A i \in 2..Len(cs) : \E k \in 2..Len(blocks[n]) :
           base[n] + k = h + i /\ cs[i] = blocks[n][k]
  PROVE  Inv'
<1>1. TypeOK
  BY DEF Inv
<1>2. /\ blocks' \in [Node -> Chains] /\ blocks'[n] = cs
      /\ \A m \in Node : m # n => blocks'[m] = blocks[m] /\ base'[m] = base[m]
      /\ base' \in [Node -> Nat] /\ base'[n] = h
  BY <1>1 DEF TypeOK
<1>3. TypeOK'
  BY <1>1, <1>2 DEF TypeOK
<1>4. Begins' /\ Onward'
  <2>1. Begins'
    BY <1>2 DEF Inv, Begins, GenesisTs
  <2>2. Onward'
    BY <1>2 DEF Inv, Onward
  <2> QED
    BY <2>1, <2>2
<1>5. Replays'
  <2>1. \A m \in Node : \A i \in 1..(Len(blocks'[m]) - 1) : Fits(blocks'[m], ~ (base'[m] > 0), i)
    <3> SUFFICES ASSUME NEW m \in Node, NEW i \in 1..(Len(blocks'[m]) - 1)
                 PROVE  Fits(blocks'[m], ~ (base'[m] > 0), i)
      OBVIOUS
    <3>1. CASE m = n
      <4>1. blocks'[m] = cs /\ base'[m] > 0
        BY <1>2, <3>1
      <4>2. (~ (base'[m] > 0)) = FALSE
        BY <4>1
      <4>3. Fits(cs, FALSE, i)
        BY <4>1
      <4> QED
        BY <4>1, <4>2, <4>3
    <3>2. CASE m # n
      <4>1. blocks'[m] = blocks[m] /\ base'[m] = base[m]
        BY <1>2, <3>2
      <4> QED
        BY <4>1, ReplaysFits DEF Inv
    <3> QED
      BY <3>1, <3>2
  <2> QED
    BY <2>1 DEF Replays, Fits, TimeFits, MedianTimePast, Median, Earlier, UpTo
\* Each block behind the anchor of a chain was one of the chain before.
<1>6. ASSUME NEW m \in Node, NEW i \in 2..Len(blocks'[m])
      PROVE  \E k \in 2..Len(blocks[m]) :
               base[m] + k = base'[m] + i /\ blocks'[m][i] = blocks[m][k]
  <2>1. CASE m = n
    BY <1>2, <2>1
  <2>2. CASE m # n
    BY <1>2, <2>2
  <2> QED
    BY <2>1, <2>2
<1>7. InTime'
  <2> SUFFICES ASSUME NEW m \in Node, NEW i \in 2..Len(blocks'[m])
               PROVE  blocks'[m][i].ts <= Now(m) + MaxFuture
    BY DEF InTime, Now
  <2>1. PICK k \in 2..Len(blocks[m]) : blocks'[m][i] = blocks[m][k]
    BY <1>6
  <2> QED
    BY <2>1 DEF Inv, InTime
<1>8. OneBranch'
  <2> SUFFICES ASSUME NEW m \in Node, NEW o \in Node,
                      NEW i \in 2..Len(blocks'[m]), NEW j \in 2..Len(blocks'[o]),
                      base'[m] + i = base'[o] + j
               PROVE  blocks'[m][i] = blocks'[o][j]
    BY DEF OneBranch
  <2>1. PICK k \in 2..Len(blocks[m]) :
          base[m] + k = base'[m] + i /\ blocks'[m][i] = blocks[m][k]
    BY <1>6
  <2>2. PICK l \in 2..Len(blocks[o]) :
          base[o] + l = base'[o] + j /\ blocks'[o][j] = blocks[o][l]
    BY <1>6
  <2>3. base[m] + k = base[o] + l
    BY <2>1, <2>2
  <2>4. blocks[m][k] = blocks[o][l]
    BY <2>3 DEF Inv, OneBranch
  <2> QED
    BY <2>1, <2>2, <2>4
<1> QED
  BY <1>3, <1>4, <1>5, <1>7, <1>8 DEF Inv

LEMMA PruneInv ==
  ASSUME Inv, NEW n \in Node, Prune(n)
  PROVE  Inv'
<1> DEFINE bs == blocks[n]
           to == Len(bs) - Retention
           cs == Cut(bs, to)
           h == base[n] + to - 1
<1>1. /\ TypeOK /\ bs \in Chains /\ Len(bs) \in Nat \ {0} /\ base[n] \in Nat
      /\ blocks \in [Node -> Chains] /\ base \in [Node -> Nat]
  BY ChainOf DEF Inv, TypeOK
<1>2. to > 1 /\ blocks' = [blocks EXCEPT ![n] = cs] /\ base' = [base EXCEPT ![n] = h]
      /\ UNCHANGED <<time, offset, job>>
  BY <1>1 DEF Prune, Cut
<1>3. to \in 1..(Len(bs) - 1) /\ to \in Nat
  <2>1. Retention > 0 /\ Retention \in Int
    BY HeadersAssumption
  <2> QED
    BY <1>1, <1>2, <2>1
<1> HIDE DEF to
<1>4. h \in Nat \ {0}
  BY <1>1, <1>2, <1>3
<1>5. /\ cs \in Chains /\ Len(cs) = Len(bs) - to + 1 /\ cs[1].ts = 0
      /\ \A j \in 2..(Len(bs) - to + 1) : cs[j] = bs[to + j - 1]
  BY <1>1, <1>3, CutIs
<1>6. Ordered(cs) /\ \A i \in 1..(Len(cs) - 1) : Fits(cs, FALSE, i)
  <2>1. Ordered(bs) /\ \A i \in 1..(Len(bs) - 1) : Fits(bs, ~ (base[n] > 0), i)
    BY ReplaysFits DEF Inv, Onward
  <2> DEFINE whole == ~ (base[n] > 0)
  <2>2. whole \in BOOLEAN
    OBVIOUS
  <2> HIDE DEF whole
  <2>3. Ordered(cs) /\ \A i \in 1..(Len(bs) - to) : Fits(cs, FALSE, i)
    BY <1>1, <1>3, <2>1, <2>2, FitsCut DEF whole
  <2>4. Len(cs) - 1 = Len(bs) - to
    BY <1>1, <1>3, <1>5
  <2> QED
    BY <2>3, <2>4
<1>7. ASSUME NEW i \in 2..Len(cs)
      PROVE  \E k \in 2..Len(bs) : base[n] + k = h + i /\ cs[i] = bs[k]
  <2> DEFINE k == to + i - 1
  <2>1. k \in 2..Len(bs) /\ base[n] + k = h + i
    BY <1>1, <1>3, <1>5
  <2>2. cs[i] = bs[k]
    BY <1>5
  <2> QED
    BY <2>1, <2>2
<1>8. job' \in [Node -> JobType]
  BY <1>1, <1>2 DEF TypeOK
<1> HIDE DEF cs, h
<1> QED
  BY <1>2, <1>4, <1>5, <1>6, <1>7, <1>8, BehindAnchor

LEMMA ImportInv ==
  ASSUME Inv, Import
  PROVE  Inv'
<1> DEFINE a == Anchor(GenesisDifficulty)
           cs == <<a>>
           h == Height("whole")
<1>1. a \in BlockType /\ a.ts = 0
  BY AnchorType, Numbers
<1> HIDE DEF a
<1>2. cs \in Chains /\ Len(cs) = 1 /\ cs[1].ts = 0
  BY <1>1 DEF Chains
<1>3. "late" \in Node /\ "whole" \in Node
  BY DEF Node
<1>4. TypeOK /\ h \in Nat
  <2>1. blocks["whole"] \in Chains /\ base["whole"] \in Nat
    BY <1>3 DEF Inv, TypeOK
  <2> QED
    BY <2>1, ChainOf DEF Inv, Height
<1>5. Ordered(cs)
  BY <1>1, <1>2 DEF Ordered
<1>6. /\ blocks' = [blocks EXCEPT !["late"] = cs] /\ base' = [base EXCEPT !["late"] = h]
      /\ UNCHANGED <<time, offset>> /\ h > 0
  BY DEF Import, a
<1>7. job' \in [Node -> JobType]
  BY <1>4 DEF Import, TypeOK, JobType
<1> HIDE DEF cs, h
<1>8. h \in Nat \ {0}
  BY <1>4, <1>6
<1>9. /\ \A i \in 1..(Len(cs) - 1) : Fits(cs, FALSE, i)
      /\ \A i \in 2..Len(cs) : \E k \in 2..Len(blocks["late"]) :
           base["late"] + k = h + i /\ cs[i] = blocks["late"][k]
  BY <1>2
<1> QED
  BY <1>2, <1>3, <1>5, <1>6, <1>7, <1>8, <1>9, BehindAnchor

LEMMA StepInv == Inv /\ [Next]_vars => Inv'
<1> SUFFICES ASSUME Inv, [Next]_vars
             PROVE  Inv'
  OBVIOUS
<1>1. ASSUME NEW d \in Steps, Tick(d)
      PROVE  Inv'
  BY <1>1, TickInv
<1>2. ASSUME NEW n \in Node, Build(n) \/ Find(n) \/ GiveUp(n) \/ Deliver(n) \/ Prune(n)
      PROVE  Inv'
  BY <1>2, JobInv, FindInv, DeliverInv, PruneInv
<1>3. CASE Import
  BY <1>3, ImportInv
<1>4. CASE UNCHANGED vars
  <2>1. time \in Nat /\ job \in [Node -> JobType]
    BY DEF Inv, TypeOK
  <2> QED
    BY <1>4, <2>1, SameInv DEF vars
<1> QED
  BY <1>1, <1>2, <1>3, <1>4 DEF Next

-----------------------------------------------------------------------------
(* The theorems. *)

(***************************************************************************)
(* Types, and of every chain: it begins with genesis' time, its times do   *)
(* not go back, none is too far ahead of its node's clock, it can be       *)
(* replayed, and it is the same as the other's where both have blocks.     *)
(***************************************************************************)
THEOREM Invariant == Spec => []Inv
<1>1. Init => Inv
  BY InitInv
<1>2. Inv /\ [Next]_vars => Inv'
  BY StepInv
<1> QED
  BY <1>1, <1>2, PTL DEF Spec

LEMMA InvOwn == Inv => OwnStands
<1> SUFFICES ASSUME Inv, NEW n \in Node
             PROVE  \/ Accepts(n, Built(n))
                    \/ MedianTimePast(blocks[n], Len(blocks[n])) >= Now(n) + MaxFuture
  BY DEF OwnStands
<1> DEFINE bs == blocks[n]
           tip == Len(bs)
           mtp == MedianTimePast(bs, tip)
           ts == Built(n).ts
           now == Now(n)
<1>1. TypeOK /\ Onward /\ bs \in Chains /\ Ordered(bs)
  BY DEF Inv, TypeOK, Onward
<1>2. /\ mtp \in Nat /\ now \in Int /\ ts \in {now, bs[tip].ts, mtp + 1}
      /\ ts >= bs[tip].ts /\ ts > mtp
  BY <1>1, BuiltIs
<1>3. tip \in Nat \ {0} /\ bs[tip].ts \in Nat /\ MaxFuture \in Nat
  BY <1>1, ChainOf, Numbers
<1>4. tip > 1 => bs[tip].ts <= now + MaxFuture
  BY <1>3 DEF Inv, InTime
<1>5. tip = 1 => mtp = bs[tip].ts
  <2> SUFFICES ASSUME tip = 1
               PROVE  mtp = bs[tip].ts
    OBVIOUS
  <2>1. Mid(1) \in 1..1
    BY MidIn
  <2>2. mtp = bs[Mid(1)].ts
    BY <1>1, MtpIs
  <2> QED
    BY <2>1, <2>2
<1>6. Accepts(n, Built(n)) <=> ts <= now + MaxFuture /\ ts > mtp /\ ts >= bs[tip].ts
  BY DEF Accepts, TimeFits
<1> DEFINE last == bs[tip].ts
<1>7. /\ last \in Nat /\ ts \in {now, last, mtp + 1} /\ ts >= last
      /\ tip > 1 => last <= now + MaxFuture
      /\ tip = 1 => mtp = last
  BY <1>2, <1>3, <1>4, <1>5
<1> HIDE DEF tip, mtp, ts, now, last
<1>8. ts <= now + MaxFuture \/ mtp >= now + MaxFuture
  BY <1>2, <1>3, <1>7
<1> QED
  BY <1>2, <1>6, <1>8 DEF tip, mtp, ts, now, last

\* The middle of a window that is full, or of chains that are whole, is the same block.
LEMMA SameMiddle ==
  ASSUME Inv, Height("whole") = Height("late"), \A n \in Node : Reaches(n, MtpWindow)
  PROVE  /\ MedianTimePast(blocks["whole"], Len(blocks["whole"]))
              = MedianTimePast(blocks["late"], Len(blocks["late"]))
         /\ blocks["whole"][Len(blocks["whole"])] = blocks["late"][Len(blocks["late"])]
<1> DEFINE ws == blocks["whole"]
           ls == blocks["late"]
           x == base["whole"]
           y == base["late"]
           p == Len(ws)
           q == Len(ls)
<1>1. "whole" \in Node /\ "late" \in Node
  BY DEF Node
<1>2. /\ ws \in Chains /\ ls \in Chains /\ Ordered(ws) /\ Ordered(ls)
      /\ x \in Nat /\ y \in Nat /\ p \in Nat \ {0} /\ q \in Nat \ {0}
  BY <1>1, ChainOf DEF Inv, TypeOK, Onward
<1>3. /\ x + p - 1 = y + q - 1
      /\ x = 0 \/ p >= MtpWindow
      /\ y = 0 \/ q >= MtpWindow
  BY <1>1 DEF Height, Reaches
<1>4. \A i \in 2..p, j \in 2..q : x + i = y + j => ws[i] = ls[j]
  BY <1>1 DEF Inv, OneBranch
<1>5. x = 0 /\ y = 0 => ws[1] = ls[1]
  BY <1>1 DEF Inv, Begins
<1>6. MedianTimePast(ws, p) = ws[Mid(p)].ts /\ MedianTimePast(ls, q) = ls[Mid(q)].ts
  BY <1>2, MtpIs
<1> HIDE DEF ws, ls, x, y, p, q
<1>7. x + p = y + q
  BY <1>2, <1>3
<1>8. CASE p >= MtpWindow /\ q >= MtpWindow
  <2>1. Mid(p) \in 2..p /\ Mid(q) \in 2..q
    BY <1>2, <1>8, MidIn, Numbers
  <2>2. p \in 2..p /\ q \in 2..q
    BY <1>2, <2>1
  <2>3. x + Mid(p) = y + Mid(q)
    <3> DEFINE half == MtpWindow \div 2
    <3>1. /\ Mid(p) = p - MtpWindow + half + 1 /\ Mid(q) = q - MtpWindow + half + 1
          /\ half \in Int /\ MtpWindow \in Int
      BY <1>2, <1>8, Numbers DEF Mid
    <3> HIDE DEF half
    <3> QED
      BY <1>2, <1>7, <3>1
  <2>4. ws[Mid(p)] = ls[Mid(q)] /\ ws[p] = ls[q]
    BY <1>4, <1>7, <2>1, <2>2, <2>3
  <2> QED
    BY <1>6, <2>4 DEF ws, ls, p, q
<1>9. CASE ~ (p >= MtpWindow /\ q >= MtpWindow)
  <2>1. x = 0 /\ y = 0 /\ p = q
    BY <1>2, <1>3, <1>7, <1>9, Numbers
  <2>2. \A i \in 1..p : ws[i] = ls[i]
    <3> SUFFICES ASSUME NEW i \in 1..p
                 PROVE  ws[i] = ls[i]
      OBVIOUS
    <3>1. CASE i = 1
      BY <1>5, <2>1, <3>1
    <3>2. CASE i # 1
      <4>1. i \in 2..p /\ i \in 2..q /\ x + i = y + i
        BY <1>2, <2>1, <3>2
      <4> QED
        BY <1>4, <4>1
    <3> QED
      BY <3>1, <3>2
  <2>3. Mid(p) \in 1..p /\ p \in 1..p
    BY <1>2, MidIn
  <2> QED
    BY <1>6, <2>1, <2>2, <2>3 DEF ws, ls, p, q
<1> QED
  BY <1>8, <1>9

LEMMA SameWork ==
  ASSUME Inv, Height("whole") = Height("late"), \A n \in Node : Reaches(n, DiffWindow + 2)
  PROVE  NextDifficulty(blocks["whole"]) = NextDifficulty(blocks["late"])
<1> DEFINE ws == blocks["whole"]
           ls == blocks["late"]
           x == base["whole"]
           y == base["late"]
           p == Len(ws)
           q == Len(ls)
<1>1. "whole" \in Node /\ "late" \in Node
  BY DEF Node
<1>2. /\ ws \in Chains /\ ls \in Chains
      /\ x \in Nat /\ y \in Nat /\ p \in Nat \ {0} /\ q \in Nat \ {0}
  BY <1>1, ChainOf DEF Inv, TypeOK
<1>3. /\ x + p - 1 = y + q - 1
      /\ x = 0 \/ p >= DiffWindow + 2
      /\ y = 0 \/ q >= DiffWindow + 2
  BY <1>1 DEF Height, Reaches
<1>4. \A i \in 2..p, j \in 2..q : x + i = y + j => ws[i] = ls[j]
  BY <1>1 DEF Inv, OneBranch
<1>5. x = 0 /\ y = 0 => ws[1] = ls[1]
  BY <1>1 DEF Inv, Begins
<1> HIDE DEF ws, ls, x, y, p, q
<1>6. x + p = y + q
  BY <1>2, <1>3
<1>7. CASE p >= DiffWindow + 2 /\ q >= DiffWindow + 2
  <2>1. /\ p \in 2..p /\ q \in 2..q
        /\ p - 1 \in 2..p /\ q - 1 \in 2..q
        /\ p - DiffWindow \in 2..p /\ q - DiffWindow \in 2..q
        /\ p > 1 /\ q > 1 /\ ~ (p <= DiffWindow + 1) /\ ~ (q <= DiffWindow + 1)
        /\ x + (p - 1) = y + (q - 1) /\ x + (p - DiffWindow) = y + (q - DiffWindow)
    BY <1>2, <1>6, <1>7, Numbers
  <2>2. ws[p] = ls[q] /\ ws[p - 1] = ls[q - 1] /\ ws[p - DiffWindow] = ls[q - DiffWindow]
    BY <1>4, <1>6, <2>1
  <2> QED
    BY <2>1, <2>2 DEF NextDifficulty, ws, ls, p, q
<1>8. CASE ~ (p >= DiffWindow + 2 /\ q >= DiffWindow + 2)
  <2>1. x = 0 /\ y = 0 /\ p = q
    BY <1>2, <1>3, <1>6, <1>8, Numbers
  <2>2. \A i \in 1..p : ws[i] = ls[i]
    <3> SUFFICES ASSUME NEW i \in 1..p
                 PROVE  ws[i] = ls[i]
      OBVIOUS
    <3>1. CASE i = 1
      BY <1>5, <2>1, <3>1
    <3>2. CASE i # 1
      <4>1. i \in 2..p /\ i \in 2..q /\ x + i = y + i
        BY <1>2, <2>1, <3>2
      <4> QED
        BY <1>4, <4>1
    <3> QED
      BY <3>1, <3>2
  <2>3. ws = ls
    BY <1>2, <2>1, <2>2 DEF p, q, Chains
  <2> QED
    BY <2>3 DEF ws, ls
<1> QED
  BY <1>7, <1>8

LEMMA InvAgree == Inv => VerdictsAgree
<1> SUFFICES ASSUME Inv, Height("whole") = Height("late")
             PROVE  /\ (\A n \in Node : Reaches(n, MtpWindow)) =>
                         \A ts \in 0..(MaxTime + MaxFuture) :
                           TimeFits(ts, blocks["whole"], Len(blocks["whole"]))
                             = TimeFits(ts, blocks["late"], Len(blocks["late"]))
                    /\ (\A n \in Node : Reaches(n, DiffWindow + 2)) =>
                         NextDifficulty(blocks["whole"]) = NextDifficulty(blocks["late"])
  BY DEF VerdictsAgree
<1>1. ASSUME \A n \in Node : Reaches(n, MtpWindow), NEW ts \in 0..(MaxTime + MaxFuture)
      PROVE  TimeFits(ts, blocks["whole"], Len(blocks["whole"]))
               = TimeFits(ts, blocks["late"], Len(blocks["late"]))
  BY <1>1, SameMiddle DEF TimeFits
<1>2. ASSUME \A n \in Node : Reaches(n, DiffWindow + 2)
      PROVE  NextDifficulty(blocks["whole"]) = NextDifficulty(blocks["late"])
  BY <1>2, SameWork
<1> QED
  BY <1>1, <1>2

(***************************************************************************)
(* buildBlock's own block meets the rules (chain.ts:2763-2780), or the     *)
(* chain's median is as far ahead as a block may be.                       *)
(***************************************************************************)
THEOREM NeverStopped == Spec => []OwnStands
<1> QED
  BY Invariant, InvOwn, PTL

(***************************************************************************)
(* A chain taken block by block is one that load() can replay              *)
(* (chain.ts:1292-1326), the blocks right behind an anchor apart.          *)
(***************************************************************************)
THEOREM Replayable == Spec => []Replays
<1>1. Inv => Replays
  BY DEF Inv
<1> QED
  BY <1>1, Invariant, PTL

(***************************************************************************)
(* Nodes on one tip judge the next block's time alike, and work at one     *)
(* difficulty, as soon as the windows of both lie behind their anchors.    *)
(***************************************************************************)
THEOREM Agreement == Spec => []VerdictsAgree
<1> QED
  BY Invariant, InvAgree, PTL
=============================================================================
