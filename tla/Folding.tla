------------------------------ MODULE Folding ------------------------------
(***************************************************************************)
(* What FoldLeft computes, proved for any step.  The operators that the    *)
(* library's induction theorems take cannot be instantiated by a proof,    *)
(* but a module's constant can: for a step S(acc, x) of its own, a module  *)
(* says                                                                    *)
(*      X == INSTANCE Folding WITH op <- S                                 *)
(* and cites X!FoldAppend or X!FoldSteps.  FoldLeft(S, base, s) is         *)
(* X!Fold(base, s) by the definitions of FoldLeft and MapThenFoldSet.      *)
(* Induction is stated of sets: NatSet of numbers, SeqSet of sequences.    *)
(* Every instance copies what is extended here: it is kept small.          *)
(***************************************************************************)
EXTENDS Lists, Folds, WellFoundedInduction, TLAPS

CONSTANT op(_, _)   (* the step of a fold                                  *)

-----------------------------------------------------------------------------
(* A set with 0 in it, and with k + 1 whenever it has k, has every natural  *)
(* number.                                                                  *)
LEMMA NatSet ==
  ASSUME NEW K, 0 \in K, \A k \in Nat : k \in K => k + 1 \in K
  PROVE  Nat \subseteq K
<1>1. SUFFICES ASSUME NEW T, T = Nat \ K, T # {}
               PROVE  FALSE
  OBVIOUS
<1>2. PICK x \in T : \A y \in T : ~ (<<y, x>> \in OpToRel(<, Nat))
  BY <1>1, NatLessThanWellFounded, WFMin
<1>3. x \in Nat /\ x # 0 /\ x - 1 \in Nat /\ x - 1 < x
  BY <1>1
<1>4. x - 1 \notin T
  BY <1>2, <1>3 DEF OpToRel
<1> QED
  BY <1>1, <1>3, <1>4

-----------------------------------------------------------------------------
(* MapThenFoldSet is a CHOOSE of what solves its equation: it has a         *)
(* solution.                                                                *)

\* The last place, as FiniteSetsExt has it.
Max(S) == CHOOSE x \in S : \A y \in S : x >= y

\* The equation a fold over the places up to n solves.
Solves(it, base, s, n) ==
  it = [t \in SUBSET (1..n) |->
          IF t = {} THEN base ELSE op(it[t \ {Max(t)}], s[Max(t)])]

\* Max, of the places up to one that is among them and of any nonempty set.
LEMMA MaxOf ==
  ASSUME NEW n \in Nat, NEW t \in SUBSET (1..(n + 1)), n + 1 \in t
  PROVE  Max(t) = n + 1
<1>1. \A x, y \in t : x \in Int /\ y \in Int /\ x <= n + 1
  OBVIOUS
<1>2. \A x \in t : (\A y \in t : x >= y) => x = n + 1
  BY <1>1
<1>3. \A y \in t : n + 1 >= y
  BY <1>1
<1> QED
  BY <1>2, <1>3 DEF Max

LEMMA MaxIn ==
  ASSUME NEW n \in Nat
  PROVE  \A t \in SUBSET (1..n) : t # {} => Max(t) \in t
<1> DEFINE K == {k \in Nat : \A t \in SUBSET (1..k) : t # {} => Max(t) \in t}
<1>1. 0 \in K
  <2>1. 1..0 = {}
    OBVIOUS
  <2> QED
    BY <2>1
<1>2. ASSUME NEW k \in Nat, k \in K
      PROVE  k + 1 \in K
  <2>1. SUFFICES ASSUME NEW t \in SUBSET (1..(k + 1)), t # {}
                 PROVE  Max(t) \in t
    OBVIOUS
  <2>2. CASE k + 1 \in t
    BY <2>2, MaxOf
  <2>3. CASE k + 1 \notin t
    <3>1. t \in SUBSET (1..k)
      BY <2>3
    <3> QED
      BY <1>2, <2>1, <3>1
  <2> QED
    BY <2>2, <2>3
<1> HIDE DEF K
<1>3. Nat \subseteq K
  BY <1>1, <1>2, NatSet
<1> QED
  BY <1>3 DEF K

\* By induction on n: the places below n + 1 as before, and n + 1 on top.
LEMMA Solvable ==
  ASSUME NEW base, NEW s, NEW n \in Nat
  PROVE  \E it : Solves(it, base, s, n)
<1> DEFINE K == {k \in Nat : \E it : Solves(it, base, s, k)}
<1>1. 0 \in K
  <2> DEFINE it == [t \in SUBSET (1..0) |-> base]
  <2>1. \A t \in SUBSET (1..0) : t = {}
    OBVIOUS
  <2>2. Solves(it, base, s, 0)
    BY <2>1 DEF Solves
  <2> QED
    BY <2>2
<1>2. ASSUME NEW k \in Nat, k \in K
      PROVE  k + 1 \in K
  <2>1. PICK it : Solves(it, base, s, k)
    BY <1>2
  <2> DEFINE next == [t \in SUBSET (1..(k + 1)) |->
                        IF k + 1 \in t THEN op(it[t \ {k + 1}], s[k + 1]) ELSE it[t]]
             rhs == [t \in SUBSET (1..(k + 1)) |->
                       IF t = {} THEN base ELSE op(next[t \ {Max(t)}], s[Max(t)])]
  <2>2. ASSUME NEW t \in SUBSET (1..(k + 1))
        PROVE  next[t] = rhs[t]
    <3>1. CASE k + 1 \in t
      <4>1. Max(t) = k + 1
        BY <3>1, MaxOf
      <4>2. /\ t \ {k + 1} \in SUBSET (1..(k + 1)) /\ k + 1 \notin t \ {k + 1}
        OBVIOUS
      <4>3. next[t \ {k + 1}] = it[t \ {k + 1}]
        BY <4>2
      <4> QED
        BY <3>1, <4>1, <4>3
    <3>2. CASE k + 1 \notin t /\ t # {}
      <4>1. t \in SUBSET (1..k) /\ Max(t) \in t
        BY <3>2, MaxIn
      <4>2. it[t] = op(it[t \ {Max(t)}], s[Max(t)])
        BY <2>1, <3>2, <4>1 DEF Solves
      <4>3. t \ {Max(t)} \in SUBSET (1..(k + 1)) /\ k + 1 \notin t \ {Max(t)}
        BY <3>2, <4>1
      <4>4. next[t \ {Max(t)}] = it[t \ {Max(t)}]
        BY <4>3
      <4> QED
        BY <3>2, <4>2, <4>4
    <3>3. CASE t = {}
      <4>1. {} \in SUBSET (1..k)
        OBVIOUS
      <4>2. it[{}] = base
        BY <2>1, <4>1 DEF Solves
      <4> QED
        BY <3>3, <4>2
    <3> QED
      BY <3>1, <3>2, <3>3
  <2>3. next = rhs
    BY <2>2
  <2>4. Solves(next, base, s, k + 1)
    BY <2>3 DEF Solves
  <2> QED
    BY <2>4
<1> HIDE DEF K
<1>3. Nat \subseteq K
  BY <1>1, <1>2, NatSet
<1> QED
  BY <1>3 DEF K

-----------------------------------------------------------------------------
(* A fold goes through a trace of results, one for each length.             *)

IsTrace(r, base, s, n) ==
  /\ DOMAIN r = 0..n
  /\ r[0] = base
  /\ \A k \in 1..n : r[k] = op(r[k - 1], s[k])

\* FoldLeft(op, base, s).
Fold(base, s) ==
  MapThenFoldSet(LAMBDA x, acc : op(acc, x), base, LAMBDA i : s[i], Max, DOMAIN s)

(* The last result of the trace is the fold: what FoldLeft means by its     *)
(* definition, an equation over sets of places, is the loop it stands for.  *)
THEOREM FoldTrace ==
  ASSUME NEW base, NEW s, NEW n \in Nat, DOMAIN s = 1..n
  PROVE  \E r : IsTrace(r, base, s, n) /\ Fold(base, s) = r[n]
<1> DEFINE it == CHOOSE i : Solves(i, base, s, n)
           r == [k \in 0..n |-> it[1..k]]
<1>1. Solves(it, base, s, n)
  BY Solvable
<1>2. Fold(base, s) = it[1..n]
  BY DEF Fold, MapThenFoldSet, Solves
<1> HIDE DEF it
<1>3. 1..0 = {} /\ {} \in SUBSET (1..n)
  OBVIOUS
<1>4. r[0] = base
  BY <1>1, <1>3 DEF Solves
<1>5. ASSUME NEW k \in 1..n
      PROVE  r[k] = op(r[k - 1], s[k])
  <2>1. /\ 1..k \in SUBSET (1..n) /\ 1..k # {}
        /\ (1..k) \ {k} = 1..(k - 1)
        /\ k \in 0..n /\ k - 1 \in 0..n
    <3>1. k \in Nat /\ k - 1 \in Nat /\ k <= n /\ k \in 1..k
      OBVIOUS
    <3>2. \A x : x \in (1..k) \ {k} <=> x \in 1..(k - 1)
      BY <3>1
    <3> QED
      BY <3>1, <3>2
  <2>2. Max(1..k) = k
    <3> DEFINE p == k - 1
    <3>1. p \in Nat /\ p + 1 = k /\ 1..(p + 1) = 1..k
      OBVIOUS
    <3>2. 1..k \in SUBSET (1..(p + 1)) /\ p + 1 \in 1..k
      BY <3>1
    <3> HIDE DEF p
    <3>3. Max(1..k) = p + 1
      BY <3>1, <3>2, MaxOf
    <3> QED
      BY <3>1, <3>3
  <2>3. it[1..k] = op(it[(1..k) \ {Max(1..k)}], s[Max(1..k)])
    BY <1>1, <2>1 DEF Solves
  <2>4. it[1..k] = op(it[1..(k - 1)], s[k])
    BY <2>1, <2>2, <2>3
  <2>5. r[k] = it[1..k] /\ r[k - 1] = it[1..(k - 1)]
    BY <2>1
  <2> QED
    BY <2>4, <2>5
<1>6. IsTrace(r, base, s, n)
  BY <1>4, <1>5 DEF IsTrace
<1>7. r[n] = it[1..n]
  OBVIOUS
<1> HIDE DEF r
<1> QED
  BY <1>2, <1>6, <1>7

\* Two folds agree as far as what they are over agrees.
LEMMA TraceUnique ==
  ASSUME NEW base, NEW n \in Nat, NEW m \in Nat, n <= m,
         NEW s, NEW r, IsTrace(r, base, s, n),
         NEW t, NEW q, IsTrace(q, base, t, m),
         \A k \in 1..n : s[k] = t[k]
  PROVE  r[n] = q[n]
<1> DEFINE K == {k \in Nat : k <= n => r[k] = q[k]}
<1>1. 0 \in K
  BY DEF IsTrace
<1>2. ASSUME NEW k \in Nat, k \in K
      PROVE  k + 1 \in K
  <2>1. SUFFICES ASSUME k + 1 <= n
                 PROVE  r[k + 1] = q[k + 1]
    OBVIOUS
  <2>2. k + 1 \in 1..n /\ k + 1 \in 1..m /\ (k + 1) - 1 = k /\ r[k] = q[k]
    BY <1>2, <2>1
  <2>3. r[k + 1] = op(r[(k + 1) - 1], s[k + 1]) /\ q[k + 1] = op(q[(k + 1) - 1], t[k + 1])
    BY <2>2 DEF IsTrace
  <2> QED
    BY <2>2, <2>3
<1> HIDE DEF K
<1>3. Nat \subseteq K
  BY <1>1, <1>2, NatSet
<1> QED
  BY <1>3 DEF K

(* A loop over nothing leaves what it started from.                         *)
THEOREM FoldEmpty ==
  ASSUME NEW base
  PROVE  Fold(base, <<>>) = base
<1>1. DOMAIN <<>> = 1..0 /\ 0 \in Nat
  OBVIOUS
<1>2. PICK r : IsTrace(r, base, <<>>, 0) /\ Fold(base, <<>>) = r[0]
  BY <1>1, FoldTrace
<1> QED
  BY <1>2 DEF IsTrace

(* A loop over one element more takes one step more.                        *)
THEOREM FoldAppend ==
  ASSUME NEW base, NEW S, NEW s \in Seq(S), NEW x \in S
  PROVE  Fold(base, Append(s, x)) = op(Fold(base, s), x)
<1> DEFINE n == Len(s)
           t == Append(s, x)
<1>1. /\ n \in Nat /\ n + 1 \in Nat /\ DOMAIN s = 1..n /\ DOMAIN t = 1..(n + 1)
      /\ t[n + 1] = x /\ \A k \in 1..n : s[k] = t[k]
  OBVIOUS
<1> HIDE DEF n, t
<1>2. PICK r : IsTrace(r, base, s, n) /\ Fold(base, s) = r[n]
  BY <1>1, FoldTrace
<1>3. PICK q : IsTrace(q, base, t, n + 1) /\ Fold(base, t) = q[n + 1]
  BY <1>1, FoldTrace
<1>4. r[n] = q[n]
  BY <1>1, <1>2, <1>3, TraceUnique
<1>5. n + 1 \in 1..(n + 1) /\ (n + 1) - 1 = n
  BY <1>1
<1>6. q[n + 1] = op(q[n], x)
  BY <1>1, <1>3, <1>5 DEF IsTrace
<1> QED
  BY <1>2, <1>3, <1>4, <1>6 DEF t

(* Every result a loop goes through is the step, on some element of the     *)
(* sequence, of the result before it: the way to an invariant of the loop.  *)
THEOREM FoldSteps ==
  ASSUME NEW base, NEW S, NEW s \in Seq(S)
  PROVE  \E r : /\ r[0] = base /\ r[Len(s)] = Fold(base, s)
               /\ \A k \in Nat : k < Len(s) => \E x \in S : r[k + 1] = op(r[k], x)
<1> DEFINE n == Len(s)
<1>1. n \in Nat /\ DOMAIN s = 1..n /\ \A i \in 1..n : s[i] \in S
  OBVIOUS
<1>2. PICK r : IsTrace(r, base, s, n) /\ Fold(base, s) = r[n]
  BY <1>1, FoldTrace
<1>3. ASSUME NEW k \in Nat, k < n
      PROVE  \E x \in S : r[k + 1] = op(r[k], x)
  <2>1. k + 1 \in 1..n /\ (k + 1) - 1 = k
    BY <1>1, <1>3
  <2>2. r[k + 1] = op(r[(k + 1) - 1], s[k + 1])
    BY <1>2, <2>1 DEF IsTrace
  <2> QED
    BY <1>1, <2>1, <2>2
<1>4. r[0] = base
  BY <1>2 DEF IsTrace
<1> QED
  BY <1>2, <1>3, <1>4

(* A set with the empty sequence in it, and with Append(s, x) whenever it   *)
(* has s, has every sequence.                                               *)
THEOREM SeqSet ==
  ASSUME NEW S, NEW K, <<>> \in K,
         \A s \in Seq(S), x \in S : s \in K => Append(s, x) \in K
  PROVE  Seq(S) \subseteq K
<1> DEFINE N == {k \in Nat : \A s \in Seq(S) : Len(s) = k => s \in K}
<1>1. 0 \in N
  <2>1. \A s \in Seq(S) : Len(s) = 0 => s = <<>>
    OBVIOUS
  <2> QED
    BY <2>1
<1>2. ASSUME NEW k \in Nat, k \in N
      PROVE  k + 1 \in N
  <2>1. SUFFICES ASSUME NEW s \in Seq(S), Len(s) = k + 1
                 PROVE  s \in K
    OBVIOUS
  <2>2. s # <<>>
    BY <2>1
  <2>3. PICK f \in Seq(S), x \in S : s = Append(f, x)
    <3> DEFINE f == [i \in 1..k |-> s[i]]
    <3>1. s[k + 1] \in S /\ f \in Seq(S) /\ Len(f) = k
      BY <2>1
    <3>2. s = Append(f, s[k + 1])
      BY <2>1, <3>1
    <3> QED
      BY <3>1, <3>2
  <2>4. Len(f) = k
    BY <2>1, <2>3
  <2> QED
    BY <1>2, <2>3, <2>4
<1> HIDE DEF N
<1>3. Nat \subseteq N
  BY <1>1, <1>2, NatSet
<1> QED
  BY <1>3 DEF N

-----------------------------------------------------------------------------
(* A filter keeps elements of the sequence, those of the set.               *)
THEOREM WithinSeq ==
  ASSUME NEW S, NEW s \in Seq(S), NEW T
  PROVE  Within(s, T) \in Seq(S \cap T)
<1> DEFINE Do(f, i) == IF i = 0 THEN <<>>
                         ELSE IF s[i] \in T THEN Append(f[i - 1], s[i]) ELSE f[i - 1]
           Solved(f, k) == f = [i \in 0..k |-> Do(f, i)]
           K == {k \in Nat : \E f : Solved(f, k)}
<1>1. 0 \in K
  <2> DEFINE f == [i \in 0..0 |-> <<>>]
  <2>1. \A i \in 0..0 : i = 0
    OBVIOUS
  <2>2. Solved(f, 0)
    BY <2>1
  <2> QED
    BY <2>2
<1>2. ASSUME NEW k \in Nat, k \in K
      PROVE  k + 1 \in K
  <2>1. PICK f : Solved(f, k)
    BY <1>2
  <2> DEFINE g == [i \in 0..(k + 1) |-> IF i = k + 1 THEN Do(f, k + 1) ELSE f[i]]
             h == [i \in 0..(k + 1) |-> Do(g, i)]
  <2>2. ASSUME NEW i \in 0..(k + 1)
        PROVE  g[i] = Do(g, i)
    <3>1. CASE i = k + 1
      <4>1. i - 1 = k /\ k \in 0..(k + 1) /\ k # k + 1 /\ i # 0
        BY <3>1
      <4>2. g[i - 1] = f[i - 1] /\ g[i] = Do(f, i)
        BY <3>1, <4>1
      <4> HIDE DEF g
      <4> QED
        BY <4>1, <4>2
    <3>2. CASE i \in 1..k
      <4>1. i - 1 \in 0..(k + 1) /\ i - 1 # k + 1 /\ i # k + 1 /\ i \in 0..k /\ i # 0
        BY <3>2
      <4>2. g[i - 1] = f[i - 1] /\ g[i] = f[i]
        BY <4>1
      <4>3. f[i] = Do(f, i)
        BY <2>1, <4>1
      <4> HIDE DEF g
      <4> QED
        BY <4>1, <4>2, <4>3
    <3>3. CASE i = 0
      <4>1. g[i] = f[i] /\ f[i] = <<>>
        BY <2>1, <3>3
      <4> QED
        BY <3>3, <4>1
    <3> QED
      BY <3>1, <3>2, <3>3
  <2>3. g = h
    BY <2>2
  <2>4. Solved(g, k + 1)
    BY <2>3
  <2> HIDE DEF g, Solved
  <2> QED
    BY <2>4
<1> HIDE DEF K
<1>3. Nat \subseteq K
  BY <1>1, <1>2, NatSet
<1> DEFINE n == Len(s)
           kept == CHOOSE f : Solved(f, n)
<1>4. n \in Nat /\ \A i \in 1..n : s[i] \in S
  OBVIOUS
<1>5. Solved(kept, n)
  BY <1>3, <1>4 DEF K
<1>6. Within(s, T) = kept[n]
  BY DEF Within
<1> HIDE DEF kept, n
<1> DEFINE M == {k \in Nat : k <= n => kept[k] \in Seq(S \cap T)}
<1>7. 0 \in M
  BY <1>4, <1>5
<1>8. ASSUME NEW k \in Nat, k \in M
      PROVE  k + 1 \in M
  <2>1. SUFFICES ASSUME k + 1 <= n
                 PROVE  kept[k + 1] \in Seq(S \cap T)
    OBVIOUS
  <2>2. k + 1 \in 0..n /\ k + 1 \in 1..n /\ (k + 1) - 1 = k /\ kept[k] \in Seq(S \cap T) /\ k + 1 # 0
    BY <1>4, <1>8, <2>1
  <2>3. kept[k + 1] = Do(kept, k + 1)
    BY <1>5, <2>2
  <2> QED
    BY <1>4, <2>2, <2>3
<1> HIDE DEF M
<1>9. Nat \subseteq M
  BY <1>7, <1>8, NatSet
<1> QED
  BY <1>4, <1>6, <1>9 DEF M
=============================================================================
