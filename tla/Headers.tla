------------------------------- MODULE Headers -------------------------------
(***************************************************************************)
(* Timestamps and difficulty: the clocks of two miners, the median time    *)
(* past, the rules a received block's time must meet, and the difficulty a *)
(* miner works at, on chains that are whole, pruned or begin at an         *)
(* imported snapshot.                                                      *)
(*                                                                         *)
(* A block is its time and its difficulty; its hash meets its difficulty   *)
(* and links it to its parent.  There is one branch: which of two wins is  *)
(* module Chain's subject.                                                 *)
(***************************************************************************)
EXTENDS Integers, Sequences, FiniteSets, SequencesExt, FiniteSetsExt

CONSTANTS
  MtpWindow,          (* MTP_WINDOW                                        *)
  MaxFuture,          (* MAX_FUTURE_MS                                     *)
  TargetBlock,        (* TARGET_BLOCK_MS                                   *)
  DiffWindow,         (* DIFF_WINDOW                                       *)
  MinDifficulty, MaxDifficulty, GenesisDifficulty,
  Retention,          (* pruneConfig.retentionWindow                       *)
  Offsets,            (* how far the nodes' clocks may be off              *)
  Steps,              (* how far time may go on at once                    *)
  MaxTime, MaxHeight  (* bound the run                                     *)

ASSUME HeadersAssumption ==
  /\ {MtpWindow, TargetBlock, DiffWindow} \subseteq Nat \ {0} /\ MtpWindow > 1
  /\ {MaxFuture, MaxTime, MaxHeight} \subseteq Nat
  /\ {MinDifficulty, MaxDifficulty, GenesisDifficulty} \subseteq Int
  /\ MinDifficulty <= GenesisDifficulty /\ GenesisDifficulty <= MaxDifficulty
  /\ Retention \in Nat /\ Retention > MtpWindow
  /\ Offsets \subseteq [{"whole", "late"} -> Int]
  /\ Steps \subseteq Nat \ {0}

Node == {"whole", "late"}
Other(n) == CHOOSE m \in Node : m # n

VARIABLES
  time,    (* the time it is                                               *)
  offset,  (* node -> how far its clock is off                             *)
  blocks,  (* node -> the blocks it holds, [ts, difficulty]                *)
  base,    (* node -> the height of the first of them                      *)
  job      (* node -> the block it mines, and on which height              *)

vars == <<time, offset, blocks, base, job>>

GenesisTs == 0
Block(ts, difficulty) == [ts |-> ts, difficulty |-> difficulty]
NoJob == [on |-> -1, block |-> Block(0, 0)]

Now(n) == time + offset[n]
Height(n) == base[n] + Len(blocks[n]) - 1

-----------------------------------------------------------------------------
(* The rules. *)

Earlier(times, t) == Cardinality({k \in DOMAIN times : times[k] < t})
UpTo(times, t) == Cardinality({k \in DOMAIN times : times[k] <= t})

\* The one in the middle (the later of two) if they were sorted.
Median(times) ==
  LET half == Len(times) \div 2
  IN CHOOSE t \in ToSet(times) : Earlier(times, t) <= half /\ half < UpTo(times, t)

\* Of the last blocks up to the i-th.
MedianTimePast(bs, i) == Median([k \in 1..Min({MtpWindow, i}) |-> bs[i - k + 1].ts])

\* What validateTimestamp asks of a block on the i-th, clocks aside.
TimeFits(ts, bs, i) == ts > MedianTimePast(bs, i) /\ ts >= bs[i].ts

\* Mutant: the median is not asked for.
Accepts_Later(n, b) == b.ts <= Now(n) + MaxFuture /\ b.ts >= Last(blocks[n]).ts

\* A block that comes to node n after its tip.
Accepts(n, b) == b.ts <= Now(n) + MaxFuture /\ TimeFits(b.ts, blocks[n], Len(blocks[n]))

Clamped(d) == Max({MinDifficulty, Min({d, MaxDifficulty})})

\* Mutant: the window begins one block earlier.
NextDifficulty_Wide(bs) ==
  LET tip == Len(bs)
      eased == IF tip > 1 /\ bs[tip].ts - bs[tip - 1].ts > 4 * TargetBlock
               THEN Max({MinDifficulty, bs[tip].difficulty - 1})
               ELSE bs[tip].difficulty
      spent == bs[tip].ts - bs[tip - DiffWindow - 1].ts
      expected == TargetBlock * DiffWindow
  IN IF tip <= DiffWindow + 1 THEN Clamped(eased)
     ELSE Clamped(eased + (IF 4 * spent < 3 * expected THEN 1
                           ELSE IF 4 * spent > 5 * expected THEN -1 ELSE 0))

NextDifficulty(bs) ==
  LET tip == Len(bs)
      eased == IF tip > 1 /\ bs[tip].ts - bs[tip - 1].ts > 4 * TargetBlock
               THEN Max({MinDifficulty, bs[tip].difficulty - 1})
               ELSE bs[tip].difficulty
      spent == bs[tip].ts - bs[tip - DiffWindow].ts
      expected == TargetBlock * DiffWindow
  IN IF tip <= DiffWindow + 1 THEN Clamped(eased)
     ELSE Clamped(eased + (IF 4 * spent < 3 * expected THEN 1
                           ELSE IF 4 * spent > 5 * expected THEN -1 ELSE 0))

\* Mutant: the block is given the time it is.
Built_Now(n) == Block(Now(n), NextDifficulty(blocks[n]))

\* The block that n builds on its tip.
Built(n) ==
  LET tip == Len(blocks[n])
  IN Block(Max({Now(n), blocks[n][tip].ts, MedianTimePast(blocks[n], tip) + 1}),
           NextDifficulty(blocks[n]))

-----------------------------------------------------------------------------
(* Time and mining. *)

Init ==
  /\ time = 2
  /\ offset \in Offsets
  /\ blocks = [n \in Node |-> <<Block(GenesisTs, GenesisDifficulty)>>]
  /\ base = [n \in Node |-> 0]
  /\ job = [n \in Node |-> NoJob]

Tick(d) ==
  /\ time + d <= MaxTime
  /\ time' = time + d
  /\ UNCHANGED <<offset, blocks, base, job>>

\* buildBlock throws if its block's time does not fit.
Build(n) ==
  /\ job[n] = NoJob /\ Height(n) < MaxHeight
  /\ Accepts(n, Built(n))
  /\ job' = [job EXCEPT ![n] = [on |-> Height(n), block |-> Built(n)]]
  /\ UNCHANGED <<time, offset, blocks, base>>

\* Kept below the other's height a block is one of a second branch.
Find(n) ==
  /\ job[n].on = Height(n) /\ Height(n) >= Height(Other(n))
  /\ Accepts(n, job[n].block)
  /\ blocks' = [blocks EXCEPT ![n] = Append(@, job[n].block)]
  /\ job' = [job EXCEPT ![n] = NoJob]
  /\ UNCHANGED <<time, offset, base>>

\* Found on a tip that has moved, a block is refused.
GiveUp(n) ==
  /\ job[n] # NoJob /\ job[n].on # Height(n)
  /\ job' = [job EXCEPT ![n] = NoJob]
  /\ UNCHANGED <<time, offset, blocks, base>>

-----------------------------------------------------------------------------
(* Between the nodes. *)

Behind(n) == Height(n) < Height(Other(n)) /\ Height(n) >= base[Other(n)]

\* The block of the other's chain that comes after n's tip.
NextOf(n) == blocks[Other(n)][Height(n) - base[Other(n)] + 2]

Deliver(n) ==
  /\ Behind(n) /\ Accepts(n, NextOf(n))
  /\ blocks' = [blocks EXCEPT ![n] = Append(@, NextOf(n))]
  /\ UNCHANGED <<time, offset, base, job>>

Anchor(difficulty) == Block(GenesisTs, difficulty)

\* Only a node that has nothing but genesis imports a snapshot.
Import ==
  /\ Len(blocks["late"]) = 1 /\ base["late"] = 0
  /\ Height("whole") > 0
  /\ blocks' = [blocks EXCEPT !["late"] = <<Anchor(GenesisDifficulty)>>]
  /\ base' = [base EXCEPT !["late"] = Height("whole")]
  /\ job' = [job EXCEPT !["late"] = NoJob]
  /\ UNCHANGED <<time, offset>>

Prune(n) ==
  LET to == Len(blocks[n]) - Retention
  IN /\ to > 1
     /\ blocks' = [blocks EXCEPT ![n] = <<Anchor(@[to].difficulty)>> \o SubSeq(@, to + 1, Len(@))]
     /\ base' = [base EXCEPT ![n] = @ + to - 1]
     /\ UNCHANGED <<time, offset, job>>

Next ==
  \/ \E d \in Steps : Tick(d)
  \/ \E n \in Node : Build(n) \/ Find(n) \/ GiveUp(n) \/ Deliver(n) \/ Prune(n)
  \/ Import

Spec == Init /\ [][Next]_vars

-----------------------------------------------------------------------------
(* Properties. *)

(***************************************************************************)
(* A miner is never stopped by its clock (buildBlock throws when its own   *)
(* block's time does not fit): however its clock and the others' are off,  *)
(* the block it builds next meets the rules, unless the median of the      *)
(* chain is itself as far ahead of its clock as a block may be.            *)
(***************************************************************************)
OwnStands ==
  \A n \in Node :
    Accepts(n, Built(n))
      \/ MedianTimePast(blocks[n], Len(blocks[n])) >= Now(n) + MaxFuture

(***************************************************************************)
(* A chain that was taken block by block can be replayed (load() does it   *)
(* when the separate chain state is missing or stale): each block's time   *)
(* fits what lies before it.  Not so behind an anchor, which has genesis'  *)
(* time: until there are MtpWindow blocks again, a block that has its      *)
(* parent's time may be refused by the node that took or even mined it.    *)
(***************************************************************************)
Replays ==
  \A n \in Node : \A i \in 1..(Len(blocks[n]) - 1) :
    TimeFits(blocks[n][i + 1].ts, blocks[n], i)
      \/ (base[n] > 0 /\ i < MtpWindow /\ blocks[n][i + 1].ts = blocks[n][i].ts)

(* Whole, or with so many blocks left. *)
Reaches(n, window) == base[n] = 0 \/ Len(blocks[n]) >= window

(***************************************************************************)
(* Pruned, imported or whole: nodes with the same tip say the same of the  *)
(* next block's time as soon as there are MtpWindow blocks, the anchor     *)
(* counted, which is the earliest whatever its time; and they work at the  *)
(* same difficulty as soon as the window that nextDifficulty looks back on *)
(* lies behind the anchor.  Nobody compares a block's difficulty with it,  *)
(* so that a node that got it wrong would not be found out.                *)
(***************************************************************************)
VerdictsAgree ==
  Height("whole") = Height("late") =>
    /\ (\A n \in Node : Reaches(n, MtpWindow)) =>
         \A ts \in 0..(MaxTime + MaxFuture) :
           TimeFits(ts, blocks["whole"], Len(blocks["whole"]))
             = TimeFits(ts, blocks["late"], Len(blocks["late"]))
    /\ (\A n \in Node : Reaches(n, DiffWindow + 2)) =>
         NextDifficulty(blocks["whole"]) = NextDifficulty(blocks["late"])
=============================================================================
