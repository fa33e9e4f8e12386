----------------------------- MODULE Reputation -----------------------------
(***************************************************************************)
(* peer-reputation.ts: the score and the bans of each peer, as functions   *)
(* from the book to the book.                                              *)
(*                                                                         *)
(* A peer is known by the url it is dialled at or the address it calls     *)
(* from.  Time is counted in ticks: a ban is what is left of it, and       *)
(* "quiet" is how long ago all scores were decayed last, which happens on  *)
(* the first call that comes DecayInterval after the decay before.         *)
(***************************************************************************)
EXTENDS Integers

CONSTANTS
  Id,
  EventScore,                         (* EVENT_SCORE: event -> points      *)
  MinScore, MaxScore,                 (* -100, 100                         *)
  BanScore,                           (* AUTO_BAN_SCORE: -50               *)
  WorseScore, WorstScore,             (* -75, -90: a ban is 2, 4 times as  *)
                                      (* long                              *)
  BaseBan, MaxBan,                    (* 1 minute, 30 minutes              *)
  DecayInterval,                      (* 1 minute                          *)
  PositiveStep, NegativeStep          (* 1, 2 points for each interval     *)

Event == DOMAIN EventScore

ASSUME ReputationAssumption ==
  /\ EventScore \in [Event -> Int]
  /\ {"connect", "disconnect", "message-ok", "socket-error", "bad-message",
      "rate-limit", "manual-ban"} \subseteq Event
  /\ {MinScore, MaxScore, BanScore, WorseScore, WorstScore} \subseteq Int
  /\ MinScore <= BanScore /\ BanScore < 0 /\ 0 <= MaxScore
  /\ {BaseBan, MaxBan, DecayInterval, PositiveStep, NegativeStep} \subseteq Nat \ {0}
  /\ BaseBan <= MaxBan

\* "next" is BASE_BAN_MS * 2^banCount, or MAX_BAN_MS if that is less.
Record ==
  [score : MinScore .. MaxScore, ban : 0 .. MaxBan, next : BaseBan .. MaxBan]

NewRecord == [score |-> 0, ban |-> 0, next |-> BaseBan]

Least(m, n) == IF m <= n THEN m ELSE n
Greatest(m, n) == IF m <= n THEN n ELSE m

Clamp(n) == Greatest(MinScore, Least(MaxScore, n))

-----------------------------------------------------------------------------
\* Mutant: a score below 0 moves away from it.
Faded_Down(rec, steps) ==
  IF rec.ban > 0 THEN rec
  ELSE [rec EXCEPT !.score = IF @ > 0 THEN Greatest(0, @ - PositiveStep * steps)
                                      ELSE Clamp(@ - NegativeStep * steps)]

\* A score moves back to 0, faster from below, and not during a ban.
Faded(rec, steps) ==
  IF rec.ban > 0 THEN rec
  ELSE [rec EXCEPT !.score = IF @ > 0 THEN Greatest(0, @ - PositiveStep * steps)
                                      ELSE Least(0, @ + NegativeStep * steps)]

DecayDue(quiet) == quiet >= DecayInterval

Decayed(book, quiet) ==
  IF DecayDue(quiet) THEN [i \in Id |-> Faded(book[i], quiet \div DecayInterval)]
                     ELSE book

QuietAfter(quiet) == IF DecayDue(quiet) THEN 0 ELSE quiet

\* record() for one peer, once the scores are decayed.
Scored(rec, event) == [rec EXCEPT !.score = Clamp(@ + EventScore[event])]

Noted(book, quiet, id, event) ==
  [Decayed(book, quiet) EXCEPT ![id] = Scored(@, event)]

Penalty(score) ==
  IF score <= WorstScore THEN 4 ELSE IF score <= WorseScore THEN 2 ELSE 1

BanLength(rec, score, manual) ==
  IF manual THEN MaxBan ELSE Least(MaxBan, rec.next * Penalty(score))

\* A ban starts now, even if one is running.
Banned(rec, manual) ==
  LET score == Least(rec.score, BanScore)
  IN  [score |-> score,
       ban   |-> BanLength(rec, score, manual),
       next  |-> Least(MaxBan, 2 * rec.next)]

Sentenced(rec, event) ==
  IF event = "manual-ban" THEN Banned(rec, TRUE)
  ELSE IF rec.score <= BanScore THEN Banned(rec, FALSE)
  ELSE rec

Punished(book, quiet, id, event) ==
  [Decayed(book, quiet) EXCEPT ![id] = Sentenced(Scored(@, event), event)]

\* What a tick takes off every ban; expired ones are cleared when next read.
Aged(book) == [i \in Id |-> [book[i] EXCEPT !.ban = Greatest(0, @ - 1)]]

=============================================================================
