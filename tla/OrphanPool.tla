----------------------------- MODULE OrphanPool -----------------------------
(***************************************************************************)
(* The pool of blocks that arrived before their parent (class Chain of     *)
(* chain.ts), as functions of the pool.  A pool is a record                *)
(*    blks    hashes of the waiting blocks             (orphanBlocks)      *)
(*    order   the same hashes, oldest first            (orphanOrder)       *)
(*    old     those waiting longer than ORPHAN_TTL_MS  (orphanReceivedAt)  *)
(*    byPrev  parent -> waiting children               (orphansByPrev)     *)
(* "known" below is the set of hashes on the node's chain.                 *)
(***************************************************************************)
EXTENDS Ledger, Lists

CONSTANTS
  Blk,         (* block hashes                                             *)
  Header,      (* hash -> the block: see Ledger and Chain                  *)
  MaxOrphans   (* MAX_ORPHAN_BLOCKS                                        *)

ASSUME OrphanAssumption == MaxOrphans \in Nat \ {0}

EmptyOrphans == [blks |-> {}, order |-> <<>>, old |-> {}, byPrev |-> [h \in {} |-> {}]]

Children(o, h) == IF h \in DOMAIN o.byPrev THEN o.byPrev[h] ELSE {}

\* h and everything that waits for it, directly or not.
Subtree(o, h) ==
  LET reach[n \in 0..Cardinality(o.blks)] ==
        IF n = 0 THEN {h}
        ELSE reach[n - 1] \cup UNION {Children(o, x) : x \in reach[n - 1]}
  IN reach[Cardinality(o.blks)]

\* removeOrphan on each element of hs that is waiting.
RemoveOrphans(o, hs) ==
  LET gone == hs \cap o.blks
      left(p) == o.byPrev[p] \ {h \in gone : Header[h].prev = p}
  IN IF gone = {} THEN o
     ELSE [blks   |-> o.blks \ gone,
           order  |-> Within(o.order, o.blks \ gone),
           old    |-> o.old \ gone,
           byPrev |-> [p \in {q \in DOMAIN o.byPrev : left(q) # {}} |-> left(p)]]

\* The budget of 512 steps is above any pool the limit allows.
RemoveSubtrees(o, roots) ==
  RemoveOrphans(o, UNION {Subtree(o, h) : h \in roots})

PruneExpired(o) == RemoveSubtrees(o, o.old)

\* Whoever is on the chain by now, or waits for a block nobody has.
Dangling(o, known) ==
  {h \in o.blks : h \in known \/ Header[h].prev \notin known \cup o.blks}

PruneDangling(o, known) == RemoveSubtrees(o, Dangling(o, known))

\* The loops that evict run once: a pool is at most one above its limit.
EvictOldest(o) ==
  IF Cardinality(o.blks) > MaxOrphans THEN RemoveSubtrees(o, {Head(o.order)}) ELSE o

PruneOrphans(o, known) ==
  EvictOldest(PruneDangling(PruneExpired(o), known))

StoreOrphan(o, h, known) ==
  LET p == Header[h].prev
      Stored(kept) ==
        [kept EXCEPT
           !.blks = @ \cup {h},
           !.order = Append(@, h),
           !.byPrev = [q \in DOMAIN @ \cup {p} |->
                         IF q = p THEN Children(kept, p) \cup {h} ELSE @[q]]]
      Store(kept) == IF h \in known \cup kept.blks THEN kept ELSE EvictOldest(Stored(kept))
  IN Store(PruneOrphans(o, known))

=============================================================================
