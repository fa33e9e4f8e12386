------------------------------ MODULE MCRelay ------------------------------
(***************************************************************************)
(* Three nodes.  Either all are connected, and what one announces reaches  *)
(* each by two ways, or a and b are, and b dials c, over a link that may   *)
(* break.  Two transfers of one sender are submitted at a; a and c may     *)
(* each mine a block of both.  c may evict the second and forget it has    *)
(* seen the block of a.                                                    *)
(***************************************************************************)
EXTENDS Relay, TLC

CONSTANTS a, b, c, ab, ac, bc, bc2, t1, t2, b0, b1, b2

MCNode == {a, b, c}
MCLink == {ab, ac, bc, bc2}
MCDialer == ab :> a @@ ac :> a @@ bc :> b @@ bc2 :> b
MCAcceptor == ab :> b @@ ac :> c @@ bc :> c @@ bc2 :> c
MCUrl == a :> "url-a" @@ b :> "url-b" @@ c :> "url-c"
MCHost == a :> "host-a" @@ b :> "host-b" @@ c :> "host-c"
MCEarlier == t1 :> {} @@ t2 :> {t1}
MCBlk == {b0, b1, b2}
MCPrev == b1 :> b0 @@ b2 :> b0
MCTxs == b0 :> <<>> @@ b1 :> <<t1, t2>> @@ b2 :> <<t1, t2>>
MCMiner == b1 :> a @@ b2 :> c
MCStart == {ab :> "open" @@ ac :> "open" @@ bc :> "open" @@ bc2 :> "none",
            ab :> "open" @@ ac :> "closed" @@ bc :> "closed" @@ bc2 :> "none"}
MCWallet == a :> {t1, t2} @@ b :> {} @@ c :> {}
MCEvictable == a :> {} @@ b :> {} @@ c :> {t2}
MCForgotten == a :> {} @@ b :> {} @@ c :> {b1}
============================================================================
