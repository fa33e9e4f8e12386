------------------------------ MODULE MCService ------------------------------
(***************************************************************************)
(* A node whose wallet w holds 12 coins, and a peer's account v.  Two       *)
(* requests pay v the same sum at different fees, so that they are one      *)
(* nonce apart, or the same nonce signed twice.  From the network comes a   *)
(* transfer of w with the first nonce, signed by the same wallet on another *)
(* node: when a block confirms it, what waits may no longer be affordable.  *)
(***************************************************************************)
EXTENDS Service

CONSTANTS w, v, r1, r2

Held == w :> 12

MCFunds == [bal |-> Held, nonce |-> EmptyMap, pend |-> {}, minted |-> 12]

MCKind == r1 :> "send" @@ r2 :> "raw"

MCPayment == r1 :> [to |-> v, amount |-> 3, fee |-> 1, bytes |-> 200] @@
             r2 :> [to |-> v, amount |-> 3, fee |-> 2, bytes |-> 200]

Elsewhere == [from |-> w, to |-> v, amount |-> 7, fee |-> 2, nonce |-> 1, bytes |-> 200]

MCForeign == {Elsewhere}
=============================================================================
