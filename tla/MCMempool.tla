------------------------------ MODULE MCMempool ------------------------------
(***************************************************************************)
(* An instance of Mempool small enough to exhaust: two senders, one of     *)
(* them with two conflicting transfers of nonce 1, a pool of three and two *)
(* per sender, so that both kinds of eviction and both rejections happen.  *)
(***************************************************************************)
EXTENDS Mempool

CONSTANTS alice, bob

MCAccount == {alice, bob}

Pay(from, to, amount, fee, nonce) ==
  [from |-> from, to |-> to, amount |-> amount, fee |-> fee, nonce |-> nonce, bytes |-> 200]

MCTx == {Pay(alice, bob, 1, 2, 1), Pay(alice, bob, 3, 5, 1),
         Pay(alice, bob, 1, 3, 2), Pay(alice, bob, 1, 9, 3),
         Pay(bob, alice, 1, 4, 1)}
=============================================================================
