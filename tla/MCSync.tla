------------------------------- MODULE MCSync -------------------------------
(***************************************************************************)
(* Up to three nodes, and a chain of each of them from genesis on.         *)
(***************************************************************************)
EXTENDS Sync

Chains == [a |-> <<"g", "a1">>, b |-> <<"g", "b1", "b2", "b3">>, c |-> <<"g", "c1", "c2", "c3">>]

\* Whatever is still to be mined is mined by a.
AMines == [x \in Blk \ {Genesis} |-> "a"]

MCMiner == [x \in Blk \ {Genesis} |-> CHOOSE n \in Node : x \in ToSet(Chains[n])]

HeightIn(chain, x) == CHOOSE h \in 1..(Len(chain) - 1) : chain[h + 1] = x

MCWork == [x \in Blk |-> IF x = Genesis THEN 0 ELSE HeightIn(Chains[MCMiner[x]], x)]

ASSUME HeightIsWork == EquallyDifficult(MCWork)

MCPrev == [x \in Blk \ {Genesis} |-> Chains[MCMiner[x]][MCWork[x]]]

Dials == [ab |-> <<"a", "b">>, ab2 |-> <<"a", "b">>, ac |-> <<"a", "c">>, bc |-> <<"b", "c">>,
          cb |-> <<"c", "b">>]

MCDialer == [l \in Link |-> Dials[l][1]]
MCAcceptor == [l \in Link |-> Dials[l][2]]

MCUrl == [n \in Node |-> <<"url", n>>]
MCHost == [n \in Node |-> <<"host", n>>]

BDrops == {<<"ab", "inbound">>}

\* How many blocks of whose chain the nodes start with.
First(owner, count) == [n \in Node |-> SubSeq(Chains[owner[n]], 1, 1 + count[n])]
AllOf(x) == [n \in {"a", "b", "c"} |-> x]

NewNet == First(AllOf("b"), AllOf(0))
BothTwo == First(AllOf("b"), [a |-> 0, b |-> 2, c |-> 2])
Racing == First([a |-> "b", b |-> "b", c |-> "c"], [a |-> 0, b |-> 2, c |-> 2])
=============================================================================
