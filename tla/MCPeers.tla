------------------------------ MODULE MCPeers ------------------------------
(* The values Peers is checked with.                                       *)
EXTENDS Peers

CONSTANTS p, a, b

MCPeer == {p}
MCAddr == {a, b}
MCId == MCPeer \cup MCAddr
\* The peer with callers from its address, and with callers from elsewhere.
MCTogether == {{p, a}, {p, b}}

MCAddrOf == [u \in MCPeer |-> a]

\* The points in tenths, but for those of a connection.
MCScore ==
  ("connect" :> 2) @@ ("disconnect" :> -1) @@ ("message-ok" :> 1)
  @@ ("block-ok" :> 1) @@ ("socket-error" :> -1) @@ ("rate-limit" :> -2)
  @@ ("bad-message" :> -3) @@ ("bad-headers" :> -4) @@ ("manual-ban" :> -6)

MCMinScore == -6
MCBanScore == -5
MCWorstScore == -6
=============================================================================
