------------------------------- MODULE Network -------------------------------
(***************************************************************************)
(* The sockets of network.ts: who is connected to whom, what each side     *)
(* calls the other, and the messages under way.                            *)
(*                                                                         *)
(* A link is one connection, dialled at most once; a node that reconnects  *)
(* uses a new link.  Each link has two ends, the dialler's "outbound" and  *)
(* the acceptor's "inbound", and each end is a socket of its node.         *)
(***************************************************************************)
EXTENDS Integers, SequencesExt

CONSTANTS
  Node,
  Link,
  Dialer, Acceptor,  (* link -> the node at each end                       *)
  Url,               (* node -> the url it is dialled at                   *)
  Host,              (* node -> the address its connections come from      *)
  NoPeer             (* null                                               *)

ASSUME NetworkAssumption ==
  /\ Node # {}
  /\ Dialer \in [Link -> Node] /\ Acceptor \in [Link -> Node]
  /\ \A l \in Link : Dialer[l] # Acceptor[l]
  /\ \A n \in Node : Url[n] # NoPeer /\ Host[n] # NoPeer
  /\ \A m, n \in Node : Url[m] # Host[n]

VARIABLES
  sock,  (* end -> [state, height, knows]: readyState, peerRemoteHeight    *)
         (* (-1 for none) and peerKnownBlocks                              *)
  wire   (* end -> the messages on their way to it, oldest first           *)

networkVars == <<sock, wire>>

End == Link \X {"outbound", "inbound"}

Out(l) == <<l, "outbound">>
In(l) == <<l, "inbound">>

Far(e) == IF e[2] = "outbound" THEN In(e[1]) ELSE Out(e[1])

\* The node whose socket the end is.
At(e) == IF e[2] = "outbound" THEN Dialer[e[1]] ELSE Acceptor[e[1]]

EndsOf(n) == {e \in End : At(e) = n}

\* Connections from one host cannot be told apart.
Label(e) == IF e[2] = "outbound" THEN Url[Acceptor[e[1]]] ELSE Host[Dialer[e[1]]]

NoHeight == -1

Socket(state) == [state |-> state, height |-> NoHeight, knows |-> {}]

\* In the map "sockets".
Connected(e) == sock[e].state \in {"open", "closing"}

NetworkInit ==
  /\ sock = [e \in End |-> Socket("none")]
  /\ wire = [e \in End |-> <<>>]

-----------------------------------------------------------------------------
(* Messages.  "out" gives what each end sends. *)

Silence == [e \in End |-> <<>>]

Only(e, msgs) == [Silence EXCEPT ![e] = msgs]

\* Only an open socket sends, and what is sent to a closed one is lost.
Sent(w, out) ==
  [e \in End |-> IF sock[Far(e)].state = "open" /\ sock[e].state # "closed"
                 THEN w[e] \o out[Far(e)] ELSE w[e]]

\* The oldest message on its way to the end, if it has this type.
Arrived(e, type) == {m \in ToSet(wire[e]) : Connected(e) /\ m = Head(wire[e]) /\ m.type = type}

\* The end takes it, and the node sends.
Handled(e, out) == wire' = Sent([wire EXCEPT ![e] = Tail(@)], out)

\* The label of an open outbound socket is in outboundUrls.
Dialled(n, url) == \E e \in EndsOf(n) : e[2] = "outbound" /\ Connected(e) /\ Label(e) = url

Dial(l) ==
  /\ sock[Out(l)].state = "none"
  /\ ~ Dialled(Dialer[l], Url[Acceptor[l]])
  /\ sock' = [sock EXCEPT ![Out(l)] = Socket("dialing")]
  /\ UNCHANGED wire

\* A connection is lost, or an attempt to dial fails: each side that has the
\* socket open learns of it in its own time.
Break(l) ==
  /\ sock[Out(l)].state \in {"dialing", "open"} \/ sock[In(l)].state = "open"
  /\ sock' = [sock EXCEPT
       ![Out(l)].state = IF @ = "dialing" THEN "closed" ELSE IF @ = "open" THEN "closing" ELSE @,
       ![In(l)].state = IF @ = "none" THEN "closed" ELSE IF @ = "open" THEN "closing" ELSE @]
  /\ wire' = [wire EXCEPT ![Out(l)] = <<>>, ![In(l)] = <<>>]
=============================================================================
