----------------------------- MODULE OortLinks -----------------------------
(***************************************************************************)
(* The transport the chat services stand on: the CometD Oort cluster.      *)
(* Oort itself is a library; these operators state only what the services  *)
(* use of it.  A node publishes the updates of the Oort objects it owns,   *)
(* and whatever appears on a channel it observes, to every node it is      *)
(* joined with; a node receives what another one published in the order in *)
(* which it was published.  When two nodes part, what was still under way  *)
(* is lost and each side is told that the other one left.                  *)
(***************************************************************************)
EXTENDS Naturals, Sequences

CONSTANT Nodes

\* links[m][n] holds the messages from m that n has not processed yet.
NoLinks == [m \in Nodes |-> [n \in Nodes |-> <<>>]]

\* joined[m] is the set of nodes that m's messages reach.
AllJoined == [m \in Nodes |-> Nodes \ {m}]

\* All states of the queues, with messages from M.
LinksOf(M) == [Nodes -> [Nodes -> Seq(M)]]

\* No node is joined with itself, nor has anything under way to itself.
NoLoop(links, joined) ==
  \A n \in Nodes : n \notin joined[n] /\ links[n][n] = <<>>

\* m publishes msg to the nodes in S.
Publish(links, m, S, msg) ==
  [links EXCEPT ![m] =
    [n \in Nodes |-> IF n \in S THEN Append(@[n], msg) ELSE @[n]]]

\* n takes the oldest message of m.
Consume(links, m, n) == [links EXCEPT ![m][n] = Tail(@)]

\* m and n part: both find out by the message that comes next.
Sever(links, m, n, left) ==
  [links EXCEPT ![m][n] = <<left>>, ![n][m] = <<left>>]

Part(joined, m, n) == [joined EXCEPT ![m] = @ \ {n}, ![n] = @ \ {m}]

Join(joined, m, n) == [joined EXCEPT ![m] = @ \cup {n}, ![n] = @ \cup {m}]

\* m and n join: each one sends the other the whole of the object it owns.
Exchange(links, m, n, ofM, ofN) ==
  [links EXCEPT ![m][n] = Append(@, ofM), ![n][m] = Append(@, ofN)]
=============================================================================
