----------------------------- MODULE UserCount -----------------------------
(***************************************************************************)
(* UserCountService: how many users are connected, to all nodes together.  *)
(* Each node has a counter, an OortLong, that the other nodes have a copy  *)
(* of.  A client is counted when it sends /service/init, after it has      *)
(* subscribed to /users, and subtracted when its session is removed; then  *)
(* the node adds the counters up and publishes the sum, which goes to the  *)
(* clients of all nodes.                                                   *)
(*                                                                         *)
(* The message of a session and its removal are handled by two threads,    *)
(* which can be overtaken between the change, the sum and its publication. *)
(* A counter changes, and is sent to the other nodes, in one step.         *)
(***************************************************************************)
EXTENDS OortLinks, Integers, FiniteSetsExt

CONSTANTS
  Sessions,
  NodeOf,       \* the node a session connects to
  NoCount,      \* what a client shows before it hears of a count
  MaxBusy,      \* bound: how many threads are at work and messages under way
                \* when another thread starts
  MaxPartings   \* bound: how often two nodes lose each other

Threads == {"init", "removal"} \X Sessions

ASSUME UserCountAssumption ==
  /\ IsFiniteSet(Sessions) /\ IsFiniteSet(Nodes)
  /\ NodeOf \in [Sessions -> Nodes]
  /\ NoCount \notin Int
  /\ MaxBusy \in Nat /\ MaxPartings \in Nat

VARIABLES
  life,       \* whether a session is "new", "open" or "gone"
  stage,      \* where a thread is: "none", "change", "sum", "publish" or "done"
  result,     \* the sum that a thread has computed and not published yet
  values,     \* values[n][m]: the counter of m, seen at n
  shown,      \* the count that a client shows
  links,      \* what is under way between nodes
  joined,     \* which nodes reach which
  disturbed,  \* (history variable) the nodes where the latest change was not
              \* alone, or came from a node that reaches others than they do,
              \* or that have parted or joined after it
  partings    \* how often nodes have parted

vars == <<life, stage, result, values, shown, links, joined, disturbed, partings>>

Init ==
  /\ life = [s \in Sessions |-> "new"]
  /\ stage = [t \in Threads |-> "none"]
  /\ result = [t \in Threads |-> 0]
  /\ values = [n \in Nodes |-> [m \in Nodes |-> 0]]
  /\ shown = [s \in Sessions |-> NoCount]
  /\ links = NoLinks
  /\ joined = AllJoined
  /\ disturbed = {}
  /\ partings = 0

-----------------------------------------------------------------------------

Here(t) == NodeOf[t[2]]

AtWork == {t \in Threads : stage[t] \notin {"none", "done"}}

AtRest ==
  /\ AtWork = {}
  /\ \A m, n \in Nodes : links[m][n] = <<>>

\* The nodes that reach exactly those that n reaches, and n itself.
Together(n) == {m \in Nodes : joined[m] \cup {m} = joined[n] \cup {n}}

\* A thread starts to change the counter of its node.
Starts(t) ==
  /\ Cardinality(AtWork)
       + MapThenSumSet(LAMBDA p : Len(links[p[1]][p[2]]), Nodes \X Nodes) <= MaxBusy
  /\ stage' = [stage EXCEPT ![t] = "change"]
  /\ disturbed' = IF AtRest
                  THEN (disturbed \cup joined[Here(t)]) \ Together(Here(t))
                  ELSE Nodes

Connect(s) ==
  /\ life[s] = "new"
  /\ life' = [life EXCEPT ![s] = "open"]
  /\ UNCHANGED <<stage, result, values, shown, links, joined, disturbed, partings>>

\* The client sends /service/init, once it has subscribed to /users.
Process(s) ==
  /\ life[s] = "open"
  /\ stage[<<"init", s>>] = "none"
  /\ Starts(<<"init", s>>)
  /\ UNCHANGED <<life, result, values, shown, links, joined, partings>>

\* The session disconnects or expires, whether or not the client was counted,
\* and while it may just be counted.
SessionRemoved(s) ==
  /\ life[s] = "open"
  /\ life' = [life EXCEPT ![s] = "gone"]
  /\ shown' = [shown EXCEPT ![s] = NoCount]
  /\ Starts(<<"removal", s>>)
  /\ UNCHANGED <<result, values, links, joined, partings>>

\* Slip: the counter changes on this node alone.
AddHere(t) ==
  /\ stage[t] = "change"
  /\ values' = [values EXCEPT ![Here(t)][Here(t)] = @ + (IF t[1] = "init" THEN 1 ELSE -1)]
  /\ stage' = [stage EXCEPT ![t] = "sum"]
  /\ UNCHANGED <<life, result, shown, links, joined, disturbed, partings>>

\* addAndGet.
AddAndGet(t) ==
  /\ stage[t] = "change"
  /\ LET n == Here(t)
         value == values[n][n] + (IF t[1] = "init" THEN 1 ELSE -1)
     IN /\ values' = [values EXCEPT ![n][n] = value]
        /\ links' = Publish(links, n, joined[n], [type |-> "value", number |-> value])
  /\ stage' = [stage EXCEPT ![t] = "sum"]
  /\ UNCHANGED <<life, result, shown, joined, disturbed, partings>>

\* sum: the counters that a node sees, added up.
Sum(counters) == MapThenSumSet(LAMBDA m : counters[m], Nodes)

Total(n) == Sum(values[n])

\* Slip: a node counts its own users only.
SumOwn(t) ==
  /\ stage[t] = "sum"
  /\ result' = [result EXCEPT ![t] = values[Here(t)][Here(t)]]
  /\ stage' = [stage EXCEPT ![t] = "publish"]
  /\ UNCHANGED <<life, values, shown, links, joined, disturbed, partings>>

\* The first half of broadcastUserCount ...
SumUp(t) ==
  /\ stage[t] = "sum"
  /\ result' = [result EXCEPT ![t] = Total(Here(t))]
  /\ stage' = [stage EXCEPT ![t] = "publish"]
  /\ UNCHANGED <<life, values, shown, links, joined, disturbed, partings>>

\* The clients of n replace the count they show.
Shown(n, number) ==
  [s \in Sessions |->
     IF NodeOf[s] = n /\ life[s] = "open" /\ stage[<<"init", s>>] # "none"
     THEN number ELSE shown[s]]

\* ... and the second one.
PublishCount(t) ==
  /\ stage[t] = "publish"
  /\ shown' = Shown(Here(t), result[t])
  /\ links' = Publish(links, Here(t), joined[Here(t)], [type |-> "count", number |-> result[t]])
  /\ stage' = [stage EXCEPT ![t] = "done"]
  /\ result' = [result EXCEPT ![t] = 0]
  /\ UNCHANGED <<life, values, joined, disturbed, partings>>

-----------------------------------------------------------------------------
\* What goes on between nodes.

ReceiveValue(m, n) ==
  /\ links[m][n] # <<>> /\ Head(links[m][n]).type \in {"value", "left"}
  /\ LET msg == Head(links[m][n])
     IN values' = [values EXCEPT ![n][m] = IF msg.type = "left" THEN 0 ELSE msg.number]
  /\ links' = Consume(links, m, n)
  /\ UNCHANGED <<life, stage, result, shown, joined, disturbed, partings>>

ReceiveCount(m, n) ==
  /\ links[m][n] # <<>> /\ Head(links[m][n]).type = "count"
  /\ shown' = Shown(n, Head(links[m][n]).number)
  /\ links' = Consume(links, m, n)
  /\ UNCHANGED <<life, stage, result, values, joined, disturbed, partings>>

\* The sessions that two nodes have with each other are removed as well, but
\* are not users: sessionRemoved ignores them.
NodesPart(m, n) ==
  /\ n \in joined[m]
  /\ partings < MaxPartings
  /\ links' = Sever(links, m, n, [type |-> "left"])
  /\ joined' = Part(joined, m, n)
  /\ disturbed' = Nodes
  /\ partings' = partings + 1
  /\ UNCHANGED <<life, stage, result, values, shown>>

NodesJoin(m, n) ==
  /\ m # n /\ n \notin joined[m]
  /\ links' = Exchange(links, m, n, [type |-> "value", number |-> values[m][m]],
                       [type |-> "value", number |-> values[n][n]])
  /\ joined' = Join(joined, m, n)
  /\ disturbed' = Nodes
  /\ UNCHANGED <<life, stage, result, values, shown, partings>>

-----------------------------------------------------------------------------

Step(t) == AddAndGet(t) \/ SumUp(t) \/ PublishCount(t)

Next ==
  \/ \E s \in Sessions : Connect(s) \/ Process(s) \/ SessionRemoved(s)
  \/ \E t \in Threads : Step(t)
  \/ \E m, n \in Nodes : ReceiveValue(m, n) \/ ReceiveCount(m, n)
  \/ \E m, n \in Nodes : NodesPart(m, n) \/ NodesJoin(m, n)

Spec == Init /\ [][Next]_vars

-----------------------------------------------------------------------------
\* Properties.

\* At rest the counter of a node is the number of its users that are connected
\* and have announced themselves ("the number of connected users per node",
\* UserCountService).  A session that ends before it sent /service/init was
\* never added and is subtracted all the same.
Announced(n) ==
  {s \in Sessions : NodeOf[s] = n /\ life[s] = "open" /\ stage[<<"init", s>>] = "done"}

CountsConnected == AtRest => \A n \in Nodes : values[n][n] = Cardinality(Announced(n))

\* At rest the nodes that are joined agree on each other's counters, and a
\* node that has left counts for nothing.
NodesAgree ==
  AtRest => \A m, n \in Nodes : m # n =>
    values[n][m] = IF n \in joined[m] THEN values[m][m] ELSE 0

\* Once a change has come to its end that no other one overlapped, all the
\* clients of the nodes that see the same nodes show the sum, whatever they
\* showed before.  Of two changes at once the older sum may be published last,
\* or on each node one without the other; nothing is published when a node
\* comes or goes; and a node publishes its own sum to nodes that count others.
ShowsTotal ==
  AtRest => \A s \in Sessions :
    \/ life[s] # "open" \/ stage[<<"init", s>>] = "none"
    \/ NodeOf[s] \in disturbed
    \/ shown[s] = Total(NodeOf[s])
=============================================================================
