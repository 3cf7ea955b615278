-------------------------- MODULE UserCountProofs --------------------------
(***************************************************************************)
(* Proofs about UserCount, for any nodes, sessions and bounds: a counter   *)
(* is the number of the users of its node, and what is under way brings    *)
(* the copies of a counter to the counter.                                 *)
(*                                                                         *)
(* The sums that nodes publish need no type here: they are in some set W   *)
(* of numbers and whatever else a sum may be, which grows as it has to.    *)
(***************************************************************************)
EXTENDS UserCount, FiniteSetTheorems, SequenceTheorems, TLAPS

-----------------------------------------------------------------------------
\* What the operators of OortLinks do to the queues between nodes, for any set
\* of messages.  No other proof of this module opens them.

\* One entry of a table is replaced and the others stay.
LEMMA TableUpdate ==
  ASSUME NEW S, NEW T, NEW V, NEW f \in [S -> [T -> V]],
         NEW i \in S, NEW j \in T, NEW v \in V
  PROVE  /\ [f EXCEPT ![i][j] = v] \in [S -> [T -> V]]
         /\ \A a \in S, b \in T :
              [f EXCEPT ![i][j] = v][a][b] = IF a = i /\ b = j THEN v ELSE f[a][b]
  OBVIOUS

\* In the beginning nothing is under way and every two nodes are joined.
LEMMA InitialLinks ==
  ASSUME NEW M
  PROVE  /\ NoLinks \in LinksOf(M)
         /\ \A m, n \in Nodes : NoLinks[m][n] = <<>>
         /\ AllJoined \in [Nodes -> SUBSET Nodes]
         /\ \A m, n \in Nodes : n \in AllJoined[m] <=> n # m
         /\ NoLoop(NoLinks, AllJoined)
  BY DEF NoLinks, AllJoined, LinksOf, NoLoop

\* Publishing appends to the queues from the sender to the nodes it reaches.
LEMMA PublishLinks ==
  ASSUME NEW M, NEW queues \in LinksOf(M), NEW m \in Nodes, NEW S, NEW msg \in M
  PROVE  /\ Publish(queues, m, S, msg) \in LinksOf(M)
         /\ \A a, b \in Nodes : Publish(queues, m, S, msg)[a][b] =
              IF a = m /\ b \in S THEN Append(queues[a][b], msg) ELSE queues[a][b]
<1> DEFINE row == [n \in Nodes |-> IF n \in S THEN Append(queues[m][n], msg) ELSE queues[m][n]]
<1>1. queues[m] \in [Nodes -> Seq(M)]
  BY DEF LinksOf
<1>2. \A n \in Nodes : queues[m][n] \in Seq(M) /\ Append(queues[m][n], msg) \in Seq(M)
  BY <1>1
<1>3. row \in [Nodes -> Seq(M)]
  BY <1>2
<1>4. Publish(queues, m, S, msg) = [queues EXCEPT ![m] = row]
  BY DEF Publish
<1> HIDE DEF row
<1>5. [queues EXCEPT ![m] = row] \in LinksOf(M)
  BY <1>3 DEF LinksOf
<1>6. \A a, b \in Nodes : [queues EXCEPT ![m] = row][a][b] = IF a = m THEN row[b] ELSE queues[a][b]
  BY DEF LinksOf
<1>7. \A b \in Nodes : row[b] = IF b \in S THEN Append(queues[m][b], msg) ELSE queues[m][b]
  BY DEF row
<1> QED
  BY <1>4, <1>5, <1>6, <1>7

\* Consuming drops the oldest message of one queue.
LEMMA ConsumeLinks ==
  ASSUME NEW M, NEW queues \in LinksOf(M), NEW m \in Nodes, NEW n \in Nodes,
         queues[m][n] # <<>>
  PROVE  /\ Consume(queues, m, n) \in LinksOf(M)
         /\ Head(queues[m][n]) \in M
         /\ \A a, b \in Nodes : Consume(queues, m, n)[a][b] =
              IF a = m /\ b = n THEN Tail(queues[a][b]) ELSE queues[a][b]
<1>1. queues[m][n] \in Seq(M)
  BY DEF LinksOf
<1>2. Tail(queues[m][n]) \in Seq(M) /\ Head(queues[m][n]) \in M
  BY <1>1
<1> QED
  BY <1>2 DEF Consume, LinksOf

\* When two nodes part, each one's queue to the other is the farewell alone.
LEMMA SeverLinks ==
  ASSUME NEW M, NEW queues \in LinksOf(M), NEW m \in Nodes, NEW n \in Nodes,
         m # n, NEW left \in M
  PROVE  /\ Sever(queues, m, n, left) \in LinksOf(M)
         /\ \A a, b \in Nodes : Sever(queues, m, n, left)[a][b] =
              IF (a = m /\ b = n) \/ (a = n /\ b = m) THEN <<left>> ELSE queues[a][b]
<1>1. <<left>> \in Seq(M)
  OBVIOUS
<1> QED
  BY <1>1 DEF Sever, LinksOf

\* When two nodes join, each one's object is the last message to the other.
LEMMA ExchangeLinks ==
  ASSUME NEW M, NEW queues \in LinksOf(M), NEW m \in Nodes, NEW n \in Nodes,
         m # n, NEW ofM \in M, NEW ofN \in M
  PROVE  /\ Exchange(queues, m, n, ofM, ofN) \in LinksOf(M)
         /\ \A a, b \in Nodes : Exchange(queues, m, n, ofM, ofN)[a][b] =
              IF a = m /\ b = n THEN Append(queues[a][b], ofM)
              ELSE IF a = n /\ b = m THEN Append(queues[a][b], ofN)
              ELSE queues[a][b]
<1> DEFINE toN == Append(queues[m][n], ofM)
           toM == Append(queues[n][m], ofN)
<1>1. queues[m][n] \in Seq(M) /\ queues[n][m] \in Seq(M)
  BY DEF LinksOf
<1>2. toN \in Seq(M) /\ toM \in Seq(M)
  BY <1>1
<1>3. Exchange(queues, m, n, ofM, ofN) = [queues EXCEPT ![m][n] = toN, ![n][m] = toM]
  BY DEF Exchange
<1>4. \A a, b \in Nodes :
        /\ a = m /\ b = n => toN = Append(queues[a][b], ofM)
        /\ a = n /\ b = m => toM = Append(queues[a][b], ofN)
  OBVIOUS
<1> HIDE DEF toN, toM
<1>5. [queues EXCEPT ![m][n] = toN, ![n][m] = toM] \in LinksOf(M)
  BY <1>2 DEF LinksOf
<1>6. \A a, b \in Nodes : [queues EXCEPT ![m][n] = toN, ![n][m] = toM][a][b] =
        IF a = m /\ b = n THEN toN ELSE IF a = n /\ b = m THEN toM ELSE queues[a][b]
  BY SMTT(30) DEF LinksOf
<1> QED
  BY ZenonT(30), <1>3, <1>4, <1>5, <1>6

\* Parting and joining concern the two nodes only, and both of them.
LEMMA JoinedNodes ==
  ASSUME NEW reach \in [Nodes -> SUBSET Nodes], NEW m \in Nodes, NEW n \in Nodes,
         m # n
  PROVE  /\ Part(reach, m, n) \in [Nodes -> SUBSET Nodes]
         /\ Join(reach, m, n) \in [Nodes -> SUBSET Nodes]
         /\ \A a, b \in Nodes :
              /\ b \in Part(reach, m, n)[a] <=>
                   b \in reach[a] /\ ~ (a = m /\ b = n) /\ ~ (a = n /\ b = m)
              /\ b \in Join(reach, m, n)[a] <=>
                   b \in reach[a] \/ (a = m /\ b = n) \/ (a = n /\ b = m)
  BY DEF Part, Join

-----------------------------------------------------------------------------
Numbered(W) == [type : {"value", "count"}, number : W] \cup [type : {"left"}]

Stages == {"none", "change", "sum", "publish", "done"}

Typed(W) ==
  /\ Int \subseteq W
  /\ life \in [Sessions -> {"new", "open", "gone"}]
  /\ stage \in [Threads -> Stages]
  /\ values \in [Nodes -> [Nodes -> W]]
  /\ links \in LinksOf(Numbered(W))
  /\ joined \in [Nodes -> SUBSET Nodes]
  /\ NoLoop(links, joined)

\* The removal of a session begins when the session goes, and once.
RemovedOnce == \A s \in Sessions : life[s] # "gone" => stage[<<"removal", s>>] = "none"

\* The number that a message about a counter carries.
Carried(msg) == IF msg.type = "left" THEN 0 ELSE msg.number

\* Whether a copy that holds held has v once the messages q are processed: the
\* last message about the counter decides.
Decides(q, i) == q[i].type # "count" /\ \A j \in i+1 .. Len(q) : q[j].type = "count"

Brings(q, held, v) ==
  \/ \E i \in 1 .. Len(q) : Decides(q, i) /\ Carried(q[i]) = v
  \/ held = v /\ \A i \in 1 .. Len(q) : q[i].type = "count"

Target(m, n) == IF n \in joined[m] THEN values[m][m] ELSE 0

Converging ==
  \A m, n \in Nodes : m # n => Brings(links[m][n], values[n][m], Target(m, n))

\* How often a counter was changed so far.  It makes every counter a number,
\* which the queues between nodes rest on.
Changed(t) == stage[t] \in {"sum", "publish", "done"}
Counted(n) == {s \in Sessions : NodeOf[s] = n /\ Changed(<<"init", s>>)}
Subtracted(n) == {s \in Sessions : NodeOf[s] = n /\ Changed(<<"removal", s>>)}
Balance == \A n \in Nodes : values[n][n] = Cardinality(Counted(n)) - Cardinality(Subtracted(n))

IInv ==
  /\ \E W : Typed(W)
  /\ RemovedOnce
  /\ Balance
  /\ Converging

-----------------------------------------------------------------------------
\* Queues.

\* A message that is appended decides, unless it is a count.
LEMMA BringsAppended ==
  ASSUME NEW W, NEW q \in Seq(Numbered(W)), NEW msg \in Numbered(W), NEW held, NEW v,
         IF msg.type = "count" THEN Brings(q, held, v) ELSE Carried(msg) = v
  PROVE  Brings(Append(q, msg), held, v)
<1> DEFINE r == Append(q, msg)
<1>1. Len(r) = Len(q) + 1 /\ Len(q) \in Nat /\ r[Len(q) + 1] = msg
  OBVIOUS
<1>2. \A i \in 1 .. Len(q) : r[i] = q[i]
  OBVIOUS
<1> HIDE DEF r
<1>3. CASE msg.type # "count"
  <2>1. Decides(r, Len(r)) /\ Carried(r[Len(r)]) = v
    BY <1>1, <1>3 DEF Decides
  <2> QED
    BY <1>1, <2>1 DEF Brings, r
<1>4. CASE msg.type = "count"
  <2>1. CASE \E i \in 1 .. Len(q) : Decides(q, i) /\ Carried(q[i]) = v
    <3>1. PICK i \in 1 .. Len(q) : Decides(q, i) /\ Carried(q[i]) = v
      BY <2>1
    <3>2. Decides(r, i) /\ Carried(r[i]) = v
      BY <1>1, <1>2, <1>4, <3>1 DEF Decides
    <3> QED
      BY <1>1, <3>2 DEF Brings, r
  <2>2. CASE held = v /\ \A i \in 1 .. Len(q) : q[i].type = "count"
    <3>1. \A i \in 1 .. Len(r) : r[i].type = "count"
      BY <1>1, <1>2, <1>4, <2>2
    <3> QED
      BY <2>2, <3>1 DEF Brings, r
  <2> QED
    BY <1>4, <2>1, <2>2 DEF Brings
<1> QED
  BY <1>3, <1>4

\* The oldest message has its effect on the copy when it is consumed.
LEMMA BringsConsumed ==
  ASSUME NEW W, NEW q \in Seq(Numbered(W)), q # <<>>, NEW held, NEW v, Brings(q, held, v)
  PROVE  Brings(Tail(q), IF Head(q).type = "count" THEN held ELSE Carried(Head(q)), v)
<1> DEFINE r == Tail(q)
           new == IF Head(q).type = "count" THEN held ELSE Carried(Head(q))
<1>1. Len(q) \in Nat \ {0} /\ Len(r) = Len(q) - 1 /\ Head(q) = q[1]
  OBVIOUS
<1>2. \A i \in 1 .. Len(r) : r[i] = q[i + 1]
  OBVIOUS
<1> HIDE DEF r
<1>3. CASE \E i \in 2 .. Len(q) : Decides(q, i) /\ Carried(q[i]) = v
  <2>1. PICK i \in 2 .. Len(q) : Decides(q, i) /\ Carried(q[i]) = v
    BY <1>3
  <2>2. i - 1 \in 1 .. Len(r) /\ r[i - 1] = q[i]
    BY <1>1, <1>2, <2>1
  <2>3. \A j \in i .. Len(r) : r[j] = q[j + 1] /\ j + 1 \in i + 1 .. Len(q)
    BY <1>1, <1>2, <2>1
  <2>4. Decides(r, i - 1)
    BY <2>1, <2>2, <2>3 DEF Decides
  <2> QED
    BY <2>1, <2>2, <2>4 DEF Brings, r
<1>4. CASE Decides(q, 1) /\ Carried(q[1]) = v
  <2>1. \A j \in 1 .. Len(r) : r[j].type = "count"
    BY <1>1, <1>2, <1>4 DEF Decides
  <2>2. new = v
    BY <1>1, <1>4 DEF Decides
  <2> QED
    BY <2>1, <2>2 DEF Brings, r
<1>5. CASE held = v /\ \A i \in 1 .. Len(q) : q[i].type = "count"
  <2>1. \A j \in 1 .. Len(r) : r[j].type = "count"
    BY <1>1, <1>2, <1>5
  <2>2. new = v
    BY <1>1, <1>5
  <2> QED
    BY <2>1, <2>2 DEF Brings, r
<1>6. \A i \in 1 .. Len(q) : i = 1 \/ i \in 2 .. Len(q)
  BY <1>1
<1> QED
  BY <1>3, <1>4, <1>5, <1>6 DEF Brings

\* When nodes part, the farewell decides.
LEMMA BringsLeft ==
  ASSUME NEW held
  PROVE  Brings(<<[type |-> "left"]>>, held, 0)
<1> DEFINE q == <<[type |-> "left"]>>
<1>1. Len(q) = 1 /\ q[1] = [type |-> "left"]
  OBVIOUS
<1> HIDE DEF q
<1>2. Decides(q, 1) /\ Carried(q[1]) = 0
  BY <1>1 DEF Decides, Carried
<1> QED
  BY <1>1, <1>2 DEF Brings, q

\* With nothing under way the copy has it.
LEMMA BringsNothing ==
  ASSUME NEW held, NEW v, Brings(<<>>, held, v)
  PROVE  held = v
  BY DEF Brings

\* A larger W is as good.
LEMMA Wider ==
  ASSUME NEW W, NEW V, Typed(W), W \subseteq V
  PROVE  Typed(V)
<1>1. Numbered(W) \subseteq Numbered(V)
  BY DEF Numbered
<1>2. Seq(Numbered(W)) \subseteq Seq(Numbered(V))
  BY <1>1
<1>3. links \in LinksOf(Numbered(V))
  BY <1>2 DEF Typed, LinksOf
<1>4. values \in [Nodes -> [Nodes -> V]]
  BY DEF Typed
<1> QED
  BY <1>3, <1>4 DEF Typed

-----------------------------------------------------------------------------
\* The threads.

LEMMA HereIsNode ==
  ASSUME NEW t \in Threads
  PROVE  /\ Here(t) \in Nodes
         /\ t[1] \in {"init", "removal"} /\ t[2] \in Sessions /\ t = <<t[1], t[2]>>
  BY UserCountAssumption DEF Threads, Here

\* The counts of users depend on where the threads are.
LEMMA SameCounts ==
  ASSUME \A t \in Threads : Changed(t)' <=> Changed(t),
         \A n \in Nodes : values'[n][n] = values[n][n],
         Balance
  PROVE  Balance'
<1>1. \A s \in Sessions : <<"init", s>> \in Threads /\ <<"removal", s>> \in Threads
  BY DEF Threads
<1>2. \A n \in Nodes : Counted(n)' = Counted(n)
  BY <1>1 DEF Counted, Changed
<1>3. \A n \in Nodes : Subtracted(n)' = Subtracted(n)
  BY <1>1 DEF Subtracted, Changed
<1> QED
  BY <1>2, <1>3 DEF Balance

\* One thread goes on to a stage: what this says of Changed for the others.
LEMMA StageMoves ==
  ASSUME NEW W, Typed(W), NEW t \in Threads, NEW x \in Stages,
         stage' = [stage EXCEPT ![t] = x]
  PROVE  /\ stage' \in [Threads -> Stages]
         /\ stage'[t] = x
         /\ \A u \in Threads : u # t => stage'[u] = stage[u]
  BY DEF Typed

\* A thread that changes the counter adds its session to one of the counts.
LEMMA OneMoreCounted ==
  ASSUME NEW W, Typed(W), NEW s \in Sessions, NEW n, n = NodeOf[s],
         stage[<<"init", s>>] = "change",
         stage' = [stage EXCEPT ![<<"init", s>>] = "sum"]
  PROVE  /\ \A m \in Nodes :
              Cardinality(Counted(m)') = Cardinality(Counted(m)) + (IF m = n THEN 1 ELSE 0)
         /\ \A m \in Nodes : Subtracted(m)' = Subtracted(m)
<1>1. \A r \in Sessions : <<"init", r>> \in Threads /\ <<"removal", r>> \in Threads
  BY DEF Threads
<1>2. /\ stage'[<<"init", s>>] = "sum"
      /\ \A r \in Sessions : r # s => stage'[<<"init", r>>] = stage[<<"init", r>>]
      /\ \A r \in Sessions : stage'[<<"removal", r>>] = stage[<<"removal", r>>]
  BY <1>1 DEF Typed
<1>3. \A m \in Nodes : m = n => Counted(m)' = Counted(m) \cup {s} /\ s \notin Counted(m)
  BY <1>2 DEF Counted, Changed
<1>4. \A m \in Nodes : IsFiniteSet(Counted(m)) /\ Cardinality(Counted(m)) \in Nat
  BY UserCountAssumption, FS_Subset, FS_CardinalityType DEF Counted
<1>5. \A m \in Nodes : m # n => Counted(m)' = Counted(m)
  BY <1>2 DEF Counted, Changed
<1>6. \A m \in Nodes : Subtracted(m)' = Subtracted(m)
  BY <1>2 DEF Subtracted, Changed
<1> QED
  BY <1>3, <1>4, <1>5, <1>6, FS_AddElement

LEMMA OneMoreSubtracted ==
  ASSUME NEW W, Typed(W), NEW s \in Sessions, NEW n, n = NodeOf[s],
         stage[<<"removal", s>>] = "change",
         stage' = [stage EXCEPT ![<<"removal", s>>] = "sum"]
  PROVE  /\ \A m \in Nodes :
              Cardinality(Subtracted(m)') = Cardinality(Subtracted(m)) + (IF m = n THEN 1 ELSE 0)
         /\ \A m \in Nodes : Counted(m)' = Counted(m)
<1>1. \A r \in Sessions : <<"init", r>> \in Threads /\ <<"removal", r>> \in Threads
  BY DEF Threads
<1>2. /\ stage'[<<"removal", s>>] = "sum"
      /\ \A r \in Sessions : r # s => stage'[<<"removal", r>>] = stage[<<"removal", r>>]
      /\ \A r \in Sessions : stage'[<<"init", r>>] = stage[<<"init", r>>]
  BY <1>1 DEF Typed
<1>3. \A m \in Nodes : m = n => Subtracted(m)' = Subtracted(m) \cup {s} /\ s \notin Subtracted(m)
  BY <1>2 DEF Subtracted, Changed
<1>4. \A m \in Nodes : IsFiniteSet(Subtracted(m)) /\ Cardinality(Subtracted(m)) \in Nat
  BY UserCountAssumption, FS_Subset, FS_CardinalityType DEF Subtracted
<1>5. \A m \in Nodes : m # n => Subtracted(m)' = Subtracted(m)
  BY <1>2 DEF Subtracted, Changed
<1>6. \A m \in Nodes : Counted(m)' = Counted(m)
  BY <1>2 DEF Counted, Changed
<1> QED
  BY <1>3, <1>4, <1>5, <1>6, FS_AddElement

\* The counts are numbers, and so are the counters.
LEMMA CountsAreNumbers ==
  ASSUME NEW n \in Nodes, Balance
  PROVE  /\ Cardinality(Counted(n)) \in Nat /\ Cardinality(Subtracted(n)) \in Nat
         /\ values[n][n] \in Int
<1>1. IsFiniteSet(Counted(n)) /\ IsFiniteSet(Subtracted(n))
  BY UserCountAssumption, FS_Subset DEF Counted, Subtracted
<1>2. Cardinality(Counted(n)) \in Nat /\ Cardinality(Subtracted(n)) \in Nat
  BY <1>1, FS_CardinalityType
<1> QED
  BY <1>2 DEF Balance

-----------------------------------------------------------------------------
\* The steps.

\* What the sessions do, and the computation of a sum, leave the counters and
\* what is under way alone.
LEMMA SessionSteps ==
  ASSUME NEW W, Typed(W), RemovedOnce, Balance, Converging,
         \/ \E s \in Sessions : Connect(s) \/ Process(s) \/ SessionRemoved(s)
         \/ \E t \in Threads : SumUp(t)
  PROVE  Typed(W)' /\ RemovedOnce' /\ Balance' /\ Converging'
<1>1. values' = values /\ links' = links /\ joined' = joined
  BY DEF Connect, Process, SessionRemoved, SumUp
<1>2. \A s \in Sessions : <<"init", s>> \in Threads /\ <<"removal", s>> \in Threads
  BY DEF Threads
<1>3. /\ life' \in [Sessions -> {"new", "open", "gone"}]
      /\ stage' \in [Threads -> Stages]
      /\ RemovedOnce'
      /\ \A t \in Threads : Changed(t)' <=> Changed(t)
  <2>1. CASE \E s \in Sessions : Connect(s)
    BY <2>1 DEF Connect, Typed, RemovedOnce, Changed
  <2>2. CASE \E s \in Sessions : Process(s)
    <3>1. PICK s \in Sessions : Process(s)
      BY <2>2
    <3>2. stage' = [stage EXCEPT ![<<"init", s>>] = "change"] /\ life' = life
      BY <3>1 DEF Process, Starts
    <3>3. /\ stage' \in [Threads -> Stages] /\ stage'[<<"init", s>>] = "change"
          /\ \A u \in Threads : u # <<"init", s>> => stage'[u] = stage[u]
      BY <1>2, <3>2, StageMoves DEF Stages
    <3>4. stage[<<"init", s>>] = "none"
      BY <3>1 DEF Process
    <3>5. RemovedOnce'
      BY <1>2, <3>2, <3>3 DEF RemovedOnce
    <3>6. \A t \in Threads : Changed(t)' <=> Changed(t)
      BY <3>3, <3>4 DEF Changed
    <3> QED
      BY <3>2, <3>3, <3>5, <3>6 DEF Typed
  <2>3. CASE \E s \in Sessions : SessionRemoved(s)
    <3>1. PICK s \in Sessions : SessionRemoved(s)
      BY <2>3
    <3>2. /\ stage' = [stage EXCEPT ![<<"removal", s>>] = "change"]
          /\ life[s] = "open" /\ life' = [life EXCEPT ![s] = "gone"]
      BY <3>1 DEF SessionRemoved, Starts
    <3>3. /\ stage' \in [Threads -> Stages] /\ stage'[<<"removal", s>>] = "change"
          /\ \A u \in Threads : u # <<"removal", s>> => stage'[u] = stage[u]
      BY <1>2, <3>2, StageMoves DEF Stages
    <3>4. stage[<<"removal", s>>] = "none"
      BY <3>2 DEF RemovedOnce
    <3>5. /\ life' \in [Sessions -> {"new", "open", "gone"}] /\ life'[s] = "gone"
          /\ \A r \in Sessions : r # s => life'[r] = life[r]
      BY <3>2 DEF Typed
    <3>6. RemovedOnce'
      BY <1>2, <3>3, <3>5 DEF RemovedOnce
    <3>7. \A t \in Threads : Changed(t)' <=> Changed(t)
      BY <3>3, <3>4 DEF Changed
    <3> QED
      BY <3>3, <3>5, <3>6, <3>7
  <2>4. CASE \E t \in Threads : SumUp(t)
    <3>1. PICK t \in Threads : SumUp(t)
      BY <2>4
    <3>2. /\ stage[t] = "sum" /\ stage' = [stage EXCEPT ![t] = "publish"] /\ life' = life
      BY <3>1 DEF SumUp
    <3>3. /\ stage' \in [Threads -> Stages] /\ stage'[t] = "publish"
          /\ \A u \in Threads : u # t => stage'[u] = stage[u]
      BY <3>2, StageMoves DEF Stages
    <3>4. RemovedOnce'
      BY <1>2, <3>2, <3>3 DEF RemovedOnce
    <3>5. \A u \in Threads : Changed(u)' <=> Changed(u)
      BY <3>2, <3>3 DEF Changed
    <3> QED
      BY <3>2, <3>3, <3>4, <3>5 DEF Typed
  <2> QED
    BY <2>1, <2>2, <2>3, <2>4
<1>4. Typed(W)'
  BY <1>1, <1>3 DEF Typed
<1>5. Balance'
  BY <1>1, <1>3, SameCounts
<1>6. Converging'
  BY <1>1 DEF Converging, Target
<1> QED
  BY <1>3, <1>4, <1>5, <1>6

\* The counter of a node changes, its copies follow by the message.
LEMMA AddStep ==
  ASSUME NEW W, Typed(W), RemovedOnce, Balance, Converging,
         NEW t \in Threads, AddAndGet(t)
  PROVE  Typed(W)' /\ RemovedOnce' /\ Balance' /\ Converging'
<1>1. PICK n \in Nodes : /\ n = Here(t) /\ n = NodeOf[t[2]]
                         /\ t[1] \in {"init", "removal"} /\ t[2] \in Sessions
                         /\ t = <<t[1], t[2]>>
  BY HereIsNode DEF Here
<1> DEFINE value == values[n][n] + (IF t[1] = "init" THEN 1 ELSE -1)
           msg == [type |-> "value", number |-> value]
<1>2. value \in Int
  BY <1>1, CountsAreNumbers
<1>3. /\ stage[t] = "change" /\ stage' = [stage EXCEPT ![t] = "sum"]
      /\ values' = [values EXCEPT ![n][n] = value]
      /\ links' = Publish(links, n, joined[n], msg)
      /\ joined' = joined /\ life' = life
  BY <1>1 DEF AddAndGet
<1>4. value \in W /\ msg \in Numbered(W) /\ msg.type # "count" /\ Carried(msg) = value
  BY <1>2 DEF Typed, Numbered, Carried
<1> HIDE DEF msg, value
<1>5. /\ values' \in [Nodes -> [Nodes -> W]]
      /\ \A a, b \in Nodes : values'[a][b] = IF a = n /\ b = n THEN value ELSE values[a][b]
  <2>1. values \in [Nodes -> [Nodes -> W]]
    BY DEF Typed
  <2>2. /\ [values EXCEPT ![n][n] = value] \in [Nodes -> [Nodes -> W]]
        /\ \A a, b \in Nodes : [values EXCEPT ![n][n] = value][a][b] =
             IF a = n /\ b = n THEN value ELSE values[a][b]
    BY <1>4, <2>1
  <2> QED
    BY <1>3, <2>2
<1>6. /\ links' \in LinksOf(Numbered(W))
      /\ \A a, b \in Nodes : links'[a][b] =
           IF a = n /\ b \in joined[n] THEN Append(links[a][b], msg) ELSE links[a][b]
  BY <1>1, <1>3, <1>4, PublishLinks DEF Typed
<1>7. NoLoop(links, joined)'
  BY <1>3, <1>6 DEF Typed, NoLoop
<1>8. /\ stage' \in [Threads -> Stages] /\ stage'[t] = "sum"
      /\ \A u \in Threads : u # t => stage'[u] = stage[u]
  BY <1>3, StageMoves DEF Stages
<1>9. Typed(W)'
  BY <1>3, <1>5, <1>6, <1>7, <1>8 DEF Typed
<1>10. RemovedOnce'
  <2>1. \A s \in Sessions : <<"removal", s>> \in Threads
    BY DEF Threads
  <2> QED
    BY <1>3, <1>8, <2>1 DEF RemovedOnce
<1>11. Balance'
  <2>1. \A m \in Nodes : /\ Cardinality(Counted(m)) \in Nat
                         /\ Cardinality(Subtracted(m)) \in Nat
                         /\ values[m][m] = Cardinality(Counted(m)) - Cardinality(Subtracted(m))
    BY CountsAreNumbers DEF Balance
  <2>2. CASE t[1] = "init"
    <3>1. /\ \A m \in Nodes :
               Cardinality(Counted(m)') = Cardinality(Counted(m)) + (IF m = n THEN 1 ELSE 0)
          /\ \A m \in Nodes : Subtracted(m)' = Subtracted(m)
      BY <1>1, <1>3, <2>2, OneMoreCounted
    <3>2. value = values[n][n] + 1
      BY <2>2 DEF value
    <3>3. \A m \in Nodes : values'[m][m] = Cardinality(Counted(m)') - Cardinality(Subtracted(m)')
      BY <1>1, <1>5, <2>1, <3>1, <3>2
    <3> QED
      BY <3>3 DEF Balance
  <2>3. CASE t[1] = "removal"
    <3>1. /\ \A m \in Nodes :
               Cardinality(Subtracted(m)') = Cardinality(Subtracted(m)) + (IF m = n THEN 1 ELSE 0)
          /\ \A m \in Nodes : Counted(m)' = Counted(m)
      BY <1>1, <1>3, <2>3, OneMoreSubtracted
    <3>2. value = values[n][n] - 1
      BY <1>1, <2>1, <2>3 DEF value
    <3>3. \A m \in Nodes : values'[m][m] = Cardinality(Counted(m)') - Cardinality(Subtracted(m)')
      BY <1>1, <1>5, <2>1, <3>1, <3>2
    <3> QED
      BY <3>3 DEF Balance
  <2> QED
    BY <1>1, <2>2, <2>3
<1>12. Converging'
  <2> SUFFICES ASSUME NEW a \in Nodes, NEW b \in Nodes, a # b
               PROVE  Brings(links'[a][b], values'[b][a], Target(a, b)')
    BY DEF Converging
  <2>1. Brings(links[a][b], values[b][a], Target(a, b)) /\ links[a][b] \in Seq(Numbered(W))
    BY DEF Converging, Typed, LinksOf
  <2>2. values'[b][a] = values[b][a]
    BY <1>5
  <2>3. CASE a = n /\ b \in joined[n]
    <3>1. Target(a, b)' = value
      BY <1>3, <1>5, <2>3 DEF Target
    <3>2. links'[a][b] = Append(links[a][b], msg)
      BY <1>6, <2>3
    <3> QED
      BY <1>4, <2>1, <3>1, <3>2, BringsAppended
  <2>4. CASE ~ (a = n /\ b \in joined[n])
    <3>1. Target(a, b)' = Target(a, b)
      BY <1>3, <1>5, <2>4 DEF Target
    <3>2. links'[a][b] = links[a][b]
      BY <1>6, <2>4
    <3> QED
      BY <2>1, <2>2, <3>1, <3>2
  <2> QED
    BY <2>3, <2>4
<1> QED
  BY <1>9, <1>10, <1>11, <1>12

\* A sum is published: the counters are left alone, and so is what is under
\* way about them.
LEMMA PublishStep ==
  ASSUME NEW W, Typed(W), RemovedOnce, Balance, Converging,
         NEW t \in Threads, PublishCount(t), result[t] \in W
  PROVE  Typed(W)' /\ RemovedOnce' /\ Balance' /\ Converging'
<1> DEFINE n == Here(t)
           msg == [type |-> "count", number |-> result[t]]
<1>1. n \in Nodes
  BY HereIsNode
<1>2. /\ stage[t] = "publish" /\ stage' = [stage EXCEPT ![t] = "done"]
      /\ links' = Publish(links, n, joined[n], msg)
      /\ values' = values /\ joined' = joined /\ life' = life
  BY DEF PublishCount
<1>3. msg \in Numbered(W) /\ msg.type = "count"
  BY DEF Numbered
<1> HIDE DEF n, msg
<1>4. /\ links' \in LinksOf(Numbered(W))
      /\ \A a, b \in Nodes : links'[a][b] =
           IF a = n /\ b \in joined[n] THEN Append(links[a][b], msg) ELSE links[a][b]
  BY <1>1, <1>2, <1>3, PublishLinks DEF Typed
<1>5. NoLoop(links, joined)'
  BY <1>2, <1>4 DEF Typed, NoLoop
<1>6. /\ stage' \in [Threads -> Stages] /\ stage'[t] = "done"
      /\ \A u \in Threads : u # t => stage'[u] = stage[u]
  BY <1>2, StageMoves DEF Stages
<1>7. Typed(W)'
  BY <1>2, <1>4, <1>5, <1>6 DEF Typed
<1>8. RemovedOnce'
  <2>1. \A s \in Sessions : <<"removal", s>> \in Threads
    BY DEF Threads
  <2> QED
    BY <1>2, <1>6, <2>1 DEF RemovedOnce
<1>9. Balance'
  <2>1. \A u \in Threads : Changed(u)' <=> Changed(u)
    BY <1>2, <1>6 DEF Changed
  <2> QED
    BY <1>2, <2>1, SameCounts
<1>10. Converging'
  <2> SUFFICES ASSUME NEW a \in Nodes, NEW b \in Nodes, a # b
               PROVE  Brings(links'[a][b], values'[b][a], Target(a, b)')
    BY DEF Converging
  <2>1. Brings(links[a][b], values[b][a], Target(a, b)) /\ links[a][b] \in Seq(Numbered(W))
    BY DEF Converging, Typed, LinksOf
  <2>2. values'[b][a] = values[b][a] /\ Target(a, b)' = Target(a, b)
    BY <1>2 DEF Target
  <2>3. Brings(Append(links[a][b], msg), values[b][a], Target(a, b))
    BY <1>3, <2>1, BringsAppended
  <2> QED
    BY <1>4, <2>1, <2>2, <2>3
<1> QED
  BY <1>7, <1>8, <1>9, <1>10

\* A message is processed.
LEMMA ReceiveStep ==
  ASSUME NEW W, Typed(W), RemovedOnce, Balance, Converging,
         NEW m \in Nodes, NEW n \in Nodes, ReceiveValue(m, n) \/ ReceiveCount(m, n)
  PROVE  Typed(W)' /\ RemovedOnce' /\ Balance' /\ Converging'
<1> DEFINE msg == Head(links[m][n])
           copy == IF msg.type = "count" THEN values[n][m] ELSE Carried(msg)
<1>1. /\ links[m][n] # <<>> /\ links' = Consume(links, m, n)
      /\ stage' = stage /\ joined' = joined /\ life' = life
  BY DEF ReceiveValue, ReceiveCount
<1>2. m # n
  BY <1>1 DEF Typed, NoLoop
<1>3. /\ links' \in LinksOf(Numbered(W)) /\ msg \in Numbered(W)
      /\ \A a, b \in Nodes : links'[a][b] =
           IF a = m /\ b = n THEN Tail(links[a][b]) ELSE links[a][b]
  BY <1>1, ConsumeLinks DEF Typed
<1>4. copy \in W
  BY <1>3 DEF Numbered, Carried, Typed
<1>5. /\ values' \in [Nodes -> [Nodes -> W]]
      /\ \A a, b \in Nodes : values'[a][b] = IF a = n /\ b = m THEN copy ELSE values[a][b]
  <2>1. CASE ReceiveValue(m, n)
    <3>1. values' = [values EXCEPT ![n][m] = copy]
      BY <2>1 DEF ReceiveValue, Carried
    <3>2. values \in [Nodes -> [Nodes -> W]]
      BY DEF Typed
    <3> HIDE DEF copy
    <3> QED
      BY ZenonT(30), <1>4, <3>1, <3>2, TableUpdate
  <2>2. CASE ReceiveCount(m, n)
    BY <2>2 DEF ReceiveCount, Typed
  <2> QED
    BY <2>1, <2>2
<1>6. Typed(W)'
  <2>1. NoLoop(links, joined)'
    <3>1. NoLoop(links, joined)
      BY DEF Typed
    <3> QED
      BY <1>1, <1>2, <1>3, <3>1 DEF NoLoop
  <2> QED
    BY <1>1, <1>3, <1>5, <2>1 DEF Typed
<1>7. RemovedOnce'
  BY <1>1 DEF RemovedOnce
<1>8. Balance'
  BY <1>1, <1>2, <1>5, SameCounts DEF Changed
<1>9. Converging'
  <2> SUFFICES ASSUME NEW a \in Nodes, NEW b \in Nodes, a # b
               PROVE  Brings(links'[a][b], values'[b][a], Target(a, b)')
    BY DEF Converging
  <2>1. Brings(links[a][b], values[b][a], Target(a, b)) /\ links[a][b] \in Seq(Numbered(W))
    BY DEF Converging, Typed, LinksOf
  <2>2. Target(a, b)' = Target(a, b)
    BY <1>1, <1>2, <1>5 DEF Target
  <2>3. CASE a = m /\ b = n
    BY <1>1, <1>3, <1>5, <2>1, <2>2, <2>3, BringsConsumed
  <2>4. CASE ~ (a = m /\ b = n)
    BY <1>3, <1>5, <2>1, <2>2, <2>4
  <2> QED
    BY <2>3, <2>4
<1> QED
  BY <1>6, <1>7, <1>8, <1>9

\* Two nodes part: each will forget the counter of the other.
LEMMA PartStep ==
  ASSUME NEW W, Typed(W), RemovedOnce, Balance, Converging,
         NEW m \in Nodes, NEW n \in Nodes, NodesPart(m, n)
  PROVE  Typed(W)' /\ RemovedOnce' /\ Balance' /\ Converging'
<1>1. /\ links' = Sever(links, m, n, [type |-> "left"]) /\ joined' = Part(joined, m, n)
      /\ stage' = stage /\ values' = values /\ life' = life
  BY DEF NodesPart
<1>2. m # n
  BY DEF NodesPart, Typed, NoLoop
<1>3. [type |-> "left"] \in Numbered(W)
  BY DEF Numbered
<1>4. /\ links' \in LinksOf(Numbered(W))
      /\ \A a, b \in Nodes : links'[a][b] =
           IF (a = m /\ b = n) \/ (a = n /\ b = m) THEN <<[type |-> "left"]>> ELSE links[a][b]
  BY SMTT(30), <1>1, <1>2, <1>3, SeverLinks DEF Typed
<1>5. /\ joined' \in [Nodes -> SUBSET Nodes]
      /\ \A a, b \in Nodes : b \in joined'[a] <=>
           b \in joined[a] /\ ~ (a = m /\ b = n) /\ ~ (a = n /\ b = m)
  <2>1. joined \in [Nodes -> SUBSET Nodes]
    BY DEF Typed
  <2> QED
    BY <1>1, <1>2, <2>1, JoinedNodes
<1>6. Typed(W)'
  <2>1. NoLoop(links, joined)'
    <3>1. \A a \in Nodes : a \notin joined[a] /\ links[a][a] = <<>>
      BY DEF Typed, NoLoop
    <3>2. \A a \in Nodes : a \notin joined'[a] /\ links'[a][a] = <<>>
      BY <1>2, <1>4, <1>5, <3>1
    <3> QED
      BY <3>2 DEF NoLoop
  <2> QED
    BY <1>1, <1>4, <1>5, <2>1 DEF Typed
<1>7. RemovedOnce'
  BY <1>1 DEF RemovedOnce
<1>8. Balance'
  BY <1>1, SameCounts DEF Changed
<1>9. Converging'
  <2> SUFFICES ASSUME NEW a \in Nodes, NEW b \in Nodes, a # b
               PROVE  Brings(links'[a][b], values'[b][a], Target(a, b)')
    BY DEF Converging
  <2>1. Brings(links[a][b], values[b][a], Target(a, b))
    BY DEF Converging
  <2>2. CASE (a = m /\ b = n) \/ (a = n /\ b = m)
    <3>1. Target(a, b)' = 0
      BY <1>5, <2>2 DEF Target
    <3>2. links'[a][b] = <<[type |-> "left"]>>
      BY <1>4, <2>2
    <3> QED
      BY <3>1, <3>2, BringsLeft
  <2>3. CASE ~ ((a = m /\ b = n) \/ (a = n /\ b = m))
    <3>1. Target(a, b)' = Target(a, b)
      BY <1>1, <1>5, <2>3 DEF Target
    <3> QED
      BY <1>1, <1>4, <2>1, <2>3, <3>1
  <2> QED
    BY <2>2, <2>3
<1> QED
  BY <1>6, <1>7, <1>8, <1>9

\* Two nodes join: each will know the counter of the other.
LEMMA JoinStep ==
  ASSUME NEW W, Typed(W), RemovedOnce, Balance, Converging,
         NEW m \in Nodes, NEW n \in Nodes, NodesJoin(m, n)
  PROVE  Typed(W)' /\ RemovedOnce' /\ Balance' /\ Converging'
<1> DEFINE Value(k) == [type |-> "value", number |-> values[k][k]]
<1>1. /\ links' = Exchange(links, m, n, Value(m), Value(n)) /\ joined' = Join(joined, m, n)
      /\ stage' = stage /\ values' = values /\ life' = life /\ m # n
  BY DEF NodesJoin
<1>2. \A k \in Nodes : /\ Value(k) \in Numbered(W) /\ Value(k).type # "count"
                       /\ Carried(Value(k)) = values[k][k]
  BY DEF Typed, Numbered, Carried
<1> HIDE DEF Value
<1>3. /\ links' \in LinksOf(Numbered(W))
      /\ \A a, b \in Nodes : links'[a][b] =
           IF a = m /\ b = n THEN Append(links[a][b], Value(m))
           ELSE IF a = n /\ b = m THEN Append(links[a][b], Value(n))
           ELSE links[a][b]
  <2>1. links \in LinksOf(Numbered(W))
    BY DEF Typed
  <2>2. Value(m) \in Numbered(W) /\ Value(n) \in Numbered(W)
    BY <1>2
  <2> QED
    BY SMTT(30), <1>1, <2>1, <2>2, ExchangeLinks
<1>4. /\ joined' \in [Nodes -> SUBSET Nodes]
      /\ \A a, b \in Nodes : b \in joined'[a] <=>
           b \in joined[a] \/ (a = m /\ b = n) \/ (a = n /\ b = m)
  BY <1>1, JoinedNodes DEF Typed
<1>5. Typed(W)'
  BY <1>1, <1>3, <1>4 DEF Typed, NoLoop
<1>6. RemovedOnce'
  BY <1>1 DEF RemovedOnce
<1>7. Balance'
  BY <1>1, SameCounts DEF Changed
<1>8. Converging'
  <2> SUFFICES ASSUME NEW a \in Nodes, NEW b \in Nodes, a # b
               PROVE  Brings(links'[a][b], values'[b][a], Target(a, b)')
    BY DEF Converging
  <2>1. Brings(links[a][b], values[b][a], Target(a, b)) /\ links[a][b] \in Seq(Numbered(W))
    BY DEF Converging, Typed, LinksOf
  <2>2. CASE (a = m /\ b = n) \/ (a = n /\ b = m)
    <3>1. Target(a, b)' = values[a][a]
      BY <1>1, <1>4, <2>2 DEF Target
    <3>2. links'[a][b] = Append(links[a][b], Value(a))
      BY <1>1, <1>3, <2>2
    <3>3. Brings(Append(links[a][b], Value(a)), values[b][a], values[a][a])
      BY <1>2, <2>1, BringsAppended
    <3> QED
      BY <1>1, <3>1, <3>2, <3>3
  <2>3. CASE ~ ((a = m /\ b = n) \/ (a = n /\ b = m))
    <3>1. Target(a, b)' = Target(a, b)
      BY <1>1, <1>4, <2>3 DEF Target
    <3> QED
      BY <1>1, <1>3, <2>1, <2>3, <3>1
  <2> QED
    BY <2>2, <2>3
<1> QED
  BY <1>5, <1>6, <1>7, <1>8

-----------------------------------------------------------------------------
\* The invariant.

LEMMA InitIInv == Init => IInv
<1> SUFFICES ASSUME Init PROVE IInv
  OBVIOUS
<1>1. /\ links \in LinksOf(Numbered(Int)) /\ joined \in [Nodes -> SUBSET Nodes]
      /\ \A m, n \in Nodes : links[m][n] = <<>> /\ (n \in joined[m] <=> n # m)
      /\ NoLoop(links, joined)
  BY InitialLinks DEF Init
<1>2. /\ values = [n \in Nodes |-> [m \in Nodes |-> 0]]
      /\ stage = [t \in Threads |-> "none"] /\ life = [s \in Sessions |-> "new"]
  BY DEF Init
<1>3. Typed(Int)
  BY <1>1, <1>2 DEF Typed, Stages
<1>4. \A s \in Sessions : <<"init", s>> \in Threads /\ <<"removal", s>> \in Threads
  BY DEF Threads
<1>5. RemovedOnce
  BY <1>2, <1>4 DEF RemovedOnce
<1>6. Balance
  <2>1. \A n \in Nodes : Counted(n) = {} /\ Subtracted(n) = {}
    BY <1>2, <1>4 DEF Counted, Subtracted, Changed
  <2>2. Cardinality({}) = 0
    BY FS_EmptySet
  <2>3. \A n \in Nodes : values[n][n] = 0
    BY <1>2
  <2>4. \A n \in Nodes : Cardinality(Counted(n)) = 0 /\ Cardinality(Subtracted(n)) = 0
    BY <2>1, <2>2
  <2>5. ASSUME NEW i, NEW j, i = 0, j = 0 PROVE i - j = 0
    BY <2>5
  <2>6. \A n \in Nodes : Cardinality(Counted(n)) - Cardinality(Subtracted(n)) = 0
    BY <2>4, <2>5
  <2> QED
    BY <2>3, <2>6 DEF Balance
<1>7. Converging
  <2> SUFFICES ASSUME NEW a \in Nodes, NEW b \in Nodes, a # b
               PROVE  Brings(links[a][b], values[b][a], Target(a, b))
    BY DEF Converging
  <2>1. links[a][b] = <<>> /\ values[b][a] = 0 /\ Target(a, b) = 0
    BY <1>1, <1>2 DEF Target
  <2> QED
    BY <2>1 DEF Brings
<1> QED
  BY <1>3, <1>5, <1>6, <1>7 DEF IInv

LEMMA NextIInv == IInv /\ [Next]_vars => IInv'
<1> SUFFICES ASSUME IInv, [Next]_vars PROVE IInv'
  OBVIOUS
<1>1. PICK V : Typed(V)
  BY DEF IInv
<1> DEFINE W == V \cup {result[t] : t \in Threads}
<1>2. V \subseteq W /\ \A t \in Threads : result[t] \in W
  OBVIOUS
<1> HIDE DEF W
<1>3. PICK U : U = W
  OBVIOUS
<1>4. Typed(U) /\ RemovedOnce /\ Balance /\ Converging
  BY <1>1, <1>2, <1>3, Wider DEF IInv
<1>5. \A t \in Threads : result[t] \in U
  BY <1>2, <1>3
<1> SUFFICES Typed(U)' /\ RemovedOnce' /\ Balance' /\ Converging'
  BY DEF IInv
<1>6. CASE \/ \E s \in Sessions : Connect(s) \/ Process(s) \/ SessionRemoved(s)
           \/ \E t \in Threads : SumUp(t)
  BY <1>4, <1>6, SessionSteps
<1>7. CASE \E t \in Threads : AddAndGet(t)
  BY <1>4, <1>7, AddStep
<1>8. CASE \E t \in Threads : PublishCount(t)
  BY <1>4, <1>5, <1>8, PublishStep
<1>9. CASE \E m, n \in Nodes : ReceiveValue(m, n) \/ ReceiveCount(m, n)
  BY <1>4, <1>9, ReceiveStep
<1>10. CASE \E m, n \in Nodes : NodesPart(m, n)
  BY <1>4, <1>10, PartStep
<1>11. CASE \E m, n \in Nodes : NodesJoin(m, n)
  BY <1>4, <1>11, JoinStep
<1>12. CASE UNCHANGED vars
  <2>1. /\ life' = life /\ stage' = stage /\ values' = values /\ links' = links
        /\ joined' = joined
    BY <1>12 DEF vars
  <2>2. Balance'
    BY <1>4, <2>1, SameCounts DEF Changed
  <2>3. Converging'
    BY <1>4, <2>1 DEF Converging, Target
  <2> QED
    BY <1>4, <2>1, <2>2, <2>3 DEF Typed, RemovedOnce
<1> QED
  BY <1>6, <1>7, <1>8, <1>9, <1>10, <1>11, <1>12 DEF Next, Step

LEMMA Invariance == Spec => []IInv
  BY InitIInv, NextIInv, PTL DEF Spec

\* Once nothing is under way joined nodes know each other's counters, and
\* none that of a node that left.
THEOREM CountersAgree == Spec => []NodesAgree
<1>1. IInv => NodesAgree
  <2> SUFFICES ASSUME IInv, AtRest, NEW m \in Nodes, NEW n \in Nodes, m # n
               PROVE  values[n][m] = IF n \in joined[m] THEN values[m][m] ELSE 0
    BY DEF NodesAgree
  <2>1. Brings(links[m][n], values[n][m], Target(m, n)) /\ links[m][n] = <<>>
    BY DEF IInv, Converging, AtRest
  <2> QED
    BY <2>1, BringsNothing DEF Target
<1> QED
  BY <1>1, Invariance, PTL

-----------------------------------------------------------------------------
(***************************************************************************)
(* The sums that clients show.  As long as some node is undisturbed, one   *)
(* node h at most has a thread at work or messages under way: what the     *)
(* clients of an undisturbed node show is the sum, or h has still to       *)
(* compute it, or it is the last message from h.  Nothing is said of what  *)
(* a sum is, only that equal counters have equal sums.                     *)
(***************************************************************************)

Mutual == \A m, n \in Nodes : n \in joined[m] <=> m \in joined[n]

\* A client is not counted before it is connected; and two domains.
Before ==
  /\ \A s \in Sessions : life[s] = "new" => stage[<<"init", s>>] = "none"
  /\ DOMAIN result = Threads /\ DOMAIN shown = Sessions

Counting(s) == life[s] = "open" /\ stage[<<"init", s>>] # "none"

Latest(h) == [type |-> "count", number |-> Total(h)]

\* No node but h has anything to do, and the nodes that h reaches are those
\* that reach the same as h, or are disturbed.
Solo(h) ==
  /\ \A t \in Threads : t \in AtWork => Here(t) = h
  /\ \A t, u \in Threads : t \in AtWork /\ u \in AtWork => t = u
  /\ \A a, b \in Nodes : links[a][b] = <<>> \/ (a = h /\ b \in joined[h])
  /\ \A n \in joined[h] : n \in disturbed \/ n \in Together(h)

\* What the thread at work on h has done.
Progress(h) ==
  \A t \in Threads :
    /\ stage[t] = "change" => \A b \in Nodes : links[h][b] = <<>>
    /\ stage[t] = "publish" => result[t] = Total(h)

\* The clients of n show the sum, or will.
Due(h, n) ==
  \/ n \in Together(h) /\ AtWork # {}
  \/ /\ links[h][n] = <<>>
     /\ \A s \in Sessions : NodeOf[s] = n /\ Counting(s) => shown[s] = Total(n)
  \/ /\ n \in Together(h) /\ links[h][n] # <<>>
     /\ links[h][n][Len(links[h][n])] = Latest(h)

Alone ==
  (\E n \in Nodes : n \notin disturbed) =>
    \E h \in Nodes : /\ Solo(h) /\ Progress(h)
                     /\ \A n \in Nodes : n \notin disturbed => Due(h, n)

SumInv == Mutual /\ Before /\ Alone

-----------------------------------------------------------------------------
LEMMA TotalIsSum ==
  ASSUME NEW n
  PROVE  /\ Total(n) = Sum(values[n])
         /\ Total(n)' = Sum(values'[n])
  BY DEF Total

LEMMA Working ==
  ASSUME NEW t \in Threads
  PROVE  /\ t \in AtWork <=> stage[t] \notin {"none", "done"}
         /\ (t \in AtWork)' <=> stage'[t] \notin {"none", "done"}
  BY DEF AtWork

LEMMA Nobody ==
  /\ AtWork = {} <=> \A t \in Threads : t \notin AtWork
  /\ AtWork' = {} <=> \A t \in Threads : ~ (t \in AtWork)'
  BY DEF AtWork

\* Nodes that see the same nodes have the same sum, once the counters are
\* known: what is still under way to n is no counter.
LEMMA SameSum ==
  ASSUME NEW W, Typed(W), Converging, Mutual, NEW h \in Nodes, NEW n \in Nodes,
         Solo(h), n \in Together(h),
         \A i \in 1 .. Len(links[h][n]) : links[h][n][i].type = "count"
  PROVE  Total(n) = Total(h)
<1> SUFFICES ASSUME n # h PROVE values[n] = values[h]
  BY TotalIsSum
<1>1. joined[n] \cup {n} = joined[h] \cup {h}
  BY DEF Together
<1>2. \A m \in Nodes : m \notin joined[m] /\ links[m][m] = <<>>
  BY DEF Typed, NoLoop
<1>3. \A m \in Nodes : m # n => values[n][m] = Target(m, n)
  <2> SUFFICES ASSUME NEW m \in Nodes, m # n PROVE values[n][m] = Target(m, n)
    OBVIOUS
  <2>1. Brings(links[m][n], values[n][m], Target(m, n))
    BY DEF Converging
  <2>2. \A i \in 1 .. Len(links[m][n]) : links[m][n][i].type = "count"
    <3>1. CASE m = h
      BY <3>1
    <3>2. CASE m # h
      <4>1. links[m][n] = <<>>
        BY <3>2 DEF Solo
      <4> QED
        BY <4>1
    <3> QED
      BY <3>1, <3>2
  <2> QED
    BY <2>1, <2>2 DEF Brings, Decides
<1>4. \A m \in Nodes : m # h => values[h][m] = Target(m, h)
  <2> SUFFICES ASSUME NEW m \in Nodes, m # h PROVE values[h][m] = Target(m, h)
    OBVIOUS
  <2>1. Brings(links[m][h], values[h][m], Target(m, h))
    BY DEF Converging
  <2>2. links[m][h] = <<>>
    BY DEF Solo
  <2> QED
    BY <2>1, <2>2, BringsNothing
<1>5. n \in joined[h] /\ h \in joined[n]
  BY <1>1
<1>6. \A m \in Nodes : m # h /\ m # n => (n \in joined[m] <=> h \in joined[m])
  BY <1>1 DEF Mutual
<1>7. \A m \in Nodes : values[n][m] = values[h][m]
  BY <1>3, <1>4, <1>5, <1>6 DEF Target
<1>8. values[n] \in [Nodes -> W] /\ values[h] \in [Nodes -> W]
  BY DEF Typed
<1> QED
  BY <1>7, <1>8

LEMMA MutualStep ==
  ASSUME NEW W, Typed(W), Mutual, [Next]_vars
  PROVE  Mutual'
<1>1. CASE joined' = joined
  BY <1>1 DEF Mutual
<1>2. ASSUME NEW m \in Nodes, NEW n \in Nodes, NodesPart(m, n) PROVE Mutual'
  <2>1. joined' = Part(joined, m, n) /\ m # n /\ joined \in [Nodes -> SUBSET Nodes]
    BY <1>2 DEF NodesPart, Typed, NoLoop
  <2>2. \A a, b \in Nodes : b \in joined'[a] <=>
          b \in joined[a] /\ ~ (a = m /\ b = n) /\ ~ (a = n /\ b = m)
    BY <2>1, JoinedNodes
  <2> QED
    BY <2>2 DEF Mutual
<1>3. ASSUME NEW m \in Nodes, NEW n \in Nodes, NodesJoin(m, n) PROVE Mutual'
  <2>1. joined' = Join(joined, m, n) /\ m # n /\ joined \in [Nodes -> SUBSET Nodes]
    BY <1>3 DEF NodesJoin, Typed
  <2>2. \A a, b \in Nodes : b \in joined'[a] <=>
          b \in joined[a] \/ (a = m /\ b = n) \/ (a = n /\ b = m)
    BY <2>1, JoinedNodes
  <2> QED
    BY <2>2 DEF Mutual
<1>4. ASSUME \/ \E s \in Sessions : Connect(s) \/ Process(s) \/ SessionRemoved(s)
             \/ \E t \in Threads : Step(t)
             \/ \E m, n \in Nodes : ReceiveValue(m, n) \/ ReceiveCount(m, n)
             \/ UNCHANGED vars
      PROVE  joined' = joined
  BY <1>4 DEF Connect, Process, SessionRemoved, Step, AddAndGet, SumUp, PublishCount,
              ReceiveValue, ReceiveCount, vars
<1> QED
  BY <1>1, <1>2, <1>3, <1>4 DEF Next

LEMMA BeforeStep ==
  ASSUME NEW W, Typed(W), Before, [Next]_vars
  PROVE  Before'
<1>1. \A s \in Sessions : <<"init", s>> \in Threads /\ <<"removal", s>> \in Threads
  BY DEF Threads
<1>2. life \in [Sessions -> {"new", "open", "gone"}] /\ stage \in [Threads -> Stages]
  BY DEF Typed
<1>3. /\ DOMAIN result = Threads /\ DOMAIN shown = Sessions
      /\ \A s \in Sessions : life[s] = "new" => stage[<<"init", s>>] = "none"
  BY DEF Before
<1>4. ASSUME NEW s \in Sessions, Connect(s) PROVE Before'
  <2>1. /\ life' = [life EXCEPT ![s] = "open"] /\ stage' = stage /\ result' = result
        /\ shown' = shown
    BY <1>4 DEF Connect
  <2>2. \A r \in Sessions : life'[r] = "new" => life[r] = "new"
    BY <1>2, <2>1
  <2> QED
    BY <1>3, <2>1, <2>2 DEF Before
<1>5. ASSUME NEW s \in Sessions, Process(s) PROVE Before'
  <2>1. /\ life[s] = "open" /\ life' = life /\ result' = result /\ shown' = shown
        /\ stage' = [stage EXCEPT ![<<"init", s>>] = "change"]
    BY <1>5 DEF Process, Starts
  <2>2. \A r \in Sessions : r # s => stage'[<<"init", r>>] = stage[<<"init", r>>]
    BY <1>1, <1>2, <2>1
  <2> QED
    BY <1>3, <2>1, <2>2 DEF Before
<1>6. ASSUME NEW s \in Sessions, SessionRemoved(s) PROVE Before'
  <2>1. /\ life' = [life EXCEPT ![s] = "gone"] /\ result' = result
        /\ shown' = [shown EXCEPT ![s] = NoCount]
        /\ stage' = [stage EXCEPT ![<<"removal", s>>] = "change"]
    BY <1>6 DEF SessionRemoved, Starts
  <2>2. \A r \in Sessions : life'[r] = "new" => life[r] = "new"
    BY <1>2, <2>1
  <2>3. \A r \in Sessions : stage'[<<"init", r>>] = stage[<<"init", r>>]
    BY <1>1, <1>2, <2>1
  <2>4. DOMAIN shown' = Sessions
    BY <1>3, <2>1
  <2> QED
    BY <1>3, <2>1, <2>2, <2>3, <2>4 DEF Before
<1>7. ASSUME NEW t \in Threads, Step(t) PROVE Before'
  <2>1. /\ life' = life
        /\ DOMAIN result' = Threads /\ DOMAIN shown' = Sessions
        /\ stage[t] # "none"
        /\ \E x \in Stages : stage' = [stage EXCEPT ![t] = x]
    BY <1>3, <1>7 DEF Step, AddAndGet, SumUp, PublishCount, Shown, Stages
  <2>2. \A u \in Threads : stage[u] = "none" => stage'[u] = "none"
    BY <1>2, <2>1
  <2> QED
    BY <1>1, <1>3, <2>1, <2>2 DEF Before
<1>8. CASE \/ \E m, n \in Nodes : ReceiveValue(m, n) \/ ReceiveCount(m, n)
           \/ \E m, n \in Nodes : NodesPart(m, n) \/ NodesJoin(m, n)
           \/ UNCHANGED vars
  <2>1. life' = life /\ stage' = stage /\ result' = result /\ DOMAIN shown' = Sessions
    BY <1>3, <1>8 DEF ReceiveValue, ReceiveCount, NodesPart, NodesJoin, Shown, vars
  <2> QED
    BY <1>3, <2>1 DEF Before
<1> QED
  BY <1>4, <1>5, <1>6, <1>7, <1>8 DEF Next

\* A thread starts: it is the only one, if nothing else is going on.
LEMMA StartAlone ==
  ASSUME NEW W, Typed(W), Alone, NEW t \in Threads, Starts(t),
         values' = values, links' = links, joined' = joined,
         \A s \in Sessions : NodeOf[s] # Here(t) /\ Counting(s)' =>
            Counting(s) /\ shown'[s] = shown[s]
  PROVE  Alone'
<1>1. CASE ~ AtRest
  <2>1. disturbed' = Nodes
    BY <1>1 DEF Starts
  <2> QED
    BY <2>1 DEF Alone
<1>2. CASE AtRest
  <2> DEFINE h == Here(t)
  <2>1. h \in Nodes
    BY HereIsNode
  <2>2. /\ AtWork = {} /\ \A a, b \in Nodes : links[a][b] = <<>>
        /\ disturbed' = (disturbed \cup joined[h]) \ Together(h)
    BY <1>2 DEF AtRest, Starts
  <2>3. /\ stage'[t] = "change"
        /\ \A u \in Threads : u # t => stage'[u] = stage[u] /\ stage[u] \in {"none", "done"}
    BY <2>2, Working DEF Starts, Typed
  <2>4. (t \in AtWork)' /\ \A u \in Threads : u # t => ~ (u \in AtWork)'
    BY <2>3, Working
  <2>5. \A n \in Nodes : Together(n)' = Together(n) /\ Total(n)' = Total(n)
    BY TotalIsSum DEF Together
  <2>6. Here(t)' = h /\ joined \in [Nodes -> SUBSET Nodes]
    BY DEF Here, Typed
  <2> HIDE DEF h
  <2>7. Solo(h)'
    BY <2>1, <2>2, <2>4, <2>5, <2>6 DEF Solo
  <2>8. Progress(h)'
    BY <2>1, <2>2, <2>3 DEF Progress
  <2>9. ASSUME NEW n \in Nodes, n \notin disturbed' PROVE Due(h, n)'
    <3>1. CASE n \in Together(h)
      BY <2>4, <2>5, <2>1, <3>1 DEF Due
    <3>2. CASE n \notin Together(h)
      <4>1. n \notin disturbed /\ n # h
        BY <2>1, <2>2, <2>9, <3>2 DEF Together
      <4>2. PICK g \in Nodes : Due(g, n)
        BY <4>1 DEF Alone
      <4>3. \A s \in Sessions : NodeOf[s] = n /\ Counting(s) => shown[s] = Total(n)
        BY <2>2, <4>2 DEF Due
      <4>4. \A s \in Sessions : NodeOf[s] = n /\ Counting(s)' => shown'[s] = Total(n)
        BY <4>1, <4>3 DEF h
      <4>5. links'[h][n] = <<>>
        BY <2>1, <2>2
      <4> QED
        BY <2>5, <4>4, <4>5 DEF Due
    <3> QED
      BY <3>1, <3>2
  <2> QED
    BY <2>1, <2>7, <2>8, <2>9 DEF Alone
<1> QED
  BY <1>1, <1>2

\* Nothing that matters changes.
LEMMA StillAlone ==
  ASSUME Alone, stage' = stage, values' = values, links' = links, joined' = joined,
         disturbed' = disturbed, result' = result,
         \A s \in Sessions : Counting(s)' => Counting(s) /\ shown'[s] = shown[s]
  PROVE  Alone'
<1> SUFFICES ASSUME \E n \in Nodes : n \notin disturbed
             PROVE  \E h \in Nodes : /\ Solo(h)' /\ Progress(h)'
                                     /\ \A n \in Nodes : n \notin disturbed => Due(h, n)'
  BY DEF Alone
<1>1. PICK h \in Nodes : /\ Solo(h) /\ Progress(h)
                         /\ \A n \in Nodes : n \notin disturbed => Due(h, n)
  BY DEF Alone
<1>2. \A n \in Nodes : Together(n)' = Together(n) /\ Total(n)' = Total(n)
  BY TotalIsSum DEF Together
<1>3. AtWork' = AtWork /\ \A t \in Threads : Here(t)' = Here(t)
  BY DEF AtWork, Here
<1>4. Solo(h)'
  BY <1>1, <1>2, <1>3 DEF Solo
<1>5. Progress(h)'
  BY <1>1, <1>2 DEF Progress
<1>6. ASSUME NEW n \in Nodes, n \notin disturbed PROVE Due(h, n)'
  <2>1. Due(h, n)
    BY <1>1, <1>6
  <2>2. Latest(h)' = Latest(h)
    BY <1>2 DEF Latest
  <2> QED
    BY <1>2, <1>3, <2>1, <2>2 DEF Due
<1> QED
  BY <1>4, <1>5, <1>6

\* The counter changes, and the sum is still to come.
LEMMA AddAlone ==
  ASSUME NEW W, Typed(W), Balance, Alone, NEW t \in Threads, AddAndGet(t)
  PROVE  Alone'
<1> SUFFICES ASSUME \E n \in Nodes : n \notin disturbed
             PROVE  \E h \in Nodes : /\ Solo(h)' /\ Progress(h)'
                                     /\ \A n \in Nodes : n \notin disturbed => Due(h, n)'
  BY DEF Alone, AddAndGet
<1>1. PICK h \in Nodes : /\ Solo(h) /\ Progress(h)
                         /\ \A n \in Nodes : n \notin disturbed => Due(h, n)
  BY DEF Alone
<1>2. stage[t] = "change" /\ stage' = [stage EXCEPT ![t] = "sum"] /\ t \in AtWork
  BY Working DEF AddAndGet
<1>3. Here(t) = h /\ \A u \in Threads : u # t => u \notin AtWork
  BY <1>1, <1>2 DEF Solo
<1>4. /\ stage'[t] = "sum"
      /\ \A u \in Threads : u # t => stage'[u] = stage[u] /\ stage[u] \in {"none", "done"}
  BY <1>2, <1>3, Working DEF Typed
<1>5. (t \in AtWork)' /\ \A u \in Threads : u # t => ~ (u \in AtWork)'
  BY <1>4, Working
<1> DEFINE value == values[h][h] + (IF t[1] = "init" THEN 1 ELSE -1)
           msg == [type |-> "value", number |-> value]
<1>6. /\ values' = [values EXCEPT ![h][h] = value]
      /\ links' = Publish(links, h, joined[h], msg)
      /\ joined' = joined /\ disturbed' = disturbed /\ shown' = shown /\ life' = life
  BY <1>3 DEF AddAndGet
<1>7. msg \in Numbered(W)
  <2>1. values[h][h] \in Int
    BY CountsAreNumbers
  <2>2. value \in Int
    BY <2>1
  <2> QED
    BY <2>2 DEF Numbered, Typed
<1> HIDE DEF value, msg
<1>8. \A a, b \in Nodes : links'[a][b] =
        IF a = h /\ b \in joined[h] THEN Append(links[a][b], msg) ELSE links[a][b]
  BY <1>6, <1>7, PublishLinks DEF Typed
<1>9. \A n \in Nodes : n # h => values'[n] = values[n]
  BY <1>6 DEF Typed
<1>10. \A n \in Nodes : /\ Together(n)' = Together(n)
                        /\ n # h => Total(n)' = Total(n)
  BY <1>6, <1>9, TotalIsSum DEF Together
<1>11. Solo(h)'
  <2>1. Here(t)' = h
    BY <1>3 DEF Here
  <2>2. \A a, b \in Nodes : links'[a][b] = <<>> \/ (a = h /\ b \in joined'[h])
    BY <1>1, <1>6, <1>8 DEF Solo
  <2>3. \A n \in joined'[h] : n \in disturbed' \/ (n \in Together(h))'
    BY <1>1, <1>6, <1>10 DEF Solo
  <2> QED
    BY <1>5, <2>1, <2>2, <2>3 DEF Solo
<1>12. Progress(h)'
  BY <1>4 DEF Progress
<1>13. ASSUME NEW n \in Nodes, n \notin disturbed PROVE Due(h, n)'
  <2>1. CASE n \in Together(h)
    BY <1>5, <1>10, <2>1 DEF Due
  <2>2. CASE n \notin Together(h)
    <3>1. n # h /\ n \notin joined[h]
      BY <1>1, <1>13, <2>2 DEF Together, Solo
    <3>2. links'[h][n] = links[h][n]
      BY <1>8, <3>1
    <3>3. /\ links[h][n] = <<>>
          /\ \A s \in Sessions : NodeOf[s] = n /\ Counting(s) => shown[s] = Total(n)
      BY <1>1, <1>13, <2>2 DEF Due
    <3>4. \A s \in Sessions : NodeOf[s] = n /\ Counting(s)' => Counting(s)
      <4>1. \A s \in Sessions : <<"init", s>> \in Threads
        BY DEF Threads
      <4> QED
        BY <1>2, <1>4, <1>6, <4>1 DEF Counting
    <3> QED
      BY <1>6, <1>10, <3>1, <3>2, <3>3, <3>4 DEF Due
  <2> QED
    BY <2>1, <2>2
<1> QED
  BY <1>11, <1>12, <1>13

\* The sum is that of the node.
LEMMA SumAlone ==
  ASSUME NEW W, Typed(W), Before, Alone, NEW t \in Threads, SumUp(t)
  PROVE  Alone'
<1> SUFFICES ASSUME \E n \in Nodes : n \notin disturbed
             PROVE  \E h \in Nodes : /\ Solo(h)' /\ Progress(h)'
                                     /\ \A n \in Nodes : n \notin disturbed => Due(h, n)'
  BY DEF Alone, SumUp
<1>1. PICK h \in Nodes : /\ Solo(h) /\ Progress(h)
                         /\ \A n \in Nodes : n \notin disturbed => Due(h, n)
  BY DEF Alone
<1>2. stage[t] = "sum" /\ stage' = [stage EXCEPT ![t] = "publish"] /\ t \in AtWork
  BY Working DEF SumUp
<1>3. Here(t) = h /\ \A u \in Threads : u # t => u \notin AtWork
  BY <1>1, <1>2 DEF Solo
<1>4. /\ stage'[t] = "publish"
      /\ \A u \in Threads : u # t => stage'[u] = stage[u] /\ stage[u] \in {"none", "done"}
  BY <1>2, <1>3, Working DEF Typed
<1>5. AtWork' = AtWork
  BY <1>2, <1>4 DEF AtWork
<1>6. /\ result' = [result EXCEPT ![t] = Total(h)]
      /\ values' = values /\ links' = links /\ joined' = joined /\ disturbed' = disturbed
      /\ shown' = shown /\ life' = life
  BY <1>3 DEF SumUp
<1>7. \A n \in Nodes : Together(n)' = Together(n) /\ Total(n)' = Total(n)
  BY <1>6, TotalIsSum DEF Together
<1>8. result'[t] = Total(h)'
  BY <1>6, <1>7 DEF Before
<1>9. Solo(h)'
  <2>1. \A u \in Threads : Here(u)' = Here(u)
    BY DEF Here
  <2> QED
    BY <1>1, <1>5, <1>6, <1>7, <2>1 DEF Solo
<1>10. Progress(h)'
  BY <1>4, <1>8 DEF Progress
<1>11. ASSUME NEW n \in Nodes, n \notin disturbed PROVE Due(h, n)'
  <2>1. \A s \in Sessions : <<"init", s>> \in Threads
    BY DEF Threads
  <2>2. \A s \in Sessions : Counting(s)' <=> Counting(s)
    BY <1>2, <1>4, <1>6, <2>1 DEF Counting
  <2>3. Latest(h)' = Latest(h)
    BY <1>7 DEF Latest
  <2>4. Due(h, n)
    BY <1>1, <1>11
  <2> QED
    BY <1>5, <1>6, <1>7, <2>2, <2>3, <2>4 DEF Due
<1> QED
  BY <1>9, <1>10, <1>11

\* The sum is shown on the node, and is the last message to the others.
LEMMA PublishAlone ==
  ASSUME NEW W, Typed(W), Before, Alone, NEW t \in Threads, PublishCount(t), result[t] \in W
  PROVE  Alone'
<1> SUFFICES ASSUME \E n \in Nodes : n \notin disturbed
             PROVE  \E h \in Nodes : /\ Solo(h)' /\ Progress(h)'
                                     /\ \A n \in Nodes : n \notin disturbed => Due(h, n)'
  BY DEF Alone, PublishCount
<1>1. PICK h \in Nodes : /\ Solo(h) /\ Progress(h)
                         /\ \A n \in Nodes : n \notin disturbed => Due(h, n)
  BY DEF Alone
<1>2. stage[t] = "publish" /\ stage' = [stage EXCEPT ![t] = "done"] /\ t \in AtWork
  BY Working DEF PublishCount
<1>3. /\ Here(t) = h /\ result[t] = Total(h)
      /\ \A u \in Threads : u # t => u \notin AtWork
  BY <1>1, <1>2 DEF Solo, Progress
<1>4. /\ stage'[t] = "done"
      /\ \A u \in Threads : u # t => stage'[u] = stage[u] /\ stage[u] \in {"none", "done"}
  BY <1>2, <1>3, Working DEF Typed
<1>5. \A u \in Threads : ~ (u \in AtWork)'
  BY <1>4, Working
<1>6. /\ shown' = Shown(h, Total(h))
      /\ links' = Publish(links, h, joined[h], Latest(h))
      /\ values' = values /\ joined' = joined /\ disturbed' = disturbed /\ life' = life
  BY <1>3 DEF PublishCount, Latest
<1>7. \A n \in Nodes : Together(n)' = Together(n) /\ Total(n)' = Total(n)
  BY <1>6, TotalIsSum DEF Together
<1>8. Latest(h) \in Numbered(W)
  BY <1>3 DEF Latest, Numbered
<1>9. \A a, b \in Nodes : links'[a][b] =
        IF a = h /\ b \in joined[h] THEN Append(links[a][b], Latest(h)) ELSE links[a][b]
  BY <1>6, <1>8, PublishLinks DEF Typed
<1>10. Solo(h)'
  BY <1>1, <1>5, <1>6, <1>7, <1>9 DEF Solo
<1>11. Progress(h)'
  <2>1. \A u \in Threads : stage'[u] \in {"none", "done"}
    BY <1>4
  <2> QED
    BY <2>1 DEF Progress
<1>12. \A s \in Sessions : Counting(s)' <=> Counting(s)
  <2>1. \A s \in Sessions : <<"init", s>> \in Threads
    BY DEF Threads
  <2> QED
    BY <1>2, <1>4, <1>6, <2>1 DEF Counting
<1>13. ASSUME NEW n \in Nodes, n \notin disturbed PROVE Due(h, n)'
  <2>1. CASE n = h
    <3>1. links'[h][h] = <<>>
      BY <1>9 DEF Typed, NoLoop
    <3>2. \A s \in Sessions : NodeOf[s] = h /\ Counting(s) => shown'[s] = Total(h)
      BY <1>6 DEF Shown, Counting
    <3> QED
      BY <1>7, <1>12, <2>1, <3>1, <3>2 DEF Due
  <2>2. CASE n # h /\ n \in Together(h)
    <3>1. n \in joined[h]
      BY <2>2 DEF Together
    <3>2. links'[h][n] = Append(links[h][n], Latest(h)) /\ links[h][n] \in Seq(Numbered(W))
      BY ZenonT(30), <1>9, <3>1 DEF Typed, LinksOf
    <3>3. links'[h][n] # <<>> /\ links'[h][n][Len(links'[h][n])] = Latest(h)
      BY <1>8, <3>2
    <3>4. Latest(h)' = Latest(h)
      BY <1>7 DEF Latest
    <3> QED
      BY <1>7, <2>2, <3>3, <3>4 DEF Due
  <2>3. CASE n \notin Together(h)
    <3>1. n # h /\ n \notin joined[h]
      BY <1>1, <1>13, <2>3 DEF Together, Solo
    <3>2. links'[h][n] = links[h][n]
      BY <1>9, <3>1
    <3>3. /\ links[h][n] = <<>>
          /\ \A s \in Sessions : NodeOf[s] = n /\ Counting(s) => shown[s] = Total(n)
      BY <1>1, <1>13, <2>3 DEF Due
    <3>4. \A s \in Sessions : NodeOf[s] = n => shown'[s] = shown[s]
      BY <1>6, <3>1 DEF Shown
    <3> QED
      BY <1>7, <1>12, <3>2, <3>3, <3>4 DEF Due
  <2> QED
    BY <2>1, <2>2, <2>3
<1> QED
  BY <1>10, <1>11, <1>13

\* The last message stays the last until it is the only one.
LEMMA LastMessage ==
  ASSUME NEW S, NEW q \in Seq(S), q # <<>>
  PROVE  IF Len(q) # 1 THEN Tail(q) # <<>> /\ Tail(q)[Len(Tail(q))] = q[Len(q)]
         ELSE Len(q) = 1 /\ Head(q) = q[1] /\ Tail(q) = <<>>
<1>1. PICK k \in Nat \ {0} : k = Len(q)
  BY EmptySeq
<1>2. PICK r \in Seq(S) : r = Tail(q)
  BY HeadTailProperties
<1>3. Len(r) = k - 1 /\ \A i \in 1 .. k - 1 : r[i] = q[i + 1]
  BY <1>1, <1>2, HeadTailProperties
<1>4. CASE k # 1
  <2>1. k - 1 \in 1 .. k - 1 /\ k - 1 + 1 = k /\ k - 1 # 0
    BY <1>4
  <2>2. r[k - 1] = q[k] /\ r # <<>>
    BY <1>3, <2>1
  <2> QED
    BY <1>1, <1>2, <1>3, <1>4, <2>2
<1>5. CASE k = 1
  <2>1. r = <<>>
    BY <1>3, <1>5, EmptySeq
  <2>2. Head(q) = q[1]
    OBVIOUS
  <2> QED
    BY <1>1, <1>2, <1>5, <2>1, <2>2
<1> QED
  BY <1>4, <1>5

\* A message is processed: the counter comes before the sum, which is then the
\* sum of this node as well.
LEMMA ReceiveAlone ==
  ASSUME NEW W, Typed(W), Converging, Mutual, Before, Alone,
         NEW m \in Nodes, NEW k \in Nodes, ReceiveValue(m, k) \/ ReceiveCount(m, k)
  PROVE  Alone'
<1>1. /\ links[m][k] # <<>> /\ links' = Consume(links, m, k)
      /\ stage' = stage /\ joined' = joined /\ disturbed' = disturbed /\ result' = result
      /\ life' = life
  BY DEF ReceiveValue, ReceiveCount
<1> SUFFICES ASSUME \E n \in Nodes : n \notin disturbed
             PROVE  \E h \in Nodes : /\ Solo(h)' /\ Progress(h)'
                                     /\ \A n \in Nodes : n \notin disturbed => Due(h, n)'
  BY <1>1 DEF Alone
<1>2. PICK h \in Nodes : /\ Solo(h) /\ Progress(h)
                         /\ \A n \in Nodes : n \notin disturbed => Due(h, n)
  BY DEF Alone
<1>3. m = h /\ k \in joined[h] /\ k # h
  BY <1>1, <1>2 DEF Solo, Typed, NoLoop
<1>4. /\ \A a, b \in Nodes : links'[a][b] =
           IF a = h /\ b = k THEN Tail(links[a][b]) ELSE links[a][b]
      /\ links[h][k] \in Seq(Numbered(W)) /\ links[h][k] # <<>>
  <2>1. links \in LinksOf(Numbered(W))
    BY DEF Typed
  <2>2. \A a, b \in Nodes : Consume(links, m, k)[a][b] =
          IF a = m /\ b = k THEN Tail(links[a][b]) ELSE links[a][b]
    BY <1>1, <2>1, ConsumeLinks
  <2>3. links[h][k] \in Seq(Numbered(W))
    BY <2>1 DEF LinksOf
  <2> QED
    BY <1>1, <1>3, <2>2, <2>3
<1>5. \A n \in Nodes : n # k => values'[n] = values[n]
  BY DEF ReceiveValue, ReceiveCount, Typed
<1>6. /\ \A n \in Nodes : Together(n)' = Together(n) /\ (n # k => Total(n)' = Total(n))
      /\ Total(h)' = Total(h) /\ Latest(h)' = Latest(h)
  BY <1>1, <1>3, <1>5, TotalIsSum DEF Together, Latest
<1>7. AtWork' = AtWork
  BY <1>1 DEF AtWork
<1>8. /\ \A s \in Sessions : Counting(s)' <=> Counting(s)
      /\ \A s \in Sessions : NodeOf[s] # k => shown'[s] = shown[s]
  BY <1>1 DEF Counting, ReceiveValue, ReceiveCount, Shown
<1>9. Solo(h)'
  <2>1. \A u \in Threads : Here(u)' = Here(u)
    BY DEF Here
  <2> QED
    BY <1>1, <1>2, <1>3, <1>4, <1>6, <1>7, <2>1 DEF Solo
<1>10. Progress(h)'
  <2>1. \A u \in Threads : stage[u] # "change"
    BY <1>2, <1>4 DEF Progress
  <2> QED
    BY <1>1, <1>2, <1>6, <2>1 DEF Progress
<1>11. ASSUME NEW n \in Nodes, n \notin disturbed PROVE Due(h, n)'
  <2>1. CASE n # k
    <3>1. links'[h][n] = links[h][n]
      BY <1>4, <2>1
    <3>2. Due(h, n)
      BY <1>2, <1>11
    <3> QED
      BY <1>6, <1>7, <1>8, <2>1, <3>1, <3>2 DEF Due
  <2>2. CASE n = k
    <3> DEFINE q == links[h][k]
    <3>1. n \in Together(h)
      BY <1>2, <1>3, <1>11, <2>2 DEF Solo
    <3>2. CASE AtWork # {}
      BY <1>6, <1>7, <3>1, <3>2 DEF Due
    <3>3. CASE AtWork = {}
      <4>1. q \in Seq(Numbered(W)) /\ q # <<>> /\ q[Len(q)] = Latest(h)
        BY <1>2, <1>4, <1>11, <2>2, <3>3 DEF Due
      <4>2. links'[h][k] = Tail(q)
        BY <1>4
      <4> HIDE DEF q
      <4>6. PICK S : q \in Seq(S)
        BY <4>1
      <4>3. CASE Len(q) # 1
        <5>1. Tail(q) # <<>> /\ Tail(q)[Len(Tail(q))] = q[Len(q)]
          BY <4>1, <4>3, <4>6, LastMessage
        <5> QED
          BY <1>6, <2>2, <3>1, <4>1, <4>2, <5>1 DEF Due
      <4>4. CASE Len(q) = 1
        <5>1. Len(q) = 1 /\ Head(q) = Latest(h) /\ Tail(q) = <<>> /\ q[1] = Latest(h)
          BY <4>1, <4>4, <4>6, LastMessage
        <5>2. Head(links[m][k]).type = "count" /\ Head(links[m][k]).number = Total(h)
          BY <1>3, <5>1 DEF q, Latest
        <5>3. ReceiveCount(m, k)
          BY <5>2 DEF ReceiveValue
        <5>4. shown' = Shown(k, Total(h)) /\ values' = values
          BY <5>2, <5>3 DEF ReceiveCount
        <5>5. Total(k) = Total(h)
          <6>1. \A i \in 1 .. Len(links[h][k]) : links[h][k][i].type = "count"
            BY <5>1 DEF q, Latest
          <6> QED
            BY <1>2, <2>2, <3>1, <6>1, SameSum
        <5>6. Total(k)' = Total(k)
          BY <5>4, TotalIsSum
        <5>7. \A s \in Sessions : NodeOf[s] = k /\ Counting(s) => shown'[s] = Total(h)
          BY <5>4 DEF Shown, Counting
        <5> QED
          BY <1>8, <2>2, <4>2, <5>1, <5>5, <5>6, <5>7 DEF Due
      <4> QED
        BY <4>3, <4>4
    <3> QED
      BY <3>2, <3>3
  <2> QED
    BY <2>1, <2>2
<1> QED
  BY <1>9, <1>10, <1>11

LEMMA InitSumInv == Init => SumInv
<1> SUFFICES ASSUME Init PROVE SumInv
  OBVIOUS
<1>1. /\ \A m, n \in Nodes : links[m][n] = <<>> /\ (n \in joined[m] <=> n # m)
      /\ joined \in [Nodes -> SUBSET Nodes]
  BY InitialLinks DEF Init
<1>2. \A s \in Sessions : <<"init", s>> \in Threads
  BY DEF Threads
<1>3. \A t \in Threads : stage[t] = "none" /\ t \notin AtWork
  BY DEF Init, AtWork
<1>4. \A s \in Sessions : ~ Counting(s)
  BY DEF Init, Counting
<1>5. Mutual
  BY <1>1 DEF Mutual
<1>6. Before
  BY <1>2 DEF Init, Before
<1>7. \A h, n \in Nodes : n \in Together(h)
  BY <1>1 DEF Together
<1>8. \A h \in Nodes : Solo(h) /\ Progress(h)
  BY <1>1, <1>3, <1>7 DEF Solo, Progress
<1>9. \A h, n \in Nodes : Due(h, n)
  BY <1>1, <1>4 DEF Due
<1>10. Alone
  BY <1>8, <1>9 DEF Alone
<1> QED
  BY <1>5, <1>6, <1>10 DEF SumInv

LEMMA SumStep == IInv /\ SumInv /\ [Next]_vars => SumInv'
<1> SUFFICES ASSUME IInv, SumInv, [Next]_vars PROVE SumInv'
  OBVIOUS
<1>1. PICK V : Typed(V)
  BY DEF IInv
<1>2. PICK U : V \subseteq U /\ \A t \in Threads : result[t] \in U
  <2> DEFINE W == V \cup {result[t] : t \in Threads}
  <2>1. V \subseteq W /\ \A t \in Threads : result[t] \in W
    OBVIOUS
  <2> HIDE DEF W
  <2> QED
    BY <2>1
<1>3. /\ Typed(U) /\ Balance /\ Converging /\ RemovedOnce
      /\ Mutual /\ Before /\ Alone
  BY <1>1, <1>2, Wider DEF IInv, SumInv
<1>4. Mutual' /\ Before'
  BY <1>3, MutualStep, BeforeStep
<1> SUFFICES Alone'
  BY <1>4 DEF SumInv
<1>5. \A s \in Sessions : <<"init", s>> \in Threads /\ <<"removal", s>> \in Threads
  BY DEF Threads
<1>6. ASSUME NEW s \in Sessions, Connect(s) PROVE Alone'
  <2>1. \A r \in Sessions : Counting(r)' => Counting(r)
    BY <1>3, <1>6 DEF Connect, Before, Counting, Typed
  <2> QED
    BY <1>3, <1>6, <2>1, StillAlone DEF Connect
<1>7. ASSUME NEW s \in Sessions, Process(s) PROVE Alone'
  <2> DEFINE t == <<"init", s>>
  <2>1. t \in Threads /\ Here(t) = NodeOf[s] /\ Starts(t)
    BY <1>5, <1>7 DEF Here, Process
  <2>2. /\ values' = values /\ links' = links /\ joined' = joined /\ shown' = shown
        /\ life' = life /\ stage' = [stage EXCEPT ![t] = "change"]
    BY <1>7 DEF Process, Starts
  <2>3. \A r \in Sessions : r # s => stage'[<<"init", r>>] = stage[<<"init", r>>]
    BY <1>3, <1>5, <2>2 DEF Typed
  <2>4. \A r \in Sessions : NodeOf[r] # Here(t) /\ Counting(r)' =>
          Counting(r) /\ shown'[r] = shown[r]
    BY <2>1, <2>2, <2>3 DEF Counting
  <2> HIDE DEF t
  <2> QED
    BY <1>3, <2>1, <2>2, <2>4, StartAlone
<1>8. ASSUME NEW s \in Sessions, SessionRemoved(s) PROVE Alone'
  <2> DEFINE t == <<"removal", s>>
  <2>1. t \in Threads /\ Here(t) = NodeOf[s] /\ Starts(t)
    BY <1>5, <1>8 DEF Here, SessionRemoved
  <2>2. /\ values' = values /\ links' = links /\ joined' = joined
        /\ shown' = [shown EXCEPT ![s] = NoCount]
        /\ life' = [life EXCEPT ![s] = "gone"] /\ stage' = [stage EXCEPT ![t] = "change"]
    BY <1>8 DEF SessionRemoved, Starts
  <2>3. \A r \in Sessions : stage'[<<"init", r>>] = stage[<<"init", r>>]
    BY <1>3, <1>5, <2>2 DEF Typed
  <2>4. \A r \in Sessions : r # s => life'[r] = life[r] /\ shown'[r] = shown[r]
    BY <1>3, <2>2 DEF Typed, Before
  <2>5. \A r \in Sessions : NodeOf[r] # Here(t) /\ Counting(r)' =>
          Counting(r) /\ shown'[r] = shown[r]
    BY <2>1, <2>3, <2>4 DEF Counting
  <2> HIDE DEF t
  <2> QED
    BY <1>3, <2>1, <2>2, <2>5, StartAlone
<1>9. ASSUME NEW t \in Threads, Step(t) PROVE Alone'
  BY <1>2, <1>3, <1>9, AddAlone, SumAlone, PublishAlone DEF Step
<1>10. CASE \E m, n \in Nodes : ReceiveValue(m, n) \/ ReceiveCount(m, n)
  BY <1>3, <1>10, ReceiveAlone
<1>11. CASE \E m, n \in Nodes : NodesPart(m, n) \/ NodesJoin(m, n)
  <2>1. disturbed' = Nodes
    BY <1>11 DEF NodesPart, NodesJoin
  <2> QED
    BY <2>1 DEF Alone
<1>12. CASE UNCHANGED vars
  <2>1. \A s \in Sessions : Counting(s)' <=> Counting(s)
    BY <1>12 DEF vars, Counting
  <2> QED
    BY <1>3, <1>12, <2>1, StillAlone DEF vars
<1> QED
  BY <1>6, <1>7, <1>8, <1>9, <1>10, <1>11, <1>12 DEF Next

\* Once a change that was alone has come to its end, the clients of the nodes
\* that see the same nodes show the sum, for any nodes, sessions and bounds.
THEOREM SumsAreShown == Spec => []ShowsTotal
<1>1. SumInv => ShowsTotal
  <2> SUFFICES ASSUME SumInv, AtRest, NEW s \in Sessions, Counting(s),
                      NodeOf[s] \notin disturbed
               PROVE  shown[s] = Total(NodeOf[s])
    BY DEF ShowsTotal, Counting
  <2>1. NodeOf[s] \in Nodes
    BY UserCountAssumption
  <2>2. PICK h \in Nodes : Due(h, NodeOf[s])
    BY <2>1 DEF SumInv, Alone
  <2> QED
    BY <2>1, <2>2 DEF Due, AtRest
<1> QED
  BY <1>1, InitSumInv, SumStep, Invariance, PTL DEF Spec
=============================================================================
