----------------------------- MODULE ChatProofs -----------------------------
(***************************************************************************)
(* Theorems about Chat, for any nodes, sessions, rooms and bounds.         *)
(***************************************************************************)
EXTENDS Chat, FiniteSetTheorems, TLAPS

-----------------------------------------------------------------------------
\* What the operators of OortLinks do to the queues between nodes, for any set
\* of messages.  No other proof of this module opens them.

\* In the beginning nothing is under way and every two nodes are joined.
LEMMA InitialLinks ==
  ASSUME NEW M
  PROVE  /\ NoLinks \in LinksOf(M)
         /\ \A m, n \in Nodes : NoLinks[m][n] = <<>>
         /\ AllJoined \in [Nodes -> SUBSET Nodes]
         /\ \A m, n \in Nodes : n \in AllJoined[m] <=> n # m
         /\ NoLoop(NoLinks, AllJoined)
  BY DEF NoLinks, AllJoined, LinksOf, NoLoop

\* Publishing appends to the queues from the sender to the nodes it reaches.
LEMMA PublishLinks ==
  ASSUME NEW M, NEW queues \in LinksOf(M), NEW m \in Nodes, NEW S, NEW msg \in M
  PROVE  /\ Publish(queues, m, S, msg) \in LinksOf(M)
         /\ \A a, b \in Nodes : Publish(queues, m, S, msg)[a][b] =
              IF a = m /\ b \in S THEN Append(queues[a][b], msg) ELSE queues[a][b]
<1> DEFINE row == [n \in Nodes |-> IF n \in S THEN Append(queues[m][n], msg) ELSE queues[m][n]]
<1>1. queues[m] \in [Nodes -> Seq(M)]
  BY DEF LinksOf
<1>2. \A n \in Nodes : queues[m][n] \in Seq(M) /\ Append(queues[m][n], msg) \in Seq(M)
  BY <1>1
<1>3. row \in [Nodes -> Seq(M)]
  BY <1>2
<1>4. Publish(queues, m, S, msg) = [queues EXCEPT ![m] = row]
  BY DEF Publish
<1> HIDE DEF row
<1>5. [queues EXCEPT ![m] = row] \in LinksOf(M)
  BY <1>3 DEF LinksOf
<1>6. \A a, b \in Nodes : [queues EXCEPT ![m] = row][a][b] = IF a = m THEN row[b] ELSE queues[a][b]
  BY DEF LinksOf
<1>7. \A b \in Nodes : row[b] = IF b \in S THEN Append(queues[m][b], msg) ELSE queues[m][b]
  BY DEF row
<1> QED
  BY <1>4, <1>5, <1>6, <1>7

\* Consuming drops the oldest message of one queue.
LEMMA ConsumeLinks ==
  ASSUME NEW M, NEW queues \in LinksOf(M), NEW m \in Nodes, NEW n \in Nodes,
         queues[m][n] # <<>>
  PROVE  /\ Consume(queues, m, n) \in LinksOf(M)
         /\ Head(queues[m][n]) \in M
         /\ \A a, b \in Nodes : Consume(queues, m, n)[a][b] =
              IF a = m /\ b = n THEN Tail(queues[a][b]) ELSE queues[a][b]
<1>1. queues[m][n] \in Seq(M)
  BY DEF LinksOf
<1>2. Tail(queues[m][n]) \in Seq(M) /\ Head(queues[m][n]) \in M
  BY <1>1
<1> QED
  BY <1>2 DEF Consume, LinksOf

\* Publishing to nodes that are reached and taking what was sent leave no
\* node anything from itself.
LEMMA StillNoLoop ==
  ASSUME NEW M, NEW queues \in LinksOf(M), NEW reach, NoLoop(queues, reach), NEW m \in Nodes
  PROVE  /\ \A S \in SUBSET reach[m], msg \in M : NoLoop(Publish(queues, m, S, msg), reach)
         /\ \A n \in Nodes : queues[m][n] # <<>> => NoLoop(Consume(queues, m, n), reach)
<1>1. ASSUME NEW S \in SUBSET reach[m], NEW msg \in M
      PROVE  NoLoop(Publish(queues, m, S, msg), reach)
  <2>1. m \notin S
    BY DEF NoLoop
  <2>2. \A a, b \in Nodes : Publish(queues, m, S, msg)[a][b] =
          IF a = m /\ b \in S THEN Append(queues[a][b], msg) ELSE queues[a][b]
    BY PublishLinks
  <2> QED
    BY <2>1, <2>2 DEF NoLoop
<1>2. ASSUME NEW n \in Nodes, queues[m][n] # <<>>
      PROVE  NoLoop(Consume(queues, m, n), reach)
  <2>1. m # n
    BY <1>2 DEF NoLoop
  <2> QED
    BY <1>2, <2>1, ConsumeLinks DEF NoLoop
<1> QED
  BY <1>1, <1>2

\* Parting and joining concern the two nodes only, and both of them.
LEMMA JoinedNodes ==
  ASSUME NEW reach \in [Nodes -> SUBSET Nodes], NEW m \in Nodes, NEW n \in Nodes,
         m # n
  PROVE  /\ Part(reach, m, n) \in [Nodes -> SUBSET Nodes]
         /\ Join(reach, m, n) \in [Nodes -> SUBSET Nodes]
         /\ \A a, b \in Nodes :
              /\ b \in Part(reach, m, n)[a] <=>
                   b \in reach[a] /\ ~ (a = m /\ b = n) /\ ~ (a = n /\ b = m)
              /\ b \in Join(reach, m, n)[a] <=>
                   b \in reach[a] \/ (a = m /\ b = n) \/ (a = n /\ b = m)
  BY DEF Part, Join

-----------------------------------------------------------------------------
\* Queues and logs: what is in a sequence, and what is before what.

Before(q, x, y) == \E i, j \in DOMAIN q : i < j /\ q[i] = x /\ q[j] = y

LEMMA EmptyQueue == Elements(<<>>) = {} /\ \A x, y : ~ Before(<<>>, x, y)
  BY DEF Elements, Before

\* What is appended comes after everything else.
LEMMA Appended ==
  ASSUME NEW T, NEW q \in Seq(T), NEW z \in T
  PROVE  /\ Append(q, z) \in Seq(T)
         /\ Elements(Append(q, z)) = Elements(q) \cup {z}
         /\ \A x, y : Before(Append(q, z), x, y) =>
              Before(q, x, y) \/ (x \in Elements(q) /\ y = z)
<1> DEFINE p == Append(q, z)
<1>1. /\ Len(q) \in Nat /\ p \in Seq(T)
      /\ DOMAIN q = 1 .. Len(q) /\ DOMAIN p = 1 .. Len(q) + 1
      /\ \A i \in 1 .. Len(q) : p[i] = q[i]
      /\ p[Len(q) + 1] = z
  OBVIOUS
<1> HIDE DEF p
<1>2. \A i \in DOMAIN p : i \in DOMAIN q \/ i = Len(q) + 1
  BY <1>1
<1>3. Elements(p) = Elements(q) \cup {z}
  BY <1>1, <1>2 DEF Elements
<1>4. ASSUME NEW x, NEW y, Before(p, x, y)
      PROVE  Before(q, x, y) \/ (x \in Elements(q) /\ y = z)
  <2>1. PICK i, j \in DOMAIN p : i < j /\ p[i] = x /\ p[j] = y
    BY <1>4 DEF Before
  <2>2. i \in DOMAIN q
    BY <1>1, <2>1
  <2>3. q[i] = x /\ x \in Elements(q)
    BY <1>1, <2>1, <2>2 DEF Elements
  <2>4. CASE j \in DOMAIN q
    BY <1>1, <2>1, <2>2, <2>3, <2>4 DEF Before
  <2>5. CASE j = Len(q) + 1
    BY <1>1, <2>1, <2>3, <2>5
  <2> QED
    BY <1>2, <2>4, <2>5
<1> QED
  BY <1>1, <1>3, <1>4 DEF p

\* What is taken comes before everything else.
LEMMA Taken ==
  ASSUME NEW T, NEW q \in Seq(T), q # <<>>
  PROVE  /\ Head(q) \in T /\ Tail(q) \in Seq(T)
         /\ Elements(q) = {Head(q)} \cup Elements(Tail(q))
         /\ \A x, y : Before(Tail(q), x, y) => Before(q, x, y)
         /\ \A x \in Elements(Tail(q)) : Before(q, Head(q), x)
<1> DEFINE p == Tail(q)
<1>1. /\ Len(q) \in Nat \ {0} /\ p \in Seq(T)
      /\ DOMAIN q = 1 .. Len(q) /\ DOMAIN p = 1 .. Len(q) - 1
      /\ \A i \in 1 .. Len(q) - 1 : p[i] = q[i + 1]
      /\ Head(q) = q[1] /\ Head(q) \in T
  OBVIOUS
<1> HIDE DEF p
<1>2. \A i \in DOMAIN p : i + 1 \in DOMAIN q /\ p[i] = q[i + 1] /\ 1 < i + 1
  BY <1>1
<1>3. \A i \in DOMAIN q : i = 1 \/ (i - 1 \in DOMAIN p /\ p[i - 1] = q[i])
  BY <1>1
<1>4. 1 \in DOMAIN q
  BY <1>1
<1>5. Elements(q) = {Head(q)} \cup Elements(p)
  <2>1. ASSUME NEW i \in DOMAIN q
        PROVE  q[i] = Head(q) \/ \E j \in DOMAIN p : q[i] = p[j]
    BY <1>1, <1>3
  <2>2. ASSUME NEW j \in DOMAIN p
        PROVE  \E i \in DOMAIN q : q[i] = p[j]
    BY <1>2
  <2>3. \E i \in DOMAIN q : q[i] = Head(q)
    BY <1>1, <1>4
  <2> QED
    BY <2>1, <2>2, <2>3 DEF Elements
<1>6. ASSUME NEW x, NEW y, Before(p, x, y)
      PROVE  Before(q, x, y)
  <2>1. PICK i, j \in DOMAIN p : i < j /\ p[i] = x /\ p[j] = y
    BY <1>6 DEF Before
  <2>2. i + 1 \in DOMAIN q /\ j + 1 \in DOMAIN q /\ i + 1 < j + 1
    BY <1>1, <2>1
  <2>3. q[i + 1] = x /\ q[j + 1] = y
    BY <1>2, <2>1
  <2> QED
    BY <2>2, <2>3 DEF Before
<1>7. ASSUME NEW x \in Elements(p)
      PROVE  Before(q, Head(q), x)
  <2>1. PICK i \in DOMAIN p : p[i] = x
    BY DEF Elements
  <2>2. i + 1 \in DOMAIN q /\ q[i + 1] = x /\ 1 < i + 1
    BY <1>2, <2>1
  <2> QED
    BY <1>1, <1>4, <2>2 DEF Before
<1> QED
  BY <1>1, <1>5, <1>6, <1>7 DEF p

\* The latest chats of a log are those not MaxEntries from its end.
LEMMA LatestChats ==
  ASSUME NEW q \in Seq(Chats)
  PROVE  /\ Latest(q) \in Histories
         /\ Elements(Latest(q)) = {q[i] : i \in {j \in DOMAIN q : Len(q) < j + MaxEntries}}
<1> DEFINE first == IF Len(q) > MaxEntries THEN Len(q) - MaxEntries + 1 ELSE 1
           p == Latest(q)
<1>1. /\ Len(q) \in Nat /\ DOMAIN q = 1 .. Len(q)
      /\ first \in 1 .. Len(q) + 1 /\ Len(q) - first + 1 <= MaxEntries
      /\ \A j \in 1 .. Len(q) : Len(q) < j + MaxEntries <=> first <= j
  BY ChatAssumption
<1>2. p = SubSeq(q, first, Len(q))
  BY DEF Latest
<1> HIDE DEF first, p
<1>3. /\ p \in Seq(Chats) /\ Len(p) = Len(q) - first + 1
      /\ DOMAIN p = 1 .. Len(q) - first + 1
      /\ \A i \in 1 .. Len(q) - first + 1 : p[i] = q[first + i - 1]
  BY <1>1, <1>2
<1>4. p \in Histories
  BY <1>1, <1>3 DEF Histories
<1>5. Elements(p) = {q[i] : i \in {j \in DOMAIN q : Len(q) < j + MaxEntries}}
  <2>1. ASSUME NEW i \in DOMAIN p
        PROVE  \E j \in DOMAIN q : Len(q) < j + MaxEntries /\ q[j] = p[i]
    <3>1. first + i - 1 \in DOMAIN q /\ Len(q) < (first + i - 1) + MaxEntries
      BY <1>1, <1>3
    <3> QED
      BY <1>3, <3>1
  <2>2. ASSUME NEW j \in DOMAIN q, Len(q) < j + MaxEntries
        PROVE  \E i \in DOMAIN p : q[j] = p[i]
    <3>1. j - first + 1 \in DOMAIN p /\ p[j - first + 1] = q[j]
      BY SMTT(30), <1>1, <1>3, <2>2
    <3> QED
      BY <3>1
  <2> QED
    BY <2>1, <2>2 DEF Elements
<1> QED
  BY <1>4, <1>5 DEF p

\* What gets into the latest chats of a log is what is appended to it.
LEMMA LatestAppended ==
  ASSUME NEW q \in Seq(Chats), NEW c \in Chats
  PROVE  /\ Elements(Latest(Append(q, c))) \subseteq Elements(Latest(q)) \cup {c}
         /\ Elements(Latest(q)) \subseteq Elements(q)
<1> DEFINE p == Append(q, c)
<1>1. /\ Len(q) \in Nat /\ p \in Seq(Chats) /\ Len(p) = Len(q) + 1
      /\ DOMAIN q = 1 .. Len(q) /\ DOMAIN p = 1 .. Len(q) + 1
      /\ \A i \in 1 .. Len(q) : p[i] = q[i]
      /\ p[Len(q) + 1] = c
  OBVIOUS
<1>2. /\ Elements(Latest(q)) = {q[i] : i \in {j \in DOMAIN q : Len(q) < j + MaxEntries}}
      /\ Elements(Latest(p)) = {p[i] : i \in {j \in DOMAIN p : Len(p) < j + MaxEntries}}
  BY <1>1, LatestChats
<1> HIDE DEF p
<1>3. ASSUME NEW i \in DOMAIN p, Len(p) < i + MaxEntries
      PROVE  p[i] = c \/ p[i] \in Elements(Latest(q))
  <2>1. CASE i \in DOMAIN q
    <3>1. p[i] = q[i] /\ Len(q) < i + MaxEntries
      BY <1>1, <1>3, <2>1, ChatAssumption
    <3> QED
      BY <1>2, <2>1, <3>1
  <2>2. CASE i = Len(q) + 1
    BY <1>1, <2>2
  <2> QED
    BY <1>1, <2>1, <2>2
<1>4. Elements(Latest(p)) \subseteq Elements(Latest(q)) \cup {c}
  BY <1>2, <1>3
<1>5. Elements(Latest(q)) \subseteq Elements(q)
  BY <1>2 DEF Elements
<1> QED
  BY <1>4, <1>5 DEF p

-----------------------------------------------------------------------------
\* Forwarded actions and their results.

Arch(c) == [type |-> "archive", chat |-> c]

LEMMA CallKinds ==
  /\ \A c \in Chats : Arch(c) \in Calls /\ Arch(c).type = "archive" /\ Arch(c).chat = c
  /\ \A s \in Sessions, r \in Rooms : [type |-> "ask", to |-> s, room |-> r] \in Calls
  /\ \A s \in Sessions, chats \in Histories, archived \in SUBSET Chats :
       [type |-> "history", to |-> s, chats |-> chats, archived |-> archived] \in Calls
  BY DEF Calls, Arch

LEMMA CallParts ==
  ASSUME NEW msg \in Calls
  PROVE  /\ msg.type \in {"archive", "ask", "history"}
         /\ msg.type = "archive" => msg.chat \in Chats /\ msg = Arch(msg.chat)
         /\ msg.type \in {"ask", "history"} =>
              /\ msg.to \in Sessions
              /\ \A c : msg # Arch(c)
         /\ msg.type = "ask" => msg.room \in Rooms
         /\ msg.type = "history" => /\ msg.chats \in Histories /\ msg.chats \in Seq(Chats)
                                    /\ msg.archived \in SUBSET Chats
<1>1. CASE msg \in [type : {"archive"}, chat : Chats]
  BY <1>1 DEF Arch
<1>2. CASE msg \in [type : {"ask"}, to : Sessions, room : Rooms]
  BY <1>2 DEF Arch
<1>3. CASE msg \in [type : {"history"}, to : Sessions, chats : Histories, archived : SUBSET Chats]
  BY <1>3 DEF Arch, Histories
<1> QED
  BY <1>1, <1>2, <1>3 DEF Calls

\* When nodes part nothing stays under way between them.
LEMMA DroppedLinks ==
  ASSUME NEW M, NEW links \in LinksOf(M), NEW m \in Nodes, NEW n \in Nodes
  PROVE  /\ Dropped(links, m, n) \in LinksOf(M)
         /\ \A a, b \in Nodes : IF (a = m /\ b = n) \/ (a = n /\ b = m)
                                THEN Dropped(links, m, n)[a][b] = <<>>
                                ELSE Dropped(links, m, n)[a][b] = links[a][b]
<1>1. <<>> \in Seq(M)
  OBVIOUS
<1> QED
  BY <1>1 DEF Dropped, LinksOf

-----------------------------------------------------------------------------
\* Typing.  It needs that the chats of a sender are numbered, for that is how
\* the thread of a session finds the chat it has published.

Count(s) == Cardinality(Sent(s))

Numbered ==
  /\ IsFiniteSet(sent)
  /\ \A c \in sent : c.n <= Count(c.from)
  /\ \A c, d \in sent : c.from = d.from /\ c.n = d.n => c = d
  /\ \A s \in Sessions : step[s] = "archive" => \E c \in Sent(s) : c.n = Count(s)

\* Calls q under way between nodes that reach each other by j.
Reached(q, j) ==
  /\ q \in LinksOf(Calls)
  /\ NoLoop(q, j)
  /\ \A m, n \in Nodes : q[m][n] # <<>> => n \in j[m]

Linked ==
  /\ casts \in LinksOf(Chats) /\ NoLoop(casts, joined)
  /\ Reached(calls, joined)
  /\ \A m, n \in Nodes : n \in joined[m] <=> m \in joined[n]

Joining == \A s \in Sessions : step[s] = "join" => target[s] \in Rooms

Typed == TypeOK /\ Numbered /\ Linked /\ Joining

LEMMA CallSent ==
  ASSUME NEW q, NEW j, Reached(q, j), NEW m \in Nodes, NEW S \in SUBSET j[m], NEW msg \in Calls
  PROVE  /\ Reached(Publish(q, m, S, msg), j)
         /\ \A a, b \in Nodes : Publish(q, m, S, msg)[a][b] =
              IF a = m /\ b \in S THEN Append(q[a][b], msg) ELSE q[a][b]
<1>1. q \in LinksOf(Calls) /\ NoLoop(q, j)
  BY DEF Reached
<1>2. /\ Publish(q, m, S, msg) \in LinksOf(Calls)
      /\ \A a, b \in Nodes : Publish(q, m, S, msg)[a][b] =
           IF a = m /\ b \in S THEN Append(q[a][b], msg) ELSE q[a][b]
  BY <1>1, PublishLinks
<1>3. NoLoop(Publish(q, m, S, msg), j)
  BY <1>1, StillNoLoop
<1> QED
  BY <1>2, <1>3 DEF Reached

LEMMA CallTaken ==
  ASSUME NEW q, NEW j, Reached(q, j), NEW m \in Nodes, NEW n \in Nodes, q[m][n] # <<>>
  PROVE  /\ m # n /\ n \in j[m]
         /\ q[m][n] \in Seq(Calls) /\ Head(q[m][n]) \in Calls
         /\ Reached(Consume(q, m, n), j)
         /\ \A a, b \in Nodes :
              Consume(q, m, n)[a][b] = IF a = m /\ b = n THEN Tail(q[a][b]) ELSE q[a][b]
<1>1. q \in LinksOf(Calls) /\ NoLoop(q, j) /\ n \in j[m]
  BY DEF Reached
<1>2. m # n /\ q[m][n] \in Seq(Calls)
  BY <1>1 DEF NoLoop, LinksOf
<1>3. /\ Consume(q, m, n) \in LinksOf(Calls)
      /\ Head(q[m][n]) \in Calls
      /\ \A a, b \in Nodes :
           Consume(q, m, n)[a][b] = IF a = m /\ b = n THEN Tail(q[a][b]) ELSE q[a][b]
  BY <1>1, ConsumeLinks
<1>4. NoLoop(Consume(q, m, n), j)
  BY <1>1, StillNoLoop
<1> QED
  BY <1>1, <1>2, <1>3, <1>4 DEF Reached

\* The handler of a call finds it at the head of a queue.
LEMMA CallHeard ==
  ASSUME Typed, NEW m \in Nodes, NEW n \in Nodes, NEW type, Hears(m, n, type)
  PROVE  /\ m # n /\ n \in joined[m] /\ m \in joined[n]
         /\ calls[m][n] # <<>> /\ calls[m][n] \in Seq(Calls)
         /\ Head(calls[m][n]) \in Calls /\ Head(calls[m][n]).type = type
         /\ Reached(Consume(calls, m, n), joined)
         /\ \A a, b \in Nodes : Consume(calls, m, n)[a][b] =
              IF a = m /\ b = n THEN Tail(calls[a][b]) ELSE calls[a][b]
<1>1. calls[m][n] # <<>> /\ Head(calls[m][n]).type = type /\ Reached(calls, joined)
  BY DEF Hears, Typed, Linked
<1>2. /\ m # n /\ n \in joined[m]
      /\ calls[m][n] \in Seq(Calls) /\ Head(calls[m][n]) \in Calls
      /\ Reached(Consume(calls, m, n), joined)
      /\ \A a, b \in Nodes : Consume(calls, m, n)[a][b] =
           IF a = m /\ b = n THEN Tail(calls[a][b]) ELSE calls[a][b]
  BY <1>1, CallTaken
<1> QED
  BY <1>1, <1>2 DEF Typed, Linked

\* The oldest cast of m to n: they are two nodes, and n takes it.
LEMMA CastHeard ==
  ASSUME Typed, NEW m \in Nodes, NEW n \in Nodes, ReceiveCast(m, n)
  PROVE  /\ casts[m][n] # <<>> /\ casts[m][n] \in Seq(Chats)
         /\ Head(casts[m][n]) \in Chats
         /\ casts' \in LinksOf(Chats) /\ NoLoop(casts', joined)
         /\ \A a, b \in Nodes : casts'[a][b] =
              IF a = m /\ b = n THEN Tail(casts[a][b]) ELSE casts[a][b]
<1>1. casts[m][n] # <<>> /\ casts' = Consume(casts, m, n)
  BY DEF ReceiveCast
<1>2. casts \in LinksOf(Chats) /\ NoLoop(casts, joined) /\ casts[m][n] \in Seq(Chats)
  BY DEF Typed, Linked, LinksOf
<1>3. NoLoop(Consume(casts, m, n), joined)
  BY <1>1, <1>2, StillNoLoop
<1>4. /\ Consume(casts, m, n) \in LinksOf(Chats)
      /\ Head(casts[m][n]) \in Chats
      /\ \A a, b \in Nodes : Consume(casts, m, n)[a][b] =
           IF a = m /\ b = n THEN Tail(casts[a][b]) ELSE casts[a][b]
  BY <1>1, <1>2, ConsumeLinks
<1> QED
  BY <1>1, <1>2, <1>3, <1>4

\* When nodes part nothing is under way between them any more, nor will be.
LEMMA NodesPartEffect ==
  ASSUME Typed, NEW m \in Nodes, NEW n \in Nodes, NodesPart(m, n)
  PROVE  /\ m # n
         /\ casts' \in LinksOf(Chats) /\ NoLoop(casts', joined')
         /\ Reached(calls', joined')
         /\ \A a, b \in Nodes :
              /\ casts'[a][b] = IF (a = m /\ b = n) \/ (a = n /\ b = m) THEN <<>>
                                ELSE casts[a][b]
              /\ calls'[a][b] = IF (a = m /\ b = n) \/ (a = n /\ b = m) THEN <<>>
                                ELSE calls[a][b]
         /\ joined' \in [Nodes -> SUBSET Nodes]
         /\ \A a, b \in Nodes : b \in joined'[a] <=>
              b \in joined[a] /\ ~ (a = m /\ b = n) /\ ~ (a = n /\ b = m)
<1>1. /\ casts \in LinksOf(Chats) /\ calls \in LinksOf(Calls)
      /\ NoLoop(casts, joined) /\ NoLoop(calls, joined)
      /\ \A a, b \in Nodes : calls[a][b] # <<>> => b \in joined[a]
      /\ joined \in [Nodes -> SUBSET Nodes]
  BY DEF Typed, TypeOK, Linked, Reached
<1>2. /\ n \in joined[m]
      /\ casts' = Dropped(casts, m, n) /\ calls' = Dropped(calls, m, n)
      /\ joined' = Part(joined, m, n)
  BY DEF NodesPart
<1>3. m # n
  BY <1>1, <1>2 DEF NoLoop
<1>a. casts \in LinksOf(Chats) /\ calls \in LinksOf(Calls)
  BY <1>1
<1>4. /\ Dropped(casts, m, n) \in LinksOf(Chats)
      /\ \A a, b \in Nodes : IF (a = m /\ b = n) \/ (a = n /\ b = m)
                             THEN Dropped(casts, m, n)[a][b] = <<>>
                             ELSE Dropped(casts, m, n)[a][b] = casts[a][b]
  BY <1>a, DroppedLinks
<1>5. /\ Dropped(calls, m, n) \in LinksOf(Calls)
      /\ \A a, b \in Nodes : IF (a = m /\ b = n) \/ (a = n /\ b = m)
                             THEN Dropped(calls, m, n)[a][b] = <<>>
                             ELSE Dropped(calls, m, n)[a][b] = calls[a][b]
  BY <1>a, DroppedLinks
<1>6. /\ joined' \in [Nodes -> SUBSET Nodes]
      /\ \A a, b \in Nodes : b \in joined'[a] <=>
           b \in joined[a] /\ ~ (a = m /\ b = n) /\ ~ (a = n /\ b = m)
  BY <1>1, <1>2, <1>3, JoinedNodes
<1>7. NoLoop(casts', joined') /\ Reached(calls', joined')
  BY <1>1, <1>2, <1>3, <1>4, <1>5, <1>6 DEF NoLoop, Reached
<1> QED
  BY <1>2, <1>3, <1>4, <1>5, <1>6, <1>7

\* How many chats a session has sent.
LEMMA CountType ==
  ASSUME TypeOK, IsFiniteSet(sent), NEW s \in Sessions
  PROVE  /\ Sent(s) \subseteq sent
         /\ Count(s) \in Nat /\ Count(s) <= Cardinality(sent) /\ Cardinality(sent) \in Nat
<1>1. Sent(s) \subseteq sent
  BY DEF Sent
<1>2. IsFiniteSet(Sent(s)) /\ Cardinality(Sent(s)) <= Cardinality(sent)
  BY <1>1, FS_Subset
<1> QED
  BY <1>1, <1>2, FS_CardinalityType DEF Count

\* The chat that the thread of a session has published is its last one.
LEMMA PublishedChat ==
  ASSUME TypeOK, Numbered, NEW s \in Sessions, step[s] = "archive"
  PROVE  /\ Published(s) \in sent /\ Published(s) \in Chats
         /\ Published(s).from = s /\ Published(s).n = Count(s)
<1>1. PICK c \in Sent(s) : c.n = Count(s)
  BY DEF Numbered
<1>2. \A d \in Sent(s) : d \in sent /\ d \in Chats /\ d.from = s /\ d.n \in Nat /\ d.n <= c.n
  BY <1>1 DEF Numbered, TypeOK, Sent, Chats
<1>3. /\ Published(s) \in Sent(s)
      /\ \A d \in Sent(s) : d.n <= Published(s).n
  BY <1>1, <1>2 DEF Published
<1>4. Published(s).n = c.n
  BY <1>2, <1>3
<1> QED
  BY <1>1, <1>2, <1>3, <1>4

\* The chat that a session sends next.
LEMMA NextChatType ==
  ASSUME TypeOK, Numbered, NEW s \in Sessions, room[s] # NoRoom, Cardinality(sent) < MaxChats
  PROVE  /\ NextChat(s) \in Chats
         /\ NextChat(s).from = s /\ NextChat(s).room = room[s]
         /\ NextChat(s).n = Count(s) + 1
         /\ NextChat(s) \notin sent
<1>1. IsFiniteSet(sent)
  BY DEF Numbered
<1>2. Count(s) \in Nat /\ Count(s) <= Cardinality(sent) /\ Cardinality(sent) \in Nat
  BY <1>1, CountType
<1>3. Count(s) + 1 \in 1 .. MaxChats
  BY <1>2, ChatAssumption
<1>4. room[s] \in Rooms
  BY DEF TypeOK
<1>5. NextChat(s) = [from |-> s, n |-> Count(s) + 1, room |-> room[s]]
  BY DEF NextChat, Count
<1>6. NextChat(s) \in Chats
  BY <1>3, <1>4, <1>5 DEF Chats
<1>7. \A c \in sent : c.from = s => c.n <= Count(s)
  BY DEF Numbered
<1>8. NextChat(s) \notin sent
  BY <1>2, <1>5, <1>7
<1> QED
  BY <1>5, <1>6, <1>8

\* Threads that have done something, or have nothing to do, need no more than
\* they have.
LEMMA NumberedKept ==
  ASSUME Numbered, Joining, sent' = sent,
         \A s \in Sessions :
           step'[s] = "idle" \/ (step'[s] = step[s] /\ target'[s] = target[s])
  PROVE  Numbered' /\ Joining'
<1>1. Numbered'
  BY DEF Numbered, Count, Sent
<1>2. Joining'
  BY DEF Joining
<1> QED
  BY <1>1, <1>2

LEMMA HistoryShown ==
  ASSUME TypeOK, NEW s \in Sessions, NEW chats \in Histories, NEW archived \in SUBSET Chats,
         OnChatHistory(s, chats, archived)
  PROVE  shown' \in [Sessions -> Seq(Chats)] /\ overtaken' \in [Sessions -> SUBSET Chats]
<1>1. /\ shown \in [Sessions -> Seq(Chats)] /\ overtaken \in [Sessions -> SUBSET Chats]
      /\ chats \in Seq(Chats) /\ sent \ archived \in SUBSET Chats
  BY DEF TypeOK, Histories
<1>2. \/ UNCHANGED <<shown, overtaken>>
      \/ /\ shown' = [shown EXCEPT ![s] = chats]
         /\ overtaken' = [overtaken EXCEPT ![s] = sent \ archived]
  BY DEF OnChatHistory, display
<1> QED
  BY <1>1, <1>2

LEMMA ChatShown ==
  ASSUME TypeOK, NEW n, NEW c \in Chats, OnChat(n, c)
  PROVE  shown' \in [Sessions -> Seq(Chats)]
  BY DEF TypeOK, OnChat

\* What a log holds as a history.
LEMMA HistoryType ==
  ASSUME TypeOK, NEW r \in Rooms
  PROVE  /\ log[r] \in Seq(Chats) /\ Latest(log[r]) \in Histories
         /\ Elements(log[r]) \in SUBSET Chats
<1>1. log[r] \in Seq(Chats)
  BY DEF TypeOK
<1>2. Elements(log[r]) \in SUBSET Chats
  BY <1>1 DEF Elements
<1> QED
  BY <1>1, <1>2, LatestChats

\* Whoever joins asks for the history: of its own node, or by a call that is
\* sent if the owner can be reached.
LEMMA AskEffect ==
  ASSUME Typed, NEW s \in Sessions, NEW r \in Rooms, Ask(s, r)
  PROVE  /\ shown' \in [Sessions -> Seq(Chats)] /\ overtaken' \in [Sessions -> SUBSET Chats]
         /\ Reached(calls', joined)
         /\ \/ /\ OnChatHistory(s, Latest(log[r]), Elements(log[r]))
               /\ calls' = calls
            \/ LET m == NodeOf[s]
                   n == OwnerOf[r]
                   msg == [type |-> "ask", to |-> s, room |-> r]
               IN /\ m # n
                  /\ \A a, b \in Nodes : calls'[a][b] =
                       IF a = m /\ b \in joined[m] \cap {n} THEN Append(calls[a][b], msg)
                       ELSE calls[a][b]
                  /\ overtaken' = [overtaken EXCEPT ![s] = sent]
                  /\ shown' = shown
<1>0. TypeOK /\ Reached(calls, joined)
  BY DEF Typed, Linked
<1>1. CASE OnChatHistory(s, Latest(log[r]), Elements(log[r])) /\ calls' = calls
  <2>1. Latest(log[r]) \in Histories /\ Elements(log[r]) \in SUBSET Chats
    BY <1>0, HistoryType
  <2>2. shown' \in [Sessions -> Seq(Chats)] /\ overtaken' \in [Sessions -> SUBSET Chats]
    BY <1>0, <1>1, <2>1, HistoryShown
  <2> QED
    BY <1>0, <1>1, <2>2
<1> DEFINE m == NodeOf[s]
           n == OwnerOf[r]
           msg == [type |-> "ask", to |-> s, room |-> r]
<1>2. CASE /\ n # m
           /\ calls' = Publish(calls, m, joined[m] \cap {n}, msg)
           /\ overtaken' = [overtaken EXCEPT ![s] = sent]
           /\ UNCHANGED shown
  <2>1. m \in Nodes /\ n \in Nodes /\ msg \in Calls
    BY CallKinds, ChatAssumption
  <2>2. joined[m] \cap {n} \in SUBSET joined[m]
    OBVIOUS
  <2> HIDE DEF m, n, msg
  <2>3. /\ Reached(Publish(calls, m, joined[m] \cap {n}, msg), joined)
        /\ \A a, b \in Nodes : Publish(calls, m, joined[m] \cap {n}, msg)[a][b] =
             IF a = m /\ b \in joined[m] \cap {n} THEN Append(calls[a][b], msg) ELSE calls[a][b]
    BY <1>0, <2>1, <2>2, CallSent
  <2>4. shown' \in [Sessions -> Seq(Chats)] /\ overtaken' \in [Sessions -> SUBSET Chats]
    BY <1>0, <1>2 DEF TypeOK
  <2>5. /\ Reached(calls', joined)
        /\ \A a, b \in Nodes : calls'[a][b] =
             IF a = m /\ b \in joined[m] \cap {n} THEN Append(calls[a][b], msg) ELSE calls[a][b]
    BY <1>2, <2>3
  <2> QED
    BY <1>2, <2>4, <2>5 DEF m, n, msg
<1> QED
  BY <1>1, <1>2 DEF Ask

\* A chat is published to the nodes that can be reached.
LEMMA SendChatEffect ==
  ASSUME Typed, NEW s \in Sessions, SendChat(s)
  PROVE  LET c == NextChat(s)
             m == NodeOf[s]
         IN /\ m \in Nodes /\ c \in Chats
            /\ c.from = s /\ c.room = room[s] /\ c.n = Count(s) + 1 /\ c \notin sent
            /\ casts' \in LinksOf(Chats) /\ NoLoop(casts', joined)
            /\ \A a, b \in Nodes : casts'[a][b] =
                 IF a = m /\ b \in joined[m] THEN Append(casts[a][b], c) ELSE casts[a][b]
            /\ shown' \in [Sessions -> Seq(Chats)]
<1> DEFINE c == NextChat(s)
           m == NodeOf[s]
<1>1. /\ room[s] # NoRoom /\ Cardinality(sent) < MaxChats
      /\ OnChat(m, c) /\ casts' = Publish(casts, m, joined[m], c)
  BY DEF SendChat
<1>2. m \in Nodes /\ TypeOK /\ Numbered /\ casts \in LinksOf(Chats) /\ NoLoop(casts, joined)
  BY ChatAssumption DEF Typed, Linked
<1>3. c \in Chats /\ c.from = s /\ c.room = room[s] /\ c.n = Count(s) + 1 /\ c \notin sent
  BY <1>1, <1>2, NextChatType
<1> HIDE DEF c, m
<1>4. /\ Publish(casts, m, joined[m], c) \in LinksOf(Chats)
      /\ \A a, b \in Nodes : Publish(casts, m, joined[m], c)[a][b] =
           IF a = m /\ b \in joined[m] THEN Append(casts[a][b], c) ELSE casts[a][b]
  BY <1>2, <1>3, PublishLinks
<1>5. NoLoop(Publish(casts, m, joined[m], c), joined)
  BY <1>2, <1>3, StillNoLoop
<1>6. shown' \in [Sessions -> Seq(Chats)]
  BY <1>1, <1>2, <1>3, ChatShown
<1> QED
  BY <1>1, <1>2, <1>3, <1>4, <1>5, <1>6 DEF c, m

\* A chat is archived here, forwarded or lost.
LEMMA ArchiveChatEffect ==
  ASSUME Typed, NEW s \in Sessions, ArchiveChat(s)
  PROVE  LET c == Published(s)
             m == NodeOf[s]
             n == OwnerOf[c.room]
         IN /\ step[s] = "archive" /\ step' = [step EXCEPT ![s] = "idle"]
            /\ c \in sent /\ c \in Chats /\ c.from = s /\ c.n = Count(s)
            /\ m \in Nodes /\ n \in Nodes
            /\ \/ /\ m = n
                  /\ log' = [log EXCEPT ![c.room] = Append(@, c)]
                  /\ UNCHANGED <<calls, lost>>
               \/ /\ m # n /\ n \in joined[m]
                  /\ Reached(calls', joined)
                  /\ \A a, b \in Nodes : calls'[a][b] =
                       IF a = m /\ b = n THEN Append(calls[a][b], Arch(c)) ELSE calls[a][b]
                  /\ UNCHANGED <<log, lost>>
               \/ /\ m # n
                  /\ lost' = lost \cup {c}
                  /\ UNCHANGED <<log, calls>>
<1> DEFINE c == Published(s)
           m == NodeOf[s]
           n == OwnerOf[c.room]
<1>1. step[s] = "archive" /\ step' = [step EXCEPT ![s] = "idle"]
  BY DEF ArchiveChat
<1>2. TypeOK /\ Numbered /\ Reached(calls, joined)
  BY DEF Typed, Linked
<1>3. c \in sent /\ c \in Chats /\ c.from = s /\ c.n = Count(s)
  BY <1>1, <1>2, PublishedChat
<1>4. m \in Nodes /\ n \in Nodes /\ Arch(c) \in Calls
  BY <1>3, CallKinds, ChatAssumption DEF Chats
<1>5. \/ /\ n = m
         /\ log' = [log EXCEPT ![c.room] = Append(@, c)]
         /\ UNCHANGED <<calls, lost>>
      \/ /\ n # m /\ n \in joined[m]
         /\ calls' = Publish(calls, m, {n}, Arch(c))
         /\ UNCHANGED <<log, lost>>
      \/ /\ n # m
         /\ lost' = lost \cup {c}
         /\ UNCHANGED <<log, calls>>
  BY DEF ArchiveChat, Arch
<1> HIDE DEF c, m, n
<1>6. ASSUME n \in joined[m], calls' = Publish(calls, m, {n}, Arch(c))
      PROVE  /\ Reached(calls', joined)
             /\ \A a, b \in Nodes : calls'[a][b] =
                  IF a = m /\ b = n THEN Append(calls[a][b], Arch(c)) ELSE calls[a][b]
  <2> DEFINE S == {n}
  <2>1. S \in SUBSET joined[m] /\ calls' = Publish(calls, m, S, Arch(c))
    BY <1>6
  <2>2. \A b : b \in S <=> b = n
    OBVIOUS
  <2> HIDE DEF S
  <2>3. /\ Reached(Publish(calls, m, S, Arch(c)), joined)
        /\ \A a, b \in Nodes : Publish(calls, m, S, Arch(c))[a][b] =
             IF a = m /\ b \in S THEN Append(calls[a][b], Arch(c)) ELSE calls[a][b]
    BY <1>2, <1>4, <2>1, CallSent
  <2> QED
    BY <2>1, <2>2, <2>3
<1>7. \/ /\ m = n
         /\ log' = [log EXCEPT ![c.room] = Append(@, c)]
         /\ UNCHANGED <<calls, lost>>
      \/ /\ m # n /\ n \in joined[m]
         /\ Reached(calls', joined)
         /\ \A a, b \in Nodes : calls'[a][b] =
              IF a = m /\ b = n THEN Append(calls[a][b], Arch(c)) ELSE calls[a][b]
         /\ UNCHANGED <<log, lost>>
      \/ /\ m # n
         /\ lost' = lost \cup {c}
         /\ UNCHANGED <<log, calls>>
  BY <1>5, <1>6
<1> QED
  BY <1>1, <1>3, <1>4, <1>7 DEF c, m, n

AnswerTo(msg) == [type |-> "history", to |-> msg.to, chats |-> Latest(log[msg.room]),
                  archived |-> Elements(log[msg.room])]

\* The owner answers with the history as it is.
LEMMA ReceiveAskEffect ==
  ASSUME Typed, NEW m \in Nodes, NEW n \in Nodes, ReceiveAsk(m, n)
  PROVE  /\ m # n /\ calls[m][n] # <<>> /\ calls[m][n] \in Seq(Calls)
         /\ Head(calls[m][n]) \in Calls /\ Head(calls[m][n]).type = "ask"
         /\ AnswerTo(Head(calls[m][n])) \in Calls
         /\ Reached(calls', joined)
         /\ \A a, b \in Nodes : calls'[a][b] =
              IF a = m /\ b = n THEN Tail(calls[a][b])
              ELSE IF a = n /\ b = m THEN Append(calls[a][b], AnswerTo(Head(calls[m][n])))
              ELSE calls[a][b]
<1> DEFINE msg == Head(calls[m][n])
           answer == AnswerTo(msg)
           rest == Consume(calls, m, n)
<1>1. Hears(m, n, "ask") /\ calls' = Publish(rest, n, joined[n] \cap {m}, answer)
  BY DEF ReceiveAsk, AnswerTo
<1>2. /\ m # n /\ m \in joined[n]
      /\ calls[m][n] # <<>> /\ calls[m][n] \in Seq(Calls)
      /\ msg \in Calls /\ msg.type = "ask"
      /\ Reached(rest, joined)
      /\ \A a, b \in Nodes : rest[a][b] =
           IF a = m /\ b = n THEN Tail(calls[a][b]) ELSE calls[a][b]
  BY <1>1, CallHeard
<1> HIDE DEF msg, rest
<1>3. answer \in Calls
  <2>1. msg.to \in Sessions /\ msg.room \in Rooms
    BY <1>2, CallParts
  <2>2. Latest(log[msg.room]) \in Histories /\ Elements(log[msg.room]) \in SUBSET Chats
    BY <2>1, HistoryType DEF Typed
  <2> QED
    BY <2>1, <2>2, CallKinds DEF AnswerTo
<1> HIDE DEF answer
<1> DEFINE S == joined[n] \cap {m}
<1>4. S \in SUBSET joined[n] /\ Reached(rest, joined)
  BY <1>2
<1>b. \A b : b \in S <=> b = m
  BY <1>2
<1>a. calls' = Publish(rest, n, S, answer)
  BY <1>1
<1> HIDE DEF S
<1>5. /\ Reached(Publish(rest, n, S, answer), joined)
      /\ \A a, b \in Nodes : Publish(rest, n, S, answer)[a][b] =
           IF a = n /\ b \in S THEN Append(rest[a][b], answer) ELSE rest[a][b]
  <2>1. answer \in Calls /\ n \in Nodes
    BY <1>3
  <2>2. S \in SUBSET joined[n]
    BY <1>4
  <2>3. Reached(rest, joined)
    BY <1>4
  <2>4. Reached(Publish(rest, n, S, answer), joined)
    BY <2>1, <2>2, <2>3, CallSent
  <2>5. \A a, b \in Nodes : Publish(rest, n, S, answer)[a][b] =
                    IF a = n /\ b \in S THEN Append(rest[a][b], answer) ELSE rest[a][b]
    BY <2>1, <2>2, <2>3, CallSent
  <2> QED
    BY <2>4, <2>5
<1>6. /\ Reached(calls', joined)
      /\ \A a, b \in Nodes : calls'[a][b] =
           IF a = n /\ b = m THEN Append(rest[a][b], answer) ELSE rest[a][b]
  BY <1>5, <1>a, <1>b
<1>7. \A a, b \in Nodes : calls'[a][b] =
        IF a = m /\ b = n THEN Tail(calls[a][b])
        ELSE IF a = n /\ b = m THEN Append(calls[a][b], answer)
        ELSE calls[a][b]
  BY <1>2, <1>6
<1> QED
  BY <1>2, <1>3, <1>6, <1>7 DEF msg, answer

\* The steps of sessions that send no chat.
LEMMA SessionTyped ==
  ASSUME Typed, NEW s \in Sessions,
         \/ \E r \in Rooms : Subscribe(s, r)
         \/ JoinRoom(s) \/ LeaveRoom(s) \/ Disconnect(s)
  PROVE  Typed'
<1> USE DEF display, cluster
<1>0. TypeOK /\ Numbered /\ Linked /\ Joining
  BY DEF Typed
<1>1. ASSUME NEW r \in Rooms, Subscribe(s, r)
      PROVE  Typed'
  <2>1. /\ step' = [step EXCEPT ![s] = "join"] /\ target' = [target EXCEPT ![s] = r]
        /\ sent' = sent
    BY <1>1 DEF Subscribe
  <2>2. TypeOK'
    BY <1>0, <1>1, ChatAssumption DEF Subscribe, TypeOK
  <2>3. /\ \A t \in Sessions : step'[t] = "archive" => step[t] = "archive"
        /\ \A t \in Sessions : step'[t] = "join" => t = s \/ step[t] = "join"
        /\ \A t \in Sessions : target'[t] = IF t = s THEN r ELSE target[t]
    BY <1>0, <2>1 DEF TypeOK
  <2>4. Numbered'
    BY <1>0, <2>1, <2>3 DEF Numbered, Count, Sent
  <2>5. Joining'
    BY <1>0, <2>3 DEF Joining
  <2>6. Linked'
    BY <1>0, <1>1 DEF Subscribe, Linked
  <2> QED
    BY <2>2, <2>4, <2>5, <2>6 DEF Typed
<1>2. CASE JoinRoom(s)
  <2>1. /\ step[s] = "join"
        /\ step' = [step EXCEPT ![s] = "idle"] /\ target' = [target EXCEPT ![s] = NoRoom]
        /\ UNCHANGED <<open, subs, sent, log, casts, cluster, joins, lost, unheard>>
        /\ \/ OnRoomJoined(s, target[s]) /\ Ask(s, target[s])
           \/ UNCHANGED <<room, display, calls>>
    BY <1>2 DEF JoinRoom
  <2>2. target[s] \in Rooms
    BY <1>0, <2>1 DEF Joining
  <2>3. /\ shown' \in [Sessions -> Seq(Chats)] /\ overtaken' \in [Sessions -> SUBSET Chats]
        /\ room' \in [Sessions -> Rooms \cup {NoRoom}]
        /\ Reached(calls', joined)
    <3>1. CASE UNCHANGED <<room, display, calls>>
      BY <1>0, <3>1 DEF TypeOK, Linked
    <3>2. CASE OnRoomJoined(s, target[s]) /\ Ask(s, target[s])
      <4>1. room' \in [Sessions -> Rooms \cup {NoRoom}]
        BY <1>0, <2>2, <3>2 DEF OnRoomJoined, TypeOK
      <4> QED
        BY <2>2, <3>2, <4>1, AskEffect
    <3> QED
      BY <2>1, <3>1, <3>2
  <2>4. TypeOK'
    BY <1>0, <2>1, <2>3 DEF TypeOK, Reached, LinksOf
  <2>5. Numbered' /\ Joining'
    <3>1. \A t \in Sessions :
            step'[t] = "idle" \/ (step'[t] = step[t] /\ target'[t] = target[t])
      BY <1>0, <2>1 DEF TypeOK
    <3> QED
      BY <1>0, <2>1, <3>1, NumberedKept
  <2>6. Linked'
    BY <1>0, <2>1, <2>3 DEF Linked
  <2> QED
    BY <2>4, <2>5, <2>6 DEF Typed
<1>3. CASE LeaveRoom(s) \/ Disconnect(s)
  <2>1. TypeOK'
    <3>1. \/ shown' = shown
          \/ shown' = [shown EXCEPT ![s] = <<>>]
      BY <1>3 DEF LeaveRoom, Disconnect, OnRoomLeft
    <3>2. shown' \in [Sessions -> Seq(Chats)]
      <4>1. shown \in [Sessions -> Seq(Chats)] /\ <<>> \in Seq(Chats)
        BY <1>0 DEF TypeOK
      <4> DEFINE empty == [shown EXCEPT ![s] = <<>>]
      <4>2. empty \in [Sessions -> Seq(Chats)]
        BY <4>1
      <4> QED
        BY <3>1, <4>1, <4>2
    <3>3. CASE LeaveRoom(s)
      BY <1>0, <3>2, <3>3 DEF LeaveRoom, TypeOK
    <3>4. CASE Disconnect(s)
      BY <1>0, <3>2, <3>4 DEF Disconnect, TypeOK
    <3> QED
      BY <1>3, <3>3, <3>4
  <2>2. sent' = sent /\ step' = step /\ target' = target
    BY <1>3 DEF LeaveRoom, Disconnect
  <2>3. Numbered' /\ Joining'
    BY <1>0, <2>2, NumberedKept
  <2>4. Linked'
    BY <1>0, <1>3 DEF LeaveRoom, Disconnect, Linked
  <2> QED
    BY <2>1, <2>3, <2>4 DEF Typed
<1> QED
  BY <1>1, <1>2, <1>3

\* The steps of sessions that send a chat.
LEMMA SenderTyped ==
  ASSUME Typed, NEW s \in Sessions, SendChat(s) \/ ArchiveChat(s)
  PROVE  Typed'
<1> USE DEF display, cluster
<1>0. TypeOK /\ Numbered /\ Linked /\ Joining
  BY DEF Typed
<1>1. CASE SendChat(s)
  <2> DEFINE c == NextChat(s)
             m == NodeOf[s]
  <2>1. /\ sent' = sent \cup {c}
        /\ step' = [step EXCEPT ![s] = "archive"] /\ target' = target
        /\ unheard' = unheard \cup ((Nodes \ (joined[m] \cup {m})) \X {c})
        /\ UNCHANGED <<open, room, subs, target, log, calls, cluster, joins, lost, overtaken>>
    BY <1>1 DEF SendChat
  <2>2. /\ m \in Nodes /\ c \in Chats
        /\ c.from = s /\ c.room = room[s] /\ c.n = Count(s) + 1 /\ c \notin sent
        /\ casts' \in LinksOf(Chats) /\ NoLoop(casts', joined)
        /\ shown' \in [Sessions -> Seq(Chats)]
    BY <1>1, SendChatEffect
  <2> HIDE DEF c, m
  <2>3. TypeOK'
    BY <1>0, <2>1, <2>2 DEF TypeOK, LinksOf
  <2>4. Numbered'
    <3>1. \A t \in Sessions : Count(t) \in Nat
      BY <1>0, CountType DEF Numbered
    <3>2. IsFiniteSet(sent')
      BY <1>0, <2>1, FS_AddElement DEF Numbered
    <3>3. ASSUME NEW t \in Sessions
          PROVE  Count(t)' = IF t = s THEN Count(t) + 1 ELSE Count(t)
      <4>1. Sent(t)' = IF t = s THEN Sent(t) \cup {c} ELSE Sent(t)
        BY <2>1, <2>2 DEF Sent
      <4>2. IsFiniteSet(Sent(t)) /\ c \notin Sent(t)
        BY <1>0, <2>2, FS_Subset DEF Numbered, Sent
      <4>3. Cardinality(Sent(t) \cup {c}) = Cardinality(Sent(t)) + 1
        BY <4>2, FS_AddElement
      <4> QED
        BY <4>1, <4>3 DEF Count
    <3>4. \A d \in sent : d.from \in Sessions /\ d.n \in Nat /\ d.n <= Count(d.from)
      BY <1>0 DEF Numbered, TypeOK, Chats
    <3>5. \A d \in sent' : d.n <= Count(d.from)'
      BY SMTT(30), <2>1, <2>2, <3>1, <3>3, <3>4
    <3>6. \A d, e \in sent' : d.from = e.from /\ d.n = e.n => d = e
      BY <1>0, <2>1, <2>2, <3>1, <3>4 DEF Numbered
    <3>7. ASSUME NEW t \in Sessions, step'[t] = "archive"
          PROVE  \E d \in Sent(t)' : d.n = Count(t)'
      <4>1. CASE t = s
        <5>1. c \in Sent(t)'
          BY <2>1, <2>2, <4>1 DEF Sent
        <5> QED
          BY <2>2, <3>3, <4>1, <5>1
      <4>2. CASE t # s
        <5>1. step[t] = "archive"
          BY <1>0, <2>1, <3>7, <4>2 DEF TypeOK
        <5>2. PICK d \in Sent(t) : d.n = Count(t)
          BY <1>0, <5>1 DEF Numbered
        <5>3. d \in Sent(t)'
          BY <2>1 DEF Sent
        <5> QED
          BY <3>3, <4>2, <5>2, <5>3
      <4> QED
        BY <4>1, <4>2
    <3> QED
      BY <3>2, <3>5, <3>6, <3>7 DEF Numbered
  <2>5. Joining'
    BY <1>0, <2>1 DEF Joining, TypeOK
  <2>6. Linked'
    BY <1>0, <2>1, <2>2 DEF Linked
  <2> QED
    BY <2>3, <2>4, <2>5, <2>6 DEF Typed
<1>2. CASE ArchiveChat(s)
  <2> DEFINE c == Published(s)
             m == NodeOf[s]
             n == OwnerOf[c.room]
  <2>1. /\ step' = [step EXCEPT ![s] = "idle"]
        /\ c \in Chats /\ m \in Nodes /\ n \in Nodes
        /\ \/ /\ log' = [log EXCEPT ![c.room] = Append(@, c)]
              /\ UNCHANGED <<calls, lost>>
           \/ /\ Reached(calls', joined)
              /\ UNCHANGED <<log, lost>>
           \/ /\ lost' = lost \cup {c}
              /\ UNCHANGED <<log, calls>>
    BY <1>2, ArchiveChatEffect
  <2>2. UNCHANGED <<open, room, subs, display, target, sent, casts, cluster, joins, unheard>>
    BY <1>2 DEF ArchiveChat
  <2> HIDE DEF c, m, n
  <2>3. Reached(calls', joined) /\ calls' \in LinksOf(Calls)
    BY <1>0, <2>1 DEF Linked, Reached
  <2>4. TypeOK'
    <3>1. log \in [Rooms -> Seq(Chats)] /\ lost \in SUBSET Chats /\ c.room \in Rooms
      BY <1>0, <2>1 DEF TypeOK, Chats
    <3>2. Append(log[c.room], c) \in Seq(Chats)
      BY <2>1, <3>1
    <3>3. log' \in [Rooms -> Seq(Chats)] /\ lost' \in SUBSET Chats
      BY <2>1, <3>1, <3>2
    <3> QED
      BY <1>0, <2>1, <2>2, <2>3, <3>3 DEF TypeOK, LinksOf
  <2>5. Numbered' /\ Joining'
    <3>1. \A t \in Sessions :
            step'[t] = "idle" \/ (step'[t] = step[t] /\ target'[t] = target[t])
      BY <1>0, <2>1, <2>2 DEF TypeOK
    <3> QED
      BY <1>0, <2>2, <3>1, NumberedKept
  <2>6. Linked'
    BY <1>0, <2>2, <2>3 DEF Linked
  <2> QED
    BY <2>4, <2>5, <2>6 DEF Typed
<1> QED
  BY <1>1, <1>2

\* What nodes get from each other.
LEMMA CallsTyped ==
  ASSUME Typed, NEW m \in Nodes, NEW n \in Nodes,
         \/ ReceiveCast(m, n) \/ ReceiveArchive(m, n)
         \/ ReceiveAsk(m, n) \/ ReceiveHistory(m, n) \/ LateHistory(m, n)
  PROVE  Typed'
<1> USE DEF display, cluster
<1>0. TypeOK /\ Numbered /\ Linked /\ Joining
  BY DEF Typed
<1>1. /\ sent' = sent /\ step' = step /\ target' = target
      /\ UNCHANGED <<open, room, subs, cluster, joins, lost, unheard>>
  BY DEF ReceiveCast, ReceiveArchive, ReceiveAsk, ReceiveHistory, LateHistory
<1>2. Numbered' /\ Joining'
  BY <1>0, <1>1, NumberedKept
<1>3. CASE ReceiveCast(m, n)
  <2>1. Head(casts[m][n]) \in Chats /\ casts' \in LinksOf(Chats) /\ NoLoop(casts', joined)
    BY <1>3, CastHeard
  <2>2. shown' \in [Sessions -> Seq(Chats)]
    BY <1>0, <1>3, <2>1, ChatShown DEF ReceiveCast
  <2>3. UNCHANGED <<log, calls, overtaken>>
    BY <1>3 DEF ReceiveCast
  <2>4. TypeOK'
    BY <1>0, <1>1, <2>1, <2>2, <2>3 DEF TypeOK, LinksOf
  <2>5. Linked'
    BY <1>0, <1>1, <2>1, <2>3 DEF Linked
  <2> QED
    BY <1>2, <2>4, <2>5 DEF Typed
<1>4. ASSUME Reached(calls', joined), casts' = casts, log' \in [Rooms -> Seq(Chats)],
             shown' \in [Sessions -> Seq(Chats)], overtaken' \in [Sessions -> SUBSET Chats]
      PROVE  Typed'
  <2>1. calls' \in LinksOf(Calls)
    BY <1>4 DEF Reached
  <2>2. TypeOK'
    BY <1>0, <1>1, <1>4, <2>1 DEF TypeOK, LinksOf
  <2>3. Linked'
    BY <1>0, <1>1, <1>4 DEF Linked
  <2> QED
    BY <1>2, <2>2, <2>3 DEF Typed
<1> DEFINE msg == Head(calls[m][n])
<1>5. CASE ReceiveArchive(m, n)
  <2>1. /\ Hears(m, n, "archive") /\ calls' = Consume(calls, m, n)
        /\ log' = [log EXCEPT ![msg.chat.room] = Append(@, msg.chat)]
        /\ UNCHANGED <<display, casts>>
    BY <1>5 DEF ReceiveArchive
  <2>2. msg \in Calls /\ msg.type = "archive" /\ Reached(calls', joined)
    BY <2>1, CallHeard
  <2> HIDE DEF msg
  <2>3. msg.chat \in Chats /\ msg.chat.room \in Rooms
    BY <2>2, CallParts DEF Chats
  <2>4. log \in [Rooms -> Seq(Chats)] /\ Append(log[msg.chat.room], msg.chat) \in Seq(Chats)
    BY <1>0, <2>3 DEF TypeOK
  <2>5. log' \in [Rooms -> Seq(Chats)]
    BY <2>1, <2>3, <2>4
  <2> QED
    BY <1>0, <1>4, <2>1, <2>2, <2>5 DEF TypeOK
<1>6. CASE ReceiveAsk(m, n)
  <2>1. Reached(calls', joined)
    BY <1>6, ReceiveAskEffect
  <2>2. UNCHANGED <<display, casts, log>>
    BY <1>6 DEF ReceiveAsk
  <2> QED
    BY <1>0, <1>4, <2>1, <2>2 DEF TypeOK
<1>7. CASE ReceiveHistory(m, n)
  <2>1. /\ Hears(m, n, "history") /\ calls' = Consume(calls, m, n)
        /\ OnChatHistory(msg.to, msg.chats, msg.archived)
        /\ UNCHANGED <<casts, log>>
    BY <1>7 DEF ReceiveHistory
  <2>2. msg \in Calls /\ msg.type = "history" /\ Reached(calls', joined)
    BY <2>1, CallHeard
  <2> HIDE DEF msg
  <2>3. msg.to \in Sessions /\ msg.chats \in Histories /\ msg.archived \in SUBSET Chats
    BY <2>2, CallParts
  <2>4. shown' \in [Sessions -> Seq(Chats)] /\ overtaken' \in [Sessions -> SUBSET Chats]
    BY <1>0, <2>1, <2>3, HistoryShown
  <2> QED
    BY <1>0, <1>4, <2>1, <2>2, <2>4 DEF TypeOK
<1>8. CASE LateHistory(m, n)
  <2>1. /\ Hears(m, n, "history") /\ calls' = Consume(calls, m, n)
        /\ UNCHANGED <<display, casts, log>>
    BY <1>8 DEF LateHistory
  <2>2. Reached(calls', joined)
    BY <2>1, CallHeard
  <2> QED
    BY <1>0, <1>4, <2>1, <2>2 DEF TypeOK
<1> QED
  BY <1>3, <1>5, <1>6, <1>7, <1>8

\* Nodes part and join.
LEMMA ClusterTyped ==
  ASSUME Typed, NEW m \in Nodes, NEW n \in Nodes,
         NodesPart(m, n) \/ NodesJoin(m, n) \/ RoomsFollow(m, n)
  PROVE  Typed'
<1> USE DEF display, cluster
<1>0. TypeOK /\ Numbered /\ Linked /\ Joining
  BY DEF Typed
<1>1. /\ sent' = sent /\ step' = step /\ target' = target
      /\ UNCHANGED <<open, room, subs, shown, log, joins>>
  BY DEF NodesPart, NodesJoin, RoomsFollow
<1>2. Numbered' /\ Joining'
  BY <1>0, <1>1, NumberedKept
<1>3. CASE NodesPart(m, n)
  <2>1. /\ casts' \in LinksOf(Chats) /\ NoLoop(casts', joined')
        /\ Reached(calls', joined')
        /\ joined' \in [Nodes -> SUBSET Nodes]
        /\ \A a, b \in Nodes : b \in joined'[a] <=>
             b \in joined[a] /\ ~ (a = m /\ b = n) /\ ~ (a = n /\ b = m)
    BY <1>3, NodesPartEffect
  <2>2. Linked'
    BY <1>0, <2>1 DEF Linked
  <2>3. /\ knows' = knows /\ partings < MaxPartings /\ partings' = partings + 1
        /\ unheard' = unheard \cup ({n} \X UnderWay(casts, m, n))
                              \cup ({m} \X UnderWay(casts, n, m))
        /\ lost' = lost \cup {msg.chat : msg \in {x \in UnderWay(calls, m, n)
                                    \cup UnderWay(calls, n, m) : x.type = "archive"}}
        /\ overtaken' = overtaken
    BY <1>3 DEF NodesPart
  <2>4. /\ UnderWay(casts, m, n) \subseteq Chats /\ UnderWay(casts, n, m) \subseteq Chats
        /\ UnderWay(calls, m, n) \subseteq Calls /\ UnderWay(calls, n, m) \subseteq Calls
    BY <1>0 DEF TypeOK, UnderWay, Elements
  <2>5. \A msg \in Calls : msg.type = "archive" => msg.chat \in Chats
    BY CallParts
  <2>6. lost' \in SUBSET Chats
    BY <1>0, <2>3, <2>4, <2>5 DEF TypeOK
  <2>7. unheard' \in SUBSET (Nodes \X Chats)
    BY <1>0, <2>3, <2>4 DEF TypeOK
  <2>9. partings' \in 0 .. MaxPartings
    BY <1>0, <2>3, ChatAssumption DEF TypeOK
  <2>10. TypeOK'
    BY <1>0, <1>1, <2>1, <2>3, <2>6, <2>7, <2>9 DEF TypeOK, LinksOf, Reached
  <2> QED
    BY <1>2, <2>2, <2>10 DEF Typed
<1>4. CASE NodesJoin(m, n)
  <2>1. m # n /\ joined' = Join(joined, m, n) /\ UNCHANGED <<casts, calls>>
    BY <1>4 DEF NodesJoin
  <2>2. joined \in [Nodes -> SUBSET Nodes]
    BY <1>0 DEF TypeOK
  <2>3. /\ joined' \in [Nodes -> SUBSET Nodes]
        /\ \A a, b \in Nodes : b \in joined'[a] <=>
             b \in joined[a] \/ (a = m /\ b = n) \/ (a = n /\ b = m)
    BY <2>1, <2>2, JoinedNodes
  <2>4. Linked'
    <3>1. NoLoop(casts', joined') /\ NoLoop(calls', joined')
      BY <1>0, <2>1, <2>3 DEF Linked, Reached, NoLoop
    <3> QED
      BY <1>0, <2>1, <2>3, <3>1 DEF Linked, Reached
  <2>5. TypeOK'
    BY <1>0, <1>1, <1>4, <2>3 DEF TypeOK, NodesJoin
  <2> QED
    BY <1>2, <2>4, <2>5 DEF Typed
<1>5. CASE RoomsFollow(m, n)
  <2>1. TypeOK'
    BY <1>0, <1>1, <1>5 DEF TypeOK, RoomsFollow
  <2>2. Linked'
    BY <1>0, <1>5 DEF Linked, RoomsFollow
  <2> QED
    BY <1>2, <2>1, <2>2 DEF Typed
<1> QED
  BY <1>3, <1>4, <1>5

LEMMA TypedInit == Init => Typed
<1> SUFFICES ASSUME Init
             PROVE  Typed
  OBVIOUS
<1>1. /\ casts = NoLinks /\ calls = NoLinks /\ joined = AllJoined
      /\ sent = {} /\ step = [s \in Sessions |-> "idle"]
  BY DEF Init
<1>2. /\ casts \in LinksOf(Chats) /\ calls \in LinksOf(Calls)
      /\ joined \in [Nodes -> SUBSET Nodes]
      /\ NoLoop(casts, joined) /\ NoLoop(calls, joined)
      /\ \A m, n \in Nodes : calls[m][n] = <<>> /\ (n \in joined[m] <=> n # m)
  BY <1>1, InitialLinks
<1>3. TypeOK
  BY <1>2, ChatAssumption DEF Init, TypeOK, LinksOf
<1>4. Numbered /\ Joining
  BY <1>1, FS_EmptySet DEF Numbered, Joining
<1>5. Linked
  BY <1>2 DEF Linked, Reached
<1> QED
  BY <1>3, <1>4, <1>5 DEF Typed

LEMMA TypedStep == Typed /\ [Next]_vars => Typed'
<1> SUFFICES ASSUME Typed, [Next]_vars
             PROVE  Typed'
  OBVIOUS
<1>1. CASE UNCHANGED vars
  BY <1>1 DEF Typed, TypeOK, Numbered, Count, Sent, Linked, Joining, vars
<1> QED
  BY <1>1, SessionTyped, SenderTyped, CallsTyped, ClusterTyped DEF Next

LEMMA TypedAlways == Spec => []Typed
  BY TypedInit, TypedStep, PTL DEF Spec

\* All variables stay in their types.
THEOREM TypeCorrect == Spec => []TypeOK
<1>1. Typed => TypeOK
  BY DEF Typed
<1> QED
  BY <1>1, TypedAlways, PTL

-----------------------------------------------------------------------------
\* Archiving: a chat is in its log, on its way there, about to be archived by
\* its thread or lost, and what a sender has in one of these places is older
\* than what it has in an earlier one.

InLog(c) == c \in Elements(log[c.room])

Forwarded(c) == Arch(c) \in Elements(calls[NodeOf[c.from]][OwnerOf[c.room]])

Pending(c) == step[c.from] = "archive" /\ c.n = Count(c.from)

Places ==
  /\ \A r \in Rooms : \A c \in Elements(log[r]) : c \in sent /\ c.room = r
  /\ \A m, n \in Nodes, c \in Chats : Arch(c) \in Elements(calls[m][n]) =>
       c \in sent /\ NodeOf[c.from] = m /\ OwnerOf[c.room] = n

Ordered ==
  \A c, d \in Chats : c.from = d.from =>
    /\ \A r \in Rooms : Before(log[r], c, d) => c.n < d.n
    /\ \A m, n \in Nodes : Before(calls[m][n], Arch(c), Arch(d)) => c.n < d.n
    /\ InLog(c) /\ Forwarded(d) /\ c.room = d.room => c.n < d.n
    /\ (InLog(c) \/ Forwarded(c)) /\ Pending(d) => c.n < d.n

Placed ==
  /\ lost \subseteq sent
  /\ \A c \in sent : c \in lost <=> ~ (InLog(c) \/ Forwarded(c) \/ Pending(c))

Archives == Places /\ Ordered /\ Placed

\* Queues p and q hold the same chats to be archived.
SameArchives(q, p) ==
  \A c, d \in Chats :
    /\ Arch(c) \in Elements(p) <=> Arch(c) \in Elements(q)
    /\ Before(p, Arch(c), Arch(d)) => Before(q, Arch(c), Arch(d))

LEMMA OtherCalls ==
  ASSUME NEW q \in Seq(Calls)
  PROVE  /\ \A msg \in Calls : msg.type # "archive" => SameArchives(q, Append(q, msg))
         /\ q # <<>> /\ Head(q).type # "archive" => SameArchives(q, Tail(q))
<1>1. \A msg \in Calls : \A c : msg.type # "archive" => msg # Arch(c)
  BY CallParts
<1>2. ASSUME NEW msg \in Calls, msg.type # "archive"
      PROVE  SameArchives(q, Append(q, msg))
  <2>1. /\ Elements(Append(q, msg)) = Elements(q) \cup {msg}
        /\ \A x, y : Before(Append(q, msg), x, y) =>
             Before(q, x, y) \/ (x \in Elements(q) /\ y = msg)
    BY Appended
  <2> QED
    BY <1>1, <1>2, <2>1 DEF SameArchives
<1>3. ASSUME q # <<>>, Head(q).type # "archive"
      PROVE  SameArchives(q, Tail(q))
  <2>1. /\ Head(q) \in Calls
        /\ Elements(q) = {Head(q)} \cup Elements(Tail(q))
        /\ \A x, y : Before(Tail(q), x, y) => Before(q, x, y)
    BY <1>3, Taken
  <2> QED
    BY <1>1, <1>3, <2>1 DEF SameArchives
<1> QED
  BY <1>2, <1>3

\* Steps that archive nothing leave all chats where they are.
LEMMA ArchivesKept ==
  ASSUME Typed, Archives, sent' = sent, lost' = lost, log' = log,
         \A s \in Sessions : step'[s] = "archive" <=> step[s] = "archive",
         \A m, n \in Nodes : SameArchives(calls[m][n], calls'[m][n])
  PROVE  Archives'
<1>1. \A c \in Chats : /\ NodeOf[c.from] \in Nodes /\ OwnerOf[c.room] \in Nodes
                       /\ c.from \in Sessions /\ c.room \in Rooms
  BY ChatAssumption DEF Chats
<1>2. sent \subseteq Chats
  BY DEF Typed, TypeOK
<1>3. \A c \in Chats : /\ InLog(c)' <=> InLog(c)
                       /\ Forwarded(c)' <=> Forwarded(c)
                       /\ Pending(c)' <=> Pending(c)
  <2>1. \A c \in Chats : InLog(c)' <=> InLog(c)
    BY DEF InLog
  <2>2. \A c \in Chats : Forwarded(c)' <=> Forwarded(c)
    BY <1>1 DEF Forwarded, SameArchives
  <2>3. \A c \in Chats : Pending(c)' <=> Pending(c)
    BY <1>1 DEF Pending, Count, Sent
  <2> QED
    BY <2>1, <2>2, <2>3
<1>4. Places'
  BY DEF Archives, Places, SameArchives
<1>5. Ordered'
  BY <1>3 DEF Archives, Ordered, SameArchives
<1>6. Placed'
  BY <1>2, <1>3 DEF Archives, Placed
<1> QED
  BY <1>4, <1>5, <1>6 DEF Archives

\* A new chat is the latest one of its sender.
LEMMA SendChatArchives ==
  ASSUME Typed, Archives, NEW s \in Sessions, SendChat(s)
  PROVE  Archives'
<1>0. PICK c : c = NextChat(s)
  OBVIOUS
<1>1. /\ step[s] = "idle" /\ step' = [step EXCEPT ![s] = "archive"]
      /\ sent' = sent \cup {c}
      /\ UNCHANGED <<log, calls, lost>>
  BY <1>0 DEF SendChat
<1>2. c \in Chats /\ c.from = s /\ c.n = Count(s) + 1 /\ c \notin sent
  BY <1>0, SendChatEffect
<1>3. /\ step \in [Sessions -> {"idle", "join", "archive"}]
      /\ sent \subseteq Chats /\ IsFiniteSet(sent) /\ TypeOK
      /\ \A d \in sent : d.n <= Count(d.from)
  BY DEF Typed, TypeOK, Numbered
<1>a. \A d \in Chats : d.from \in Sessions /\ d.n \in Nat
  BY DEF Chats
<1>4. \A t \in Sessions : Count(t) \in Nat
  BY <1>3, CountType
<1>5. ASSUME NEW t \in Sessions
      PROVE  Count(t)' = IF t = s THEN Count(t) + 1 ELSE Count(t)
  <2>1. Sent(t)' = IF t = s THEN Sent(t) \cup {c} ELSE Sent(t)
    BY <1>1, <1>2 DEF Sent
  <2>2. IsFiniteSet(Sent(t)) /\ c \notin Sent(t)
    BY <1>2, <1>3, FS_Subset DEF Sent
  <2>3. Cardinality(Sent(t) \cup {c}) = Cardinality(Sent(t)) + 1
    BY <2>2, FS_AddElement
  <2> QED
    BY <2>1, <2>3 DEF Count
<1>6. \A d \in Chats : /\ InLog(d)' <=> InLog(d)
                       /\ Forwarded(d)' <=> Forwarded(d)
  BY <1>1 DEF InLog, Forwarded
<1>7. \A d \in Chats :
        Pending(d)' <=> IF d.from = s THEN d.n = Count(s) + 1 ELSE Pending(d)
  BY <1>1, <1>3, <1>a, <1>5 DEF Pending
<1>8. Places'
  BY <1>1 DEF Archives, Places
<1>9. \A d \in Chats : InLog(d) \/ Forwarded(d) => d \in sent
  BY ChatAssumption DEF Archives, Places, InLog, Forwarded, Chats
<1>10. Ordered'
  <2> SUFFICES ASSUME NEW d \in Chats, NEW e \in Chats, d.from = e.from
               PROVE  /\ \A r \in Rooms : Before(log[r], d, e) => d.n < e.n
                      /\ \A m, n \in Nodes :
                           Before(calls[m][n], Arch(d), Arch(e)) => d.n < e.n
                      /\ InLog(d) /\ Forwarded(e) /\ d.room = e.room => d.n < e.n
                      /\ (InLog(d) \/ Forwarded(d)) /\ Pending(e)' => d.n < e.n
    BY <1>1, <1>6 DEF Ordered
  <2>1. (InLog(d) \/ Forwarded(d)) /\ Pending(e)' => d.n < e.n
    <3>1. CASE e.from = s
      BY <1>3, <1>a, <1>4, <1>7, <1>9, <3>1
    <3>2. CASE e.from # s
      BY <1>7, <3>2 DEF Archives, Ordered
    <3> QED
      BY <3>1, <3>2
  <2> QED
    BY <2>1 DEF Archives, Ordered
<1>11. Placed'
  <2>1. \A d \in sent : Pending(d)' <=> Pending(d)
    <3>1. \A d \in sent : d.from = s => ~ Pending(d) /\ d.n # Count(s) + 1
      BY <1>1, <1>3, <1>a, <1>4 DEF Pending
    <3> QED
      BY <1>3, <1>7, <3>1
  <2>2. Pending(c)'
    BY <1>2, <1>7
  <2>3. lost \subseteq sent /\ lost' = lost
    BY <1>1 DEF Archives, Placed
  <2>4. lost' \subseteq sent'
    BY <1>1, <2>3
  <2>5. ASSUME NEW d \in sent'
        PROVE  (d \in lost)' <=> ~ (InLog(d)' \/ Forwarded(d)' \/ Pending(d)')
    <3>1. CASE d = c
      BY <1>2, <2>2, <2>3, <3>1
    <3>2. CASE d \in sent
      <4>1. d \in lost <=> ~ (InLog(d) \/ Forwarded(d) \/ Pending(d))
        BY <3>2 DEF Archives, Placed
      <4> QED
        BY <1>3, <1>6, <2>1, <2>3, <3>2, <4>1
    <3> QED
      BY <1>1, <3>1, <3>2
  <2> QED
    BY <2>4, <2>5 DEF Placed
<1> QED
  BY <1>8, <1>10, <1>11 DEF Archives

\* A log that gets one more chat.
LEMMA LogGrows ==
  ASSUME TypeOK, NEW c \in Chats, log' = [log EXCEPT ![c.room] = Append(@, c)]
  PROVE  /\ \A r \in Rooms :
              /\ \A x : x \in Elements(log'[r]) <=> x \in Elements(log[r]) \/ (r = c.room /\ x = c)
              /\ \A x, y : Before(log'[r], x, y) =>
                   Before(log[r], x, y) \/ (r = c.room /\ x \in Elements(log[r]) /\ y = c)
         /\ \A x \in Chats : InLog(x)' <=> InLog(x) \/ x = c
<1>1. ASSUME NEW r \in Rooms
      PROVE  /\ \A x : x \in Elements(log'[r]) <=> x \in Elements(log[r]) \/ (r = c.room /\ x = c)
             /\ \A x, y : Before(log'[r], x, y) =>
                  Before(log[r], x, y) \/ (r = c.room /\ x \in Elements(log[r]) /\ y = c)
  <2>1. log[r] \in Seq(Chats) /\ log \in [Rooms -> Seq(Chats)]
    BY DEF TypeOK
  <2>2. CASE r = c.room
    <3>1. log'[r] = Append(log[r], c)
      BY <2>1, <2>2
    <3> QED
      BY <2>1, <2>2, <3>1, Appended
  <2>3. CASE r # c.room
    <3>1. log'[r] = log[r]
      BY <2>1, <2>3
    <3> QED
      BY <2>3, <3>1
  <2> QED
    BY <2>2, <2>3
<1>2. \A x \in Chats : x.room \in Rooms
  BY DEF Chats
<1>3. \A x \in Chats : InLog(x)' <=> InLog(x) \/ x = c
  BY <1>1, <1>2 DEF InLog
<1> QED
  BY <1>1, <1>3

\* A chat takes one place, and none that an older one has not left.
LEMMA OnePlace ==
  ASSUME Typed, Archives, NEW c \in Chats
  PROVE  /\ c.n \in Nat /\ c.from \in Sessions /\ c.room \in Rooms
         /\ NodeOf[c.from] \in Nodes /\ OwnerOf[c.room] \in Nodes
         /\ Forwarded(c) => ~ InLog(c)
         /\ Pending(c) => ~ (InLog(c) \/ Forwarded(c))
         /\ InLog(c) \/ Forwarded(c) => c \in sent
<1>1. c.n \in Nat /\ c.from \in Sessions /\ c.room \in Rooms
  BY DEF Chats
<1>2. NodeOf[c.from] \in Nodes /\ OwnerOf[c.room] \in Nodes
  BY <1>1, ChatAssumption
<1>3. ~ (c.n < c.n)
  BY <1>1
<1>4. Forwarded(c) => ~ InLog(c)
  BY <1>3 DEF Archives, Ordered
<1>5. Pending(c) => ~ (InLog(c) \/ Forwarded(c))
  BY <1>3 DEF Archives, Ordered
<1>6. InLog(c) => c \in sent
  BY <1>1 DEF Archives, Places, InLog
<1>7. Forwarded(c) => c \in sent
  BY <1>2 DEF Archives, Places, Forwarded
<1> QED
  BY <1>1, <1>2, <1>4, <1>5, <1>6, <1>7

\* The thread of a sender archives the latest chat it has sent.
LEMMA ArchiveChatArchives ==
  ASSUME Typed, Archives, NEW s \in Sessions, ArchiveChat(s)
  PROVE  Archives'
<1>0. PICK c : c = Published(s)
  OBVIOUS
<1>1. PICK m, n \in Nodes :
        /\ m = NodeOf[s] /\ n = OwnerOf[c.room]
        /\ step[s] = "archive" /\ step' = [step EXCEPT ![s] = "idle"]
        /\ c \in sent /\ c \in Chats /\ c.from = s /\ c.n = Count(s)
        /\ \/ /\ m = n
              /\ log' = [log EXCEPT ![c.room] = Append(@, c)]
              /\ UNCHANGED <<calls, lost>>
           \/ /\ m # n /\ n \in joined[m]
              /\ Reached(calls', joined)
              /\ \A a, b \in Nodes : calls'[a][b] =
                   IF a = m /\ b = n THEN Append(calls[a][b], Arch(c)) ELSE calls[a][b]
              /\ UNCHANGED <<log, lost>>
           \/ /\ m # n
              /\ lost' = lost \cup {c}
              /\ UNCHANGED <<log, calls>>
  BY <1>0, ArchiveChatEffect
<1>2. /\ step \in [Sessions -> {"idle", "join", "archive"}]
      /\ sent \subseteq Chats /\ TypeOK /\ sent' = sent
  BY DEF Typed, TypeOK, ArchiveChat
<1>3. \A x \in Chats : /\ x.from \in Sessions /\ x.room \in Rooms /\ x.n \in Nat
                       /\ NodeOf[x.from] \in Nodes /\ OwnerOf[x.room] \in Nodes
                       /\ InLog(x) \/ Forwarded(x) => x \in sent
  BY OnePlace
<1>4. \A x \in Chats : Pending(x)' <=> Pending(x) /\ x.from # s
  BY <1>1, <1>2, <1>3 DEF Pending, Count, Sent
<1>5. Pending(c) /\ ~ Pending(c)' /\ \A x \in sent : x # c => (Pending(x)' <=> Pending(x))
  <2>1. Pending(c) /\ ~ Pending(c)'
    BY <1>1, <1>4 DEF Pending
  <2>2. ASSUME NEW x \in sent, x # c
        PROVE  Pending(x)' <=> Pending(x)
    <3>1. x.from = s => ~ Pending(x)
      BY <1>1, <2>2 DEF Typed, Numbered, Pending
    <3> QED
      BY <1>2, <1>4, <3>1
  <2> QED
    BY <2>1, <2>2
<1>6. ~ InLog(c) /\ ~ Forwarded(c)
  BY <1>1, <1>5, OnePlace
<1>7. c \notin lost
  BY <1>1, <1>5 DEF Archives, Placed
<1>8. \A x \in Chats : x.from = s /\ (InLog(x) \/ Forwarded(x)) => x.n < c.n
  BY <1>1, <1>5 DEF Archives, Ordered
<1>9. CASE m = n /\ log' = [log EXCEPT ![c.room] = Append(@, c)] /\ UNCHANGED <<calls, lost>>
  <2>1. /\ \A r \in Rooms :
             /\ \A x : x \in Elements(log'[r]) <=> x \in Elements(log[r]) \/ (r = c.room /\ x = c)
             /\ \A x, y : Before(log'[r], x, y) =>
                  Before(log[r], x, y) \/ (r = c.room /\ x \in Elements(log[r]) /\ y = c)
        /\ \A x \in Chats : InLog(x)' <=> InLog(x) \/ x = c
    BY <1>1, <1>2, <1>9, LogGrows
  <2>2. \A x \in Chats : Forwarded(x)' <=> Forwarded(x)
    BY <1>9 DEF Forwarded
  <2>3. Places'
    BY <1>1, <1>2, <1>9, <2>1 DEF Archives, Places
  <2>4. \A x \in Chats : x.from = s /\ x.room = c.room => ~ Forwarded(x)
    <3>1. calls[m][n] = <<>>
      BY <1>1, <1>9 DEF Typed, Linked, Reached, NoLoop
    <3> QED
      BY <1>1, <3>1, EmptyQueue DEF Forwarded
  <2>5. Ordered'
    <3> SUFFICES ASSUME NEW x \in Chats, NEW y \in Chats, x.from = y.from
                 PROVE  /\ \A r \in Rooms : Before(log'[r], x, y) => x.n < y.n
                        /\ \A a, b \in Nodes :
                             Before(calls'[a][b], Arch(x), Arch(y)) => x.n < y.n
                        /\ InLog(x)' /\ Forwarded(y)' /\ x.room = y.room => x.n < y.n
                        /\ (InLog(x)' \/ Forwarded(x)') /\ Pending(y)' => x.n < y.n
      BY DEF Ordered
    <3>1. ASSUME NEW r \in Rooms, Before(log'[r], x, y)
          PROVE  x.n < y.n
      <4>1. CASE Before(log[r], x, y)
        BY <4>1 DEF Archives, Ordered
      <4>2. CASE r = c.room /\ x \in Elements(log[r]) /\ y = c
        <5>1. InLog(x)
          BY <4>2 DEF Archives, Places, InLog
        <5> QED
          BY <1>1, <1>8, <4>2, <5>1
      <4> QED
        BY <2>1, <3>1, <4>1, <4>2
    <3>2. \A a, b \in Nodes : Before(calls'[a][b], Arch(x), Arch(y)) => x.n < y.n
      BY <1>9 DEF Archives, Ordered
    <3>3. InLog(x)' /\ Forwarded(y)' /\ x.room = y.room => x.n < y.n
      BY <1>1, <2>1, <2>2, <2>4 DEF Archives, Ordered
    <3>4. (InLog(x)' \/ Forwarded(x)') /\ Pending(y)' => x.n < y.n
      BY <1>1, <1>4, <2>1, <2>2 DEF Archives, Ordered
    <3> QED
      BY <3>1, <3>2, <3>3, <3>4
  <2>6. Placed'
    BY <1>1, <1>2, <1>5, <1>7, <1>9, <2>1, <2>2 DEF Archives, Placed
  <2> QED
    BY <2>3, <2>5, <2>6 DEF Archives
<1>10. CASE /\ m # n
            /\ \A a, b \in Nodes : calls'[a][b] =
                 IF a = m /\ b = n THEN Append(calls[a][b], Arch(c)) ELSE calls[a][b]
            /\ UNCHANGED <<log, lost>>
  <2>1. ASSUME NEW a \in Nodes, NEW b \in Nodes
        PROVE  /\ \A x : Arch(x) \in Elements(calls'[a][b]) <=>
                    Arch(x) \in Elements(calls[a][b]) \/ (a = m /\ b = n /\ x = c)
               /\ \A x, y : Before(calls'[a][b], Arch(x), Arch(y)) =>
                    \/ Before(calls[a][b], Arch(x), Arch(y))
                    \/ a = m /\ b = n /\ Arch(x) \in Elements(calls[a][b]) /\ y = c
    <3>1. \A x, y : Arch(x) = Arch(y) <=> x = y
      BY DEF Arch
    <3>2. CASE a = m /\ b = n
      <4>1. Arch(c) \in Calls /\ calls[a][b] \in Seq(Calls)
        BY <1>1, CallKinds DEF Typed, Linked, Reached, LinksOf
      <4>2. calls'[a][b] = Append(calls[a][b], Arch(c))
        BY <1>10, <3>2
      <4>3. /\ Elements(calls'[a][b]) = Elements(calls[a][b]) \cup {Arch(c)}
            /\ \A x, y : Before(calls'[a][b], x, y) =>
                 Before(calls[a][b], x, y) \/ (x \in Elements(calls[a][b]) /\ y = Arch(c))
        BY <4>1, <4>2, Appended
      <4> QED
        BY <3>1, <3>2, <4>3
    <3>3. CASE ~ (a = m /\ b = n)
      <4>1. calls'[a][b] = calls[a][b]
        BY <1>10, <3>3
      <4> QED
        BY <3>3, <4>1
    <3> QED
      BY <3>2, <3>3
  <2>2. \A x \in Chats : /\ InLog(x)' <=> InLog(x)
                         /\ Forwarded(x)' <=> Forwarded(x) \/ x = c
    BY <1>1, <1>3, <1>10, <2>1 DEF InLog, Forwarded
  <2>3. Places'
    BY <1>1, <1>2, <1>10, <2>1 DEF Archives, Places
  <2>4. Ordered'
    <3> SUFFICES ASSUME NEW x \in Chats, NEW y \in Chats, x.from = y.from
                 PROVE  /\ \A r \in Rooms : Before(log'[r], x, y) => x.n < y.n
                        /\ \A a, b \in Nodes :
                             Before(calls'[a][b], Arch(x), Arch(y)) => x.n < y.n
                        /\ InLog(x)' /\ Forwarded(y)' /\ x.room = y.room => x.n < y.n
                        /\ (InLog(x)' \/ Forwarded(x)') /\ Pending(y)' => x.n < y.n
      BY DEF Ordered
    <3>1. \A r \in Rooms : Before(log'[r], x, y) => x.n < y.n
      BY <1>10 DEF Archives, Ordered
    <3>2. ASSUME NEW a \in Nodes, NEW b \in Nodes, Before(calls'[a][b], Arch(x), Arch(y))
          PROVE  x.n < y.n
      <4>1. CASE Before(calls[a][b], Arch(x), Arch(y))
        BY <4>1 DEF Archives, Ordered
      <4>2. CASE a = m /\ b = n /\ Arch(x) \in Elements(calls[a][b]) /\ y = c
        <5>1. Forwarded(x)
          BY <4>2 DEF Archives, Places, Forwarded
        <5> QED
          BY <1>1, <1>8, <4>2, <5>1
      <4> QED
        BY <2>1, <3>2, <4>1, <4>2
    <3>3. InLog(x)' /\ Forwarded(y)' /\ x.room = y.room => x.n < y.n
      BY <1>1, <1>8, <2>2 DEF Archives, Ordered
    <3>4. (InLog(x)' \/ Forwarded(x)') /\ Pending(y)' => x.n < y.n
      BY <1>1, <1>4, <2>2 DEF Archives, Ordered
    <3> QED
      BY <3>1, <3>2, <3>3, <3>4
  <2>5. Placed'
    BY <1>1, <1>2, <1>5, <1>7, <1>10, <2>2 DEF Archives, Placed
  <2> QED
    BY <2>3, <2>4, <2>5 DEF Archives
<1>11. CASE lost' = lost \cup {c} /\ UNCHANGED <<log, calls>>
  <2>1. \A x \in Chats : (InLog(x)' <=> InLog(x)) /\ (Forwarded(x)' <=> Forwarded(x))
    BY <1>11 DEF InLog, Forwarded
  <2>2. Places'
    BY <1>2, <1>11 DEF Archives, Places
  <2>3. Ordered'
    BY <1>4, <1>11, <2>1 DEF Archives, Ordered
  <2>4. Placed'
    BY <1>1, <1>2, <1>5, <1>6, <1>11, <2>1 DEF Archives, Placed
  <2> QED
    BY <2>2, <2>3, <2>4 DEF Archives
<1> QED
  BY <1>1, <1>9, <1>10, <1>11

\* The owner archives the oldest chat that was forwarded to it.
LEMMA ReceiveArchiveArchives ==
  ASSUME Typed, Archives, NEW m \in Nodes, NEW n \in Nodes, ReceiveArchive(m, n)
  PROVE  Archives'
<1> DEFINE q == calls[m][n]
<1>0. PICK c : c = Head(q).chat
  OBVIOUS
<1>1. Hears(m, n, "archive") /\ log' = [log EXCEPT ![c.room] = Append(@, c)]
      /\ calls' = Consume(calls, m, n)
      /\ UNCHANGED <<sent, step, lost>>
  BY <1>0 DEF ReceiveArchive
<1>2. /\ q # <<>> /\ q \in Seq(Calls)
      /\ Head(q) \in Calls /\ Head(q).type = "archive"
      /\ \A a, b \in Nodes : calls'[a][b] =
           IF a = m /\ b = n THEN Tail(calls[a][b]) ELSE calls[a][b]
  BY <1>1, CallHeard
<1>3. c \in Chats /\ Head(q) = Arch(c)
  BY <1>0, <1>2, CallParts
<1>4. /\ Elements(q) = {Arch(c)} \cup Elements(Tail(q))
      /\ \A x, y : Before(Tail(q), x, y) => Before(q, x, y)
      /\ \A x \in Elements(Tail(q)) : Before(q, Arch(c), x)
  BY <1>2, <1>3, Taken
<1> HIDE DEF q
<1>a. q = calls[m][n]
  BY DEF q
<1>5. c \in sent /\ NodeOf[c.from] = m /\ OwnerOf[c.room] = n /\ Forwarded(c)
  BY <1>3, <1>4, <1>a DEF Archives, Places, Forwarded
<1>6. \A x \in Chats : /\ x.from \in Sessions /\ x.room \in Rooms /\ x.n \in Nat
                       /\ NodeOf[x.from] \in Nodes /\ OwnerOf[x.room] \in Nodes
  BY OnePlace
<1>7. \A x \in Chats : x.from = c.from /\ Before(q, Arch(c), Arch(x)) => c.n < x.n
  BY <1>3, <1>a DEF Archives, Ordered
<1>8. Arch(c) \notin Elements(Tail(q))
  <2>1. ~ (c.n < c.n)
    BY <1>3, <1>6
  <2> QED
    BY <1>3, <1>4, <1>7, <2>1
<1>9. \A x, y : Arch(x) = Arch(y) <=> x = y
  BY DEF Arch
<1>10. ASSUME NEW a \in Nodes, NEW b \in Nodes
       PROVE  /\ \A x : Arch(x) \in Elements(calls'[a][b]) <=>
                   Arch(x) \in Elements(calls[a][b]) /\ ~ (a = m /\ b = n /\ x = c)
              /\ \A x, y : Before(calls'[a][b], x, y) => Before(calls[a][b], x, y)
  <2>1. CASE a = m /\ b = n
    BY <1>2, <1>4, <1>8, <1>9, <1>a, <2>1
  <2>2. CASE ~ (a = m /\ b = n)
    BY <1>2, <2>2
  <2> QED
    BY <2>1, <2>2
<1>11. /\ \A r \in Rooms :
            /\ \A x : x \in Elements(log'[r]) <=> x \in Elements(log[r]) \/ (r = c.room /\ x = c)
            /\ \A x, y : Before(log'[r], x, y) =>
                 Before(log[r], x, y) \/ (r = c.room /\ x \in Elements(log[r]) /\ y = c)
       /\ \A x \in Chats : InLog(x)' <=> InLog(x) \/ x = c
  BY <1>1, <1>3, LogGrows DEF Typed
<1>12. \A x \in Chats : /\ Forwarded(x)' <=> Forwarded(x) /\ x # c
                        /\ Pending(x)' <=> Pending(x)
  <2>1. \A x \in Chats : Forwarded(x)' <=> Forwarded(x) /\ x # c
    BY <1>5, <1>6, <1>10 DEF Forwarded
  <2>2. \A x \in Chats : Pending(x)' <=> Pending(x)
    BY <1>1 DEF Pending, Count, Sent
  <2> QED
    BY <2>1, <2>2
<1>13. Places'
  <2>1. ASSUME NEW r \in Rooms, NEW x \in Elements(log'[r])
        PROVE  x \in sent' /\ x.room = r
    BY <1>1, <1>5, <1>11, <2>1 DEF Archives, Places
  <2>2. ASSUME NEW a \in Nodes, NEW b \in Nodes, NEW x \in Chats,
               Arch(x) \in Elements(calls'[a][b])
        PROVE  x \in sent' /\ NodeOf[x.from] = a /\ OwnerOf[x.room] = b
    BY <1>1, <1>10, <2>2 DEF Archives, Places
  <2> QED
    BY <2>1, <2>2 DEF Places
<1>14. Ordered'
  <2> SUFFICES ASSUME NEW x \in Chats, NEW y \in Chats, x.from = y.from
               PROVE  /\ \A r \in Rooms : Before(log'[r], x, y) => x.n < y.n
                      /\ \A a, b \in Nodes :
                           Before(calls'[a][b], Arch(x), Arch(y)) => x.n < y.n
                      /\ InLog(x)' /\ Forwarded(y)' /\ x.room = y.room => x.n < y.n
                      /\ (InLog(x)' \/ Forwarded(x)') /\ Pending(y)' => x.n < y.n
    BY DEF Ordered
  <2>1. ASSUME NEW r \in Rooms, Before(log'[r], x, y)
        PROVE  x.n < y.n
    <3>1. CASE Before(log[r], x, y)
      BY <3>1 DEF Archives, Ordered
    <3>2. CASE r = c.room /\ x \in Elements(log[r]) /\ y = c
      <4>1. InLog(x) /\ x.room = y.room
        BY <3>2 DEF Archives, Places, InLog
      <4> QED
        BY <1>5, <3>2, <4>1 DEF Archives, Ordered
    <3> QED
      BY <1>11, <2>1, <3>1, <3>2
  <2>2. \A a, b \in Nodes : Before(calls'[a][b], Arch(x), Arch(y)) => x.n < y.n
    BY <1>10 DEF Archives, Ordered
  <2>3. ASSUME InLog(x)', Forwarded(y)', x.room = y.room
        PROVE  x.n < y.n
    <3>1. Forwarded(y) /\ y # c
      BY <1>12, <2>3
    <3>2. CASE x = c
      <4>1. Arch(y) \in Elements(q)
        BY <1>5, <1>a, <2>3, <3>1, <3>2 DEF Forwarded
      <4>2. Arch(y) \in Elements(Tail(q))
        BY <1>4, <1>9, <3>1, <4>1
      <4> QED
        BY <1>4, <1>7, <3>2, <4>2
    <3>3. CASE InLog(x)
      BY <2>3, <3>1, <3>3 DEF Archives, Ordered
    <3> QED
      BY <1>11, <2>3, <3>2, <3>3
  <2>4. (InLog(x)' \/ Forwarded(x)') /\ Pending(y)' => x.n < y.n
    BY <1>5, <1>11, <1>12 DEF Archives, Ordered
  <2> QED
    BY <2>1, <2>2, <2>3, <2>4
<1>15. Placed'
  <2>1. sent \subseteq Chats
    BY DEF Typed, TypeOK
  <2> QED
    BY <1>1, <1>5, <1>11, <1>12, <2>1 DEF Archives, Placed
<1> QED
  BY <1>13, <1>14, <1>15 DEF Archives

\* What is under way when nodes part is lost, and is in no other place.
LEMMA NodesPartArchives ==
  ASSUME Typed, Archives, NEW m \in Nodes, NEW n \in Nodes, NodesPart(m, n)
  PROVE  Archives'
<1>1. PICK dropped :
        /\ dropped = UnderWay(calls, m, n) \cup UnderWay(calls, n, m)
        /\ lost' = lost \cup {msg.chat : msg \in {x \in dropped : x.type = "archive"}}
        /\ UNCHANGED <<sent, step, log>>
  BY DEF NodesPart
<1>2. \A a, b \in Nodes :
        calls'[a][b] = IF (a = m /\ b = n) \/ (a = n /\ b = m) THEN <<>> ELSE calls[a][b]
  BY NodesPartEffect
<1>3. dropped = Elements(calls[m][n]) \cup Elements(calls[n][m])
  BY <1>1 DEF UnderWay
<1>4. dropped \subseteq Calls
  BY <1>3 DEF Typed, TypeOK, Elements
<1>5. \A c : c \in lost' <=> c \in lost \/ (c \in Chats /\ Arch(c) \in dropped)
  <2>1. ASSUME NEW c \in lost', c \notin lost
        PROVE  c \in Chats /\ Arch(c) \in dropped
    <3>1. PICK msg \in dropped : msg.type = "archive" /\ msg.chat = c
      BY <1>1, <2>1
    <3> QED
      BY <1>4, <3>1, CallParts
  <2>2. ASSUME NEW c \in Chats, Arch(c) \in dropped
        PROVE  c \in lost'
    <3>1. Arch(c) \in {x \in dropped : x.type = "archive"} /\ Arch(c).chat = c
      BY <2>2, CallKinds
    <3>2. c \in {msg.chat : msg \in {x \in dropped : x.type = "archive"}}
      BY <3>1
    <3> QED
      BY <1>1, <3>2
  <2> QED
    BY <1>1, <2>1, <2>2
<1>6. sent \subseteq Chats
  BY DEF Typed, TypeOK
<1>7. ASSUME NEW c \in Chats
      PROVE  /\ InLog(c)' <=> InLog(c)
             /\ Pending(c)' <=> Pending(c)
             /\ Forwarded(c)' <=> Forwarded(c) /\ Arch(c) \notin dropped
             /\ Arch(c) \in dropped => Forwarded(c) /\ c \in sent
  <2>1. NodeOf[c.from] \in Nodes /\ OwnerOf[c.room] \in Nodes
    BY OnePlace
  <2>2. (InLog(c)' <=> InLog(c)) /\ (Pending(c)' <=> Pending(c))
    BY <1>1 DEF InLog, Pending, Count, Sent
  <2>3. Arch(c) \in dropped =>
          /\ Forwarded(c) /\ c \in sent
          /\ \/ NodeOf[c.from] = m /\ OwnerOf[c.room] = n
             \/ NodeOf[c.from] = n /\ OwnerOf[c.room] = m
    BY <1>3 DEF Archives, Places, Forwarded
  <2>4. Forwarded(c)' <=> Forwarded(c) /\ Arch(c) \notin dropped
    <3>1. CASE \/ NodeOf[c.from] = m /\ OwnerOf[c.room] = n
               \/ NodeOf[c.from] = n /\ OwnerOf[c.room] = m
      BY <1>2, <1>3, <2>1, <3>1, EmptyQueue DEF Forwarded
    <3>2. CASE ~ (\/ NodeOf[c.from] = m /\ OwnerOf[c.room] = n
                  \/ NodeOf[c.from] = n /\ OwnerOf[c.room] = m)
      BY <1>2, <2>1, <2>3, <3>2 DEF Forwarded
    <3> QED
      BY <3>1, <3>2
  <2> QED
    BY <2>2, <2>3, <2>4
<1>8. \A a, b \in Nodes : /\ Elements(calls'[a][b]) \subseteq Elements(calls[a][b])
                          /\ \A x, y : Before(calls'[a][b], x, y) => Before(calls[a][b], x, y)
  BY <1>2, EmptyQueue
<1>9. Places'
  BY <1>1, <1>8 DEF Archives, Places
<1>10. Ordered'
  BY <1>1, <1>7, <1>8 DEF Archives, Ordered
<1>11. Placed'
  <2>1. \A c \in Chats : Arch(c) \in dropped => ~ InLog(c) /\ ~ Pending(c)
    BY <1>7, OnePlace
  <2>2. lost \subseteq sent
    BY DEF Archives, Placed
  <2>3. lost' \subseteq sent'
    BY <1>1, <1>5, <1>7, <2>2
  <2>4. ASSUME NEW c \in sent
        PROVE  (c \in lost)' <=> ~ (InLog(c)' \/ Forwarded(c)' \/ Pending(c)')
    <3>1. c \in lost <=> ~ (InLog(c) \/ Forwarded(c) \/ Pending(c))
      BY DEF Archives, Placed
    <3> QED
      BY <1>5, <1>6, <1>7, <2>1, <3>1
  <2> QED
    BY <1>1, <2>3, <2>4 DEF Placed
<1> QED
  BY <1>9, <1>10, <1>11 DEF Archives

\* Joining and the calls about histories.
LEMMA CallsArchives ==
  ASSUME Typed, Archives,
         \/ \E s \in Sessions : JoinRoom(s)
         \/ \E m, n \in Nodes :
              ReceiveAsk(m, n) \/ ReceiveHistory(m, n) \/ LateHistory(m, n)
  PROVE  Archives'
<1>0. \A m, n \in Nodes : calls[m][n] \in Seq(Calls) /\ SameArchives(calls[m][n], calls[m][n])
  BY DEF Typed, TypeOK, SameArchives
<1>1. ASSUME NEW s \in Sessions, JoinRoom(s)
      PROVE  Archives'
  <2>1. /\ step[s] = "join" /\ step' = [step EXCEPT ![s] = "idle"]
        /\ Ask(s, target[s]) \/ calls' = calls
        /\ UNCHANGED <<sent, log, lost>>
    BY <1>1 DEF JoinRoom
  <2>2. target[s] \in Rooms
    BY <2>1 DEF Typed, Joining
  <2>3. PICK msg \in Calls : msg = [type |-> "ask", to |-> s, room |-> target[s]]
    BY <2>2, CallKinds
  <2>4. msg.type # "archive"
    BY <2>3
  <2>5. ASSUME NEW m \in Nodes, NEW n \in Nodes
        PROVE  calls'[m][n] = calls[m][n] \/ calls'[m][n] = Append(calls[m][n], msg)
    <3>1. CASE calls' = calls
      BY <3>1
    <3>2. CASE Ask(s, target[s])
      <4>1. \/ calls' = calls
            \/ \A a, b \in Nodes : calls'[a][b] =
                 IF a = NodeOf[s] /\ b \in joined[NodeOf[s]] \cap {OwnerOf[target[s]]}
                 THEN Append(calls[a][b], [type |-> "ask", to |-> s, room |-> target[s]])
                 ELSE calls[a][b]
        BY <2>2, <3>2, AskEffect
      <4>2. \/ calls' = calls
            \/ \A a, b \in Nodes : calls'[a][b] =
                 IF a = NodeOf[s] /\ b \in joined[NodeOf[s]] \cap {OwnerOf[target[s]]}
                 THEN Append(calls[a][b], msg) ELSE calls[a][b]
        BY <2>3, <4>1
      <4> QED
        BY <4>2
    <3> QED
      BY <2>1, <3>1, <3>2
  <2>6. \A m, n \in Nodes : SameArchives(calls[m][n], calls'[m][n])
    BY <1>0, <2>4, <2>5, OtherCalls
  <2>7. \A t \in Sessions : step'[t] = "archive" <=> step[t] = "archive"
    BY <2>1 DEF Typed, TypeOK
  <2> QED
    BY <2>1, <2>6, <2>7, ArchivesKept
<1>2. ASSUME NEW m \in Nodes, NEW n \in Nodes, ReceiveAsk(m, n)
      PROVE  Archives'
  <2> DEFINE answer == AnswerTo(Head(calls[m][n]))
  <2>b. answer.type = "history"
    BY DEF AnswerTo
  <2>1. /\ m # n /\ calls[m][n] # <<>> /\ Head(calls[m][n]).type = "ask" /\ answer \in Calls
        /\ \A a, b \in Nodes : calls'[a][b] =
             IF a = m /\ b = n THEN Tail(calls[a][b])
             ELSE IF a = n /\ b = m THEN Append(calls[a][b], answer)
             ELSE calls[a][b]
    BY <1>2, ReceiveAskEffect
  <2> HIDE DEF answer
  <2>2. ASSUME NEW a \in Nodes, NEW b \in Nodes
        PROVE  SameArchives(calls[a][b], calls'[a][b])
    <3>1. CASE a = m /\ b = n
      BY <1>0, <2>1, <3>1, OtherCalls
    <3>2. CASE a = n /\ b = m
      <4>1. calls'[a][b] = Append(calls[a][b], answer) /\ answer.type # "archive"
        BY <2>1, <2>b, <3>2
      <4> QED
        BY <1>0, <2>1, <4>1, OtherCalls
    <3>3. CASE ~ (a = m /\ b = n) /\ ~ (a = n /\ b = m)
      BY <1>0, <2>1, <3>3
    <3> QED
      BY <3>1, <3>2, <3>3
  <2>3. UNCHANGED <<sent, lost, log, step>>
    BY <1>2 DEF ReceiveAsk
  <2> QED
    BY <2>2, <2>3, ArchivesKept
<1>3. ASSUME NEW m \in Nodes, NEW n \in Nodes, ReceiveHistory(m, n) \/ LateHistory(m, n)
      PROVE  Archives'
  <2>1. /\ Hears(m, n, "history") /\ calls' = Consume(calls, m, n)
        /\ UNCHANGED <<sent, lost, log, step>>
    BY <1>3 DEF ReceiveHistory, LateHistory
  <2>2. /\ calls[m][n] # <<>> /\ Head(calls[m][n]).type = "history"
        /\ \A a, b \in Nodes : calls'[a][b] =
             IF a = m /\ b = n THEN Tail(calls[a][b]) ELSE calls[a][b]
    BY <2>1, CallHeard
  <2>3. ASSUME NEW a \in Nodes, NEW b \in Nodes
        PROVE  SameArchives(calls[a][b], calls'[a][b])
    <3>1. CASE a = m /\ b = n
      BY <1>0, <2>2, <3>1, OtherCalls
    <3>2. CASE ~ (a = m /\ b = n)
      BY <1>0, <2>2, <3>2
    <3> QED
      BY <3>1, <3>2
  <2> QED
    BY <2>1, <2>3, ArchivesKept
<1> QED
  BY <1>1, <1>2, <1>3

\* What has nothing to do with archives.
LEMMA OtherArchives ==
  ASSUME Typed, Archives,
         \/ \E s \in Sessions, r \in Rooms : Subscribe(s, r)
         \/ \E s \in Sessions : LeaveRoom(s) \/ Disconnect(s)
         \/ \E m, n \in Nodes : ReceiveCast(m, n) \/ NodesJoin(m, n) \/ RoomsFollow(m, n)
         \/ UNCHANGED vars
  PROVE  Archives'
<1>1. step \in [Sessions -> {"idle", "join", "archive"}]
  BY DEF Typed, TypeOK
<1>2. sent' = sent /\ lost' = lost /\ log' = log /\ calls' = calls
  BY DEF Subscribe, LeaveRoom, Disconnect, ReceiveCast, NodesJoin, RoomsFollow, vars
<1>3. \A s \in Sessions : step'[s] = "archive" <=> step[s] = "archive"
  BY <1>1 DEF Subscribe, LeaveRoom, Disconnect, ReceiveCast, NodesJoin, RoomsFollow, vars
<1>4. \A m, n \in Nodes : SameArchives(calls[m][n], calls'[m][n])
  BY <1>2 DEF SameArchives
<1> QED
  BY <1>2, <1>3, <1>4, ArchivesKept

LEMMA ArchivesInit == Init => Archives
<1> SUFFICES ASSUME Init PROVE Archives
  OBVIOUS
<1>1. /\ calls = NoLinks /\ log = [r \in Rooms |-> <<>>]
      /\ sent = {} /\ lost = {} /\ step = [s \in Sessions |-> "idle"]
  BY DEF Init
<1>2. \A m, n \in Nodes : calls[m][n] = <<>>
  BY <1>1, InitialLinks
<1>3. \A c \in Chats : /\ NodeOf[c.from] \in Nodes /\ OwnerOf[c.room] \in Nodes
                       /\ c.from \in Sessions /\ c.room \in Rooms
  BY ChatAssumption DEF Chats
<1>4. \A c \in Chats : ~ InLog(c) /\ ~ Forwarded(c) /\ ~ Pending(c)
  BY <1>1, <1>2, <1>3, EmptyQueue DEF InLog, Forwarded, Pending
<1>5. Places
  BY <1>1, <1>2, EmptyQueue DEF Places
<1>6. Ordered
  BY <1>1, <1>2, <1>4, EmptyQueue DEF Ordered
<1>7. Placed
  BY <1>1 DEF Placed
<1> QED
  BY <1>5, <1>6, <1>7 DEF Archives

LEMMA ArchivesStep == Typed /\ Archives /\ [Next]_vars => Archives'
  BY CallsArchives, OtherArchives, SendChatArchives, ArchiveChatArchives,
     ReceiveArchiveArchives, NodesPartArchives
  DEF Next

LEMMA ArchivesAlways == Spec => [](Typed /\ Archives)
<1>1. Spec => []Typed
  BY TypedAlways
<1> QED
  BY <1>1, ArchivesInit, ArchivesStep, PTL DEF Spec

\* The chats of a sender are archived in the order in which they were sent.
THEOREM ArchivedInOrder == Spec => []SenderOrder
<1>1. Typed /\ Archives => SenderOrder
  <2> SUFFICES ASSUME Typed, Archives,
                      NEW r \in Rooms, NEW i \in DOMAIN log[r], NEW j \in DOMAIN log[r],
                      i < j, log[r][i].from = log[r][j].from
               PROVE  log[r][i].n < log[r][j].n
    BY DEF SenderOrder
  <2>1. log[r][i] \in Chats /\ log[r][j] \in Chats
    BY DEF Typed, TypeOK
  <2>2. Before(log[r], log[r][i], log[r][j])
    BY DEF Before
  <2> QED
    BY <2>1, <2>2 DEF Archives, Ordered
<1> QED
  BY <1>1, ArchivesAlways, PTL

\* At rest every chat is in the archive of its room exactly once, unless its
\* owner could not be reached; then it is not there at all.
THEOREM ChatsAreArchived == Spec => []ArchivedOnce
<1>1. Typed /\ Archives => ArchivedOnce
  <2> SUFFICES ASSUME Typed, Archives, AtRest, NEW c \in sent
               PROVE  Cardinality({i \in DOMAIN log[c.room] : log[c.room][i] = c})
                        = IF c \in lost THEN 0 ELSE 1
    BY DEF ArchivedOnce
  <2> DEFINE q == log[c.room]
             I == {i \in DOMAIN q : q[i] = c}
  <2>1. c \in Chats
    BY DEF Typed, TypeOK
  <2>2. /\ c.n \in Nat /\ c.from \in Sessions /\ c.room \in Rooms
        /\ NodeOf[c.from] \in Nodes /\ OwnerOf[c.room] \in Nodes
    BY <2>1, OnePlace
  <2>3. ~ Pending(c) /\ ~ Forwarded(c)
    BY <2>2, EmptyQueue DEF AtRest, Pending, Forwarded
  <2>4. c \in lost <=> ~ InLog(c)
    BY <2>3 DEF Archives, Placed
  <2>5. CASE c \in lost
    <3>1. I = {}
      BY <2>4, <2>5 DEF InLog, Elements
    <3> QED
      BY <2>5, <3>1, FS_EmptySet
  <2>6. CASE c \notin lost
    <3>1. PICK i \in DOMAIN q : q[i] = c
      BY <2>4, <2>6 DEF InLog, Elements
    <3>2. DOMAIN q \subseteq Nat
      BY SMTT(30), <2>2 DEF Typed, TypeOK
    <3>3. ASSUME NEW j \in DOMAIN q, q[j] = c, j # i
          PROVE  FALSE
      <4>1. i < j \/ j < i
        BY <3>2, <3>3
      <4>2. Before(q, c, c)
        BY <3>1, <3>3, <4>1 DEF Before
      <4>3. c.n < c.n
        BY <2>1, <2>2, <4>2 DEF Archives, Ordered
      <4> QED
        BY <2>2, <4>3
    <3>4. I = {i}
      BY <3>1, <3>3
    <3> QED
      BY <2>6, <3>4, FS_Singleton
  <2> QED
    BY <2>5, <2>6
<1> QED
  BY <1>1, ArchivesAlways, PTL

-----------------------------------------------------------------------------
\* What clients show: every chat of the room is shown, on its way, not for
\* this client or too old to be in the history.

Outdated(c) == InLog(c) /\ c \notin Elements(Latest(log[c.room]))

Seen(s, c) ==
  \/ c \in overtaken[s]
  \/ <<NodeOf[s], c>> \in unheard
  \/ c \in Elements(casts[NodeOf[c.from]][NodeOf[s]])
  \/ c \in Elements(shown[s])
  \/ Outdated(c)

Shows(s) == \A c \in sent : c.room = room[s] => Seen(s, c)

Displayed(s) == room[s] # NoRoom => Shows(s)

\* What a history tells of a log stays true when the log grows.
Told(chats, archived) ==
  \A c \in archived : InLog(c) /\ (c \in Elements(Latest(log[c.room])) => c \in Elements(chats))

Faithful ==
  \A m, n \in Nodes : \A msg \in Elements(calls[m][n]) :
    msg.type = "history" => Told(msg.chats, msg.archived)

Subscribed ==
  \A s \in open : /\ step[s] = "join" => target[s] \in subs[s]
                  /\ room[s] # NoRoom => room[s] \in subs[s]

Displays == Subscribed /\ Faithful /\ \A s \in open : Displayed(s)

\* Logs only grow, by chats that were not in them.
LogsGrow ==
  \A c \in Chats : InLog(c) =>
    /\ InLog(c)'
    /\ c \in Elements(Latest(log'[c.room])) => c \in Elements(Latest(log[c.room]))

LEMMA LogsDoGrow ==
  ASSUME Typed, NEW c \in Chats, ~ InLog(c),
         log' = log \/ log' = [log EXCEPT ![c.room] = Append(@, c)]
  PROVE  LogsGrow
<1>1. CASE log' = log
  BY <1>1 DEF LogsGrow, InLog
<1>2. CASE log' = [log EXCEPT ![c.room] = Append(@, c)]
  <2>1. \A x \in Chats : InLog(x)' <=> InLog(x) \/ x = c
    BY <1>2, LogGrows DEF Typed
  <2>2. ASSUME NEW x \in Chats, InLog(x), x \in Elements(Latest(log'[x.room]))
        PROVE  x \in Elements(Latest(log[x.room]))
    <3>1. x # c
      BY <2>2
    <3>2. log \in [Rooms -> Seq(Chats)] /\ x.room \in Rooms /\ log[x.room] \in Seq(Chats)
      BY DEF Typed, TypeOK, Chats
    <3>3. CASE x.room = c.room
      <4>1. log'[x.room] = Append(log[x.room], c)
        BY <1>2, <3>2, <3>3
      <4> QED
        BY <2>2, <3>1, <3>2, <4>1, LatestAppended
    <3>4. CASE x.room # c.room
      <4>1. log'[x.room] = log[x.room]
        BY <1>2, <3>2, <3>4
      <4> QED
        BY <2>2, <4>1
    <3> QED
      BY <3>3, <3>4
  <2> QED
    BY <2>1, <2>2 DEF LogsGrow
<1> QED
  BY <1>1, <1>2

LEMMA SameLogs ==
  ASSUME log' = log
  PROVE  LogsGrow
  BY DEF LogsGrow, InLog

\* Histories that were told before are still true.
LEMMA StillFaithful ==
  ASSUME Typed, Faithful, LogsGrow,
         NEW m \in Nodes, NEW n \in Nodes, NEW msg \in Elements(calls[m][n]),
         msg.type = "history"
  PROVE  Told(msg.chats, msg.archived)'
<1>1. msg \in Calls
  BY DEF Typed, TypeOK, Elements
<1>2. msg.archived \subseteq Chats
  BY <1>1, CallParts
<1>3. Told(msg.chats, msg.archived)
  BY DEF Faithful
<1> QED
  BY <1>2, <1>3 DEF Told, LogsGrow

LEMMA FaithfulKept ==
  ASSUME Typed, Faithful, LogsGrow,
         \A m, n \in Nodes : \A msg \in Elements(calls'[m][n]) :
           msg.type = "history" => msg \in Elements(calls[m][n])
  PROVE  Faithful'
<1> SUFFICES ASSUME NEW m \in Nodes, NEW n \in Nodes, NEW msg \in Elements(calls'[m][n]),
                    msg.type = "history"
             PROVE  Told(msg.chats, msg.archived)'
  BY DEF Faithful
<1> QED
  BY StillFaithful

\* A client that loses nothing it shows or is to be sent.
LEMMA DisplayKept ==
  ASSUME Typed, LogsGrow, NEW s \in Sessions, Displayed(s),
         room'[s] = room[s], sent' = sent, overtaken'[s] = overtaken[s],
         unheard \subseteq unheard',
         Elements(shown[s]) \subseteq Elements(shown'[s]),
         \A c \in sent : c \in Elements(casts[NodeOf[c.from]][NodeOf[s]]) => Seen(s, c)'
  PROVE  Displayed(s)'
<1>1. sent \subseteq Chats
  BY DEF Typed, TypeOK
<1>2. \A c \in sent : Outdated(c) => Outdated(c)'
  BY <1>1 DEF Outdated, LogsGrow
<1>3. \A c \in sent : Seen(s, c) => Seen(s, c)'
  BY <1>2 DEF Seen
<1>4. Shows(s) => Shows(s)'
  BY <1>3 DEF Shows
<1> QED
  BY <1>4 DEF Displayed

\* A client that is sent a history.
LEMMA HistoryDisplayed ==
  ASSUME Typed, NEW s \in Sessions, NEW chats, NEW archived, Told(chats, archived),
         OnChatHistory(s, chats, archived), sent' = sent, log' = log
  PROVE  /\ s \in open => Shows(s)'
         /\ \A t \in Sessions : t # s => shown'[t] = shown[t] /\ overtaken'[t] = overtaken[t]
<1>1. shown \in [Sessions -> Seq(Chats)] /\ overtaken \in [Sessions -> SUBSET Chats]
  BY DEF Typed, TypeOK
<1>2. \A t \in Sessions : t # s => shown'[t] = shown[t] /\ overtaken'[t] = overtaken[t]
  BY <1>1 DEF OnChatHistory, display
<1>3. ASSUME s \in open
      PROVE  Shows(s)'
  <2>1. shown'[s] = chats /\ overtaken'[s] = sent \ archived
    BY <1>1, <1>3 DEF OnChatHistory
  <2>2. ASSUME NEW c \in sent
        PROVE  Seen(s, c)'
    <3>1. CASE c \in archived
      <4>1. InLog(c) /\ (c \in Elements(Latest(log[c.room])) => c \in Elements(chats))
        BY <3>1 DEF Told
      <4>2. c \in Elements(shown'[s]) \/ Outdated(c)'
        BY <2>1, <4>1 DEF Outdated, InLog
      <4> QED
        BY <4>2 DEF Seen
    <3>2. CASE c \notin archived
      BY <2>1, <3>2 DEF Seen
    <3> QED
      BY <3>1, <3>2
  <2> QED
    BY <2>2 DEF Shows
<1> QED
  BY <1>2, <1>3

\* Clients that join and leave, as far as their subscriptions go, and nodes
\* that join.
LEMMA QuietDisplays ==
  ASSUME Typed, Displays,
         \/ \E s \in Sessions, r \in Rooms : Subscribe(s, r)
         \/ \E s \in Sessions : LeaveRoom(s) \/ Disconnect(s)
         \/ \E m, n \in Nodes : NodesJoin(m, n) \/ RoomsFollow(m, n)
         \/ UNCHANGED vars
  PROVE  Displays'
<1>1. UNCHANGED <<sent, log, casts, calls, unheard>>
  BY DEF Subscribe, LeaveRoom, Disconnect, NodesJoin, RoomsFollow, vars
<1>2. LogsGrow
  BY <1>1, SameLogs
<1>3. Faithful'
  BY <1>1, <1>2, FaithfulKept DEF Displays
<1>4. /\ room \in [Sessions -> Rooms \cup {NoRoom}] /\ subs \in [Sessions -> SUBSET Rooms]
      /\ target \in [Sessions -> Rooms \cup {NoRoom}] /\ open \subseteq Sessions
      /\ step \in [Sessions -> {"idle", "join", "archive"}]
      /\ shown \in [Sessions -> Seq(Chats)] /\ overtaken \in [Sessions -> SUBSET Chats]
  BY DEF Typed, TypeOK
<1>5. Subscribed'
  <2>1. CASE \E s \in Sessions, r \in Rooms : Subscribe(s, r)
    <3>1. PICK s \in Sessions, r \in Rooms : Subscribe(s, r)
      BY <2>1
    <3>2. /\ subs' = [subs EXCEPT ![s] = @ \cup {r}]
          /\ target' = [target EXCEPT ![s] = r] /\ step' = [step EXCEPT ![s] = "join"]
          /\ room[s] = NoRoom /\ room' = room /\ open' = open
      BY <3>1 DEF Subscribe
    <3> QED
      BY <1>4, <3>2 DEF Displays, Subscribed
  <2>2. CASE \E s \in Sessions : LeaveRoom(s)
    <3>1. PICK s \in Sessions : LeaveRoom(s)
      BY <2>2
    <3>2. /\ room' = [room EXCEPT ![s] = NoRoom]
          /\ subs' = [subs EXCEPT ![s] = @ \ {room[s]}]
          /\ step[s] = "idle" /\ UNCHANGED <<open, step, target>>
      BY <3>1 DEF LeaveRoom
    <3> QED
      BY <1>4, <3>2 DEF Displays, Subscribed
  <2>3. CASE \E s \in Sessions : Disconnect(s)
    <3>1. PICK s \in Sessions : Disconnect(s)
      BY <2>3
    <3>2. /\ room' = [room EXCEPT ![s] = NoRoom] /\ subs' = [subs EXCEPT ![s] = {}]
          /\ open' = open \ {s} /\ UNCHANGED <<step, target>>
      BY <3>1 DEF Disconnect
    <3> QED
      BY <1>4, <3>2 DEF Displays, Subscribed
  <2>4. CASE \/ \E m, n \in Nodes : NodesJoin(m, n) \/ RoomsFollow(m, n)
             \/ UNCHANGED vars
    <3>1. UNCHANGED <<open, room, subs, step, target>>
      BY <2>4 DEF NodesJoin, RoomsFollow, vars
    <3> QED
      BY <3>1 DEF Displays, Subscribed
  <2> QED
    BY <2>1, <2>2, <2>3, <2>4
<1>6. ASSUME NEW t \in open'
      PROVE  Displayed(t)'
  <2>1. t \in open /\ t \in Sessions /\ Displayed(t)
    BY <1>4 DEF Subscribe, LeaveRoom, Disconnect, NodesJoin, RoomsFollow, vars, Displays
  <2>2. CASE room'[t] = NoRoom
    BY <2>2 DEF Displayed
  <2>3. CASE room'[t] # NoRoom
    <3>1. room'[t] = room[t] /\ shown'[t] = shown[t] /\ overtaken'[t] = overtaken[t]
      BY <1>4, <2>1, <2>3, ChatAssumption
      DEF Subscribe, LeaveRoom, Disconnect, NodesJoin, RoomsFollow, OnRoomLeft, display, vars
    <3>2. \A c \in sent : c \in Elements(casts[NodeOf[c.from]][NodeOf[t]]) => Seen(t, c)'
      BY <1>1 DEF Seen
    <3> QED
      BY <1>1, <1>2, <2>1, <3>1, <3>2, DisplayKept
  <2> QED
    BY <2>2, <2>3
<1> QED
  BY <1>3, <1>5, <1>6 DEF Displays

\* Chats that are archived, and lost on the way.
LEMMA ArchivingDisplays ==
  ASSUME Typed, Archives, Displays,
         \/ \E s \in Sessions : ArchiveChat(s)
         \/ \E m, n \in Nodes : ReceiveArchive(m, n)
  PROVE  Displays'
<1>1. /\ UNCHANGED <<open, room, subs, display, target, sent, casts, unheard>>
      /\ \A t \in Sessions : step'[t] = "join" => step[t] = "join"
  BY DEF ArchiveChat, ReceiveArchive, Typed, TypeOK
<1>2. ASSUME NEW s \in Sessions, ArchiveChat(s)
      PROVE  /\ LogsGrow
             /\ \A a, b \in Nodes : \A msg \in Elements(calls'[a][b]) :
                  msg.type = "history" => msg \in Elements(calls[a][b])
  <2>0. PICK c : c = Published(s)
    OBVIOUS
  <2>1. /\ step[s] = "archive" /\ c \in Chats /\ c.from = s /\ c.n = Count(s)
        /\ log' = log \/ log' = [log EXCEPT ![c.room] = Append(@, c)]
        /\ \/ calls' = calls
           \/ \A a, b \in Nodes : calls'[a][b] =
                IF a = NodeOf[s] /\ b = OwnerOf[c.room]
                THEN Append(calls[a][b], Arch(c)) ELSE calls[a][b]
    BY <1>2, <2>0, ArchiveChatEffect
  <2>2. ~ InLog(c)
    BY <2>1, OnePlace DEF Pending
  <2>3. LogsGrow
    BY <2>1, <2>2, LogsDoGrow
  <2>4. ASSUME NEW a \in Nodes, NEW b \in Nodes
        PROVE  \A msg \in Elements(calls'[a][b]) :
                 msg.type = "history" => msg \in Elements(calls[a][b])
    <3>1. calls'[a][b] = calls[a][b] \/ calls'[a][b] = Append(calls[a][b], Arch(c))
      BY ZenonT(30), <2>1
    <3>2. calls[a][b] \in Seq(Calls) /\ Arch(c) \in Calls /\ Arch(c).type = "archive"
      BY <2>1, CallKinds DEF Typed, TypeOK
    <3>3. Elements(Append(calls[a][b], Arch(c))) = Elements(calls[a][b]) \cup {Arch(c)}
      BY <3>2, Appended
    <3> QED
      BY <3>1, <3>2, <3>3
  <2> QED
    BY <2>3, <2>4
<1>3. ASSUME NEW m \in Nodes, NEW n \in Nodes, ReceiveArchive(m, n)
      PROVE  /\ LogsGrow
             /\ \A a, b \in Nodes : \A msg \in Elements(calls'[a][b]) :
                  msg.type = "history" => msg \in Elements(calls[a][b])
  <2>0. PICK c : c = Head(calls[m][n]).chat
    OBVIOUS
  <2>1. /\ Hears(m, n, "archive") /\ log' = [log EXCEPT ![c.room] = Append(@, c)]
        /\ calls' = Consume(calls, m, n)
    BY <1>3, <2>0 DEF ReceiveArchive
  <2>2. /\ calls[m][n] # <<>> /\ calls[m][n] \in Seq(Calls)
        /\ Head(calls[m][n]) \in Calls /\ Head(calls[m][n]).type = "archive"
        /\ \A a, b \in Nodes : calls'[a][b] =
             IF a = m /\ b = n THEN Tail(calls[a][b]) ELSE calls[a][b]
    BY <2>1, CallHeard
  <2>3. c \in Chats /\ Head(calls[m][n]) = Arch(c)
    BY <2>0, <2>2, CallParts
  <2>4. Elements(calls[m][n]) = {Head(calls[m][n])} \cup Elements(Tail(calls[m][n]))
    BY <2>2, Taken
  <2>5. Forwarded(c)
    BY <2>3, <2>4 DEF Archives, Places, Forwarded
  <2>6. LogsGrow
    BY <2>1, <2>3, <2>5, OnePlace, LogsDoGrow
  <2> QED
    BY <2>2, <2>4, <2>6
<1>4. /\ LogsGrow
      /\ \A a, b \in Nodes : \A msg \in Elements(calls'[a][b]) :
           msg.type = "history" => msg \in Elements(calls[a][b])
  BY <1>2, <1>3
<1>5. Faithful'
  BY <1>4, FaithfulKept DEF Displays
<1>6. open \subseteq Sessions
  BY DEF Typed, TypeOK
<1>7. Subscribed'
  BY <1>1, <1>6 DEF Displays, Subscribed
<1>8. ASSUME NEW t \in open
      PROVE  Displayed(t)'
  <2>1. t \in Sessions /\ Displayed(t)
    BY <1>6 DEF Displays
  <2>2. /\ room'[t] = room[t] /\ shown'[t] = shown[t] /\ overtaken'[t] = overtaken[t]
        /\ sent' = sent /\ unheard' = unheard
    BY <1>1 DEF display
  <2>3. \A c \in sent : c \in Elements(casts[NodeOf[c.from]][NodeOf[t]]) => Seen(t, c)'
    BY <1>1 DEF Seen
  <2> QED
    BY <1>4, <2>1, <2>2, <2>3, DisplayKept
<1> QED
  BY <1>1, <1>5, <1>7, <1>8 DEF Displays

\* A chat that is sent is shown, on its way or does not get there.
LEMMA SendChatDisplays ==
  ASSUME Typed, Displays, NEW s \in Sessions, SendChat(s)
  PROVE  Displays'
<1>0. PICK c, m : c = NextChat(s) /\ m = NodeOf[s]
  OBVIOUS
<1>1. /\ OnChat(m, c) /\ sent' = sent \cup {c}
      /\ unheard' = unheard \cup ((Nodes \ (joined[m] \cup {m})) \X {c})
      /\ step' = [step EXCEPT ![s] = "archive"]
      /\ UNCHANGED <<open, room, subs, target, log, calls, overtaken>>
  BY <1>0 DEF SendChat
<1>2. /\ m \in Nodes /\ c \in Chats /\ c.from = s /\ c.room = room[s]
      /\ \A a, b \in Nodes : casts'[a][b] =
           IF a = m /\ b \in joined[m] THEN Append(casts[a][b], c) ELSE casts[a][b]
  BY <1>0, SendChatEffect
<1>3. /\ shown \in [Sessions -> Seq(Chats)] /\ open \subseteq Sessions /\ sent \subseteq Chats
      /\ step \in [Sessions -> {"idle", "join", "archive"}]
      /\ casts \in LinksOf(Chats)
  BY DEF Typed, TypeOK, Linked
<1>4. LogsGrow
  BY <1>1, SameLogs
<1>5. Faithful'
  BY <1>1, <1>4, FaithfulKept DEF Displays
<1>6. Subscribed'
  BY <1>1, <1>3 DEF Displays, Subscribed
<1>7. \A a, b \in Nodes : Elements(casts'[a][b]) =
        Elements(casts[a][b]) \cup (IF a = m /\ b \in joined[m] THEN {c} ELSE {})
  <2>1. ASSUME NEW a \in Nodes, NEW b \in Nodes
        PROVE  Elements(casts'[a][b]) =
                 Elements(casts[a][b]) \cup (IF a = m /\ b \in joined[m] THEN {c} ELSE {})
    <3>1. casts[a][b] \in Seq(Chats)
      BY <1>3 DEF LinksOf
    <3>2. Elements(Append(casts[a][b], c)) = Elements(casts[a][b]) \cup {c}
      BY <1>2, <3>1, Appended
    <3> QED
      BY <1>2, <3>2
  <2> QED
    BY <2>1
<1>8. ASSUME NEW t \in Sessions
      PROVE  Elements(shown'[t]) =
               Elements(shown[t]) \cup (IF t \in Subscribers(m, c) THEN {c} ELSE {})
  <2>1. shown'[t] = IF t \in Subscribers(m, c) THEN Append(shown[t], c) ELSE shown[t]
    BY <1>1, <1>3 DEF OnChat
  <2>2. shown[t] \in Seq(Chats)
    BY <1>3
  <2>3. Elements(Append(shown[t], c)) = Elements(shown[t]) \cup {c}
    BY <1>2, <2>2, Appended
  <2> QED
    BY <2>1, <2>3
<1>9. ASSUME NEW t \in open
      PROVE  Displayed(t)'
  <2>1. t \in Sessions /\ Displayed(t) /\ NodeOf[t] \in Nodes
    BY <1>3, ChatAssumption DEF Displays
  <2>2. ASSUME NEW x \in sent, Seen(t, x)
        PROVE  Seen(t, x)'
    <3>1. NodeOf[x.from] \in Nodes
      BY <1>3, ChatAssumption DEF Chats
    <3>2. Outdated(x)' <=> Outdated(x)
      BY <1>1 DEF Outdated, InLog
    <3> QED
      BY SMTT(30), <1>1, <1>7, <1>8, <2>1, <2>2, <3>1, <3>2 DEF Seen
  <2>3. room[t] = c.room => Seen(t, c)'
    <3> SUFFICES ASSUME room[t] = c.room PROVE Seen(t, c)'
      OBVIOUS
    <3>1. CASE NodeOf[t] = m
      <4>1. room[t] \in subs[t]
        BY <1>2, <1>3 DEF Displays, Subscribed, SendChat, Typed, TypeOK
      <4>2. t \in Subscribers(m, c)
        BY <3>1, <4>1 DEF Subscribers
      <4> QED
        BY <1>8, <2>1, <4>2 DEF Seen
    <3>2. CASE NodeOf[t] \in joined[m]
      <4>1. NodeOf[c.from] = m
        BY <1>0, <1>2
      <4> QED
        BY <1>2, <1>7, <2>1, <3>2, <4>1 DEF Seen
    <3>3. CASE NodeOf[t] \notin joined[m] \cup {m}
      BY <1>1, <2>1, <3>3 DEF Seen
    <3> QED
      BY <3>1, <3>2, <3>3
  <2>4. Shows(t) => Shows(t)'
    BY <1>1, <2>2, <2>3 DEF Shows
  <2> QED
    BY <1>1, <2>1, <2>4 DEF Displayed
<1> QED
  BY <1>1, <1>5, <1>6, <1>9 DEF Displays

\* A chat that is received is shown to all who are subscribed to its room.
LEMMA ReceiveCastDisplays ==
  ASSUME Typed, Displays, NEW m \in Nodes, NEW n \in Nodes, ReceiveCast(m, n)
  PROVE  Displays'
<1>0. PICK c : c = Head(casts[m][n])
  OBVIOUS
<1>1. /\ OnChat(n, c)
      /\ UNCHANGED <<open, room, subs, step, target, sent, log, calls, unheard, overtaken>>
  BY <1>0 DEF ReceiveCast
<1>2. /\ casts[m][n] # <<>> /\ casts[m][n] \in Seq(Chats) /\ c \in Chats
      /\ \A a, b \in Nodes :
           casts'[a][b] = IF a = m /\ b = n THEN Tail(casts[a][b]) ELSE casts[a][b]
  BY <1>0, CastHeard
<1>3. Elements(casts[m][n]) = {c} \cup Elements(Tail(casts[m][n]))
  BY <1>0, <1>2, Taken
<1>4. shown \in [Sessions -> Seq(Chats)] /\ open \subseteq Sessions /\ sent \subseteq Chats
  BY DEF Typed, TypeOK
<1>5. LogsGrow
  BY <1>1, SameLogs
<1>6. Faithful'
  BY <1>1, <1>5, FaithfulKept DEF Displays
<1>7. Subscribed'
  BY <1>1 DEF Displays, Subscribed
<1>8. ASSUME NEW t \in Sessions
      PROVE  Elements(shown'[t]) =
               Elements(shown[t]) \cup (IF t \in Subscribers(n, c) THEN {c} ELSE {})
  <2>1. shown'[t] = IF t \in Subscribers(n, c) THEN Append(shown[t], c) ELSE shown[t]
    BY <1>1, <1>4 DEF OnChat
  <2>2. shown[t] \in Seq(Chats)
    BY <1>4
  <2>3. Elements(Append(shown[t], c)) = Elements(shown[t]) \cup {c}
    BY <1>2, <2>2, Appended
  <2> QED
    BY <2>1, <2>3
<1>9. ASSUME NEW t \in open
      PROVE  Displayed(t)'
  <2>1. t \in Sessions /\ Displayed(t) /\ NodeOf[t] \in Nodes
    BY <1>4, ChatAssumption DEF Displays
  <2>2. ASSUME NEW x \in sent, x.room = room[t], Seen(t, x)
        PROVE  Seen(t, x)'
    <3>1. NodeOf[x.from] \in Nodes
      BY <1>4, ChatAssumption DEF Chats
    <3>2. Outdated(x)' <=> Outdated(x)
      BY <1>1 DEF Outdated, InLog
    <3>3. CASE x \in Elements(casts[NodeOf[x.from]][NodeOf[t]])
      <4>1. CASE NodeOf[x.from] = m /\ NodeOf[t] = n /\ x = c
        <5>1. room[t] \in subs[t]
          <6>1. room[t] # NoRoom
            BY <1>4, <2>2, ChatAssumption DEF Chats
          <6> QED
            BY <6>1 DEF Displays, Subscribed
        <5>2. t \in Subscribers(n, c)
          BY <2>2, <4>1, <5>1 DEF Subscribers
        <5> QED
          BY <1>8, <2>1, <4>1, <5>2 DEF Seen
      <4>2. CASE ~ (NodeOf[x.from] = m /\ NodeOf[t] = n /\ x = c)
        <5>1. x \in Elements(casts'[NodeOf[x.from]][NodeOf[t]])
          BY <1>2, <1>3, <2>1, <3>1, <3>3, <4>2
        <5> QED
          BY <5>1 DEF Seen
      <4> QED
        BY <4>1, <4>2
    <3>4. CASE x \notin Elements(casts[NodeOf[x.from]][NodeOf[t]])
      BY <1>1, <1>8, <2>1, <2>2, <3>2, <3>4 DEF Seen
    <3> QED
      BY <3>3, <3>4
  <2>3. Shows(t) => Shows(t)'
    BY <1>1, <2>2 DEF Shows
  <2> QED
    BY <1>1, <2>1, <2>3 DEF Displayed
<1> QED
  BY <1>1, <1>6, <1>7, <1>9 DEF Displays

\* What a history of a log tells when it is read.
LEMMA HistoryIsTold ==
  ASSUME Typed, Archives, NEW r \in Rooms
  PROVE  Told(Latest(log[r]), Elements(log[r]))
<1>1. \A c \in Elements(log[r]) : c.room = r
  BY DEF Archives, Places
<1> QED
  BY <1>1 DEF Told, InLog

\* Whoever joins has the history, or may miss what was sent before.
LEMMA JoinRoomDisplays ==
  ASSUME Typed, Archives, Displays, NEW s \in Sessions, JoinRoom(s)
  PROVE  Displays'
<1>0. PICK r : r = target[s]
  OBVIOUS
<1>1. /\ step[s] = "join" /\ step' = [step EXCEPT ![s] = "idle"]
      /\ target' = [target EXCEPT ![s] = NoRoom]
      /\ \/ OnRoomJoined(s, r) /\ Ask(s, r)
         \/ UNCHANGED <<room, display, calls>>
      /\ UNCHANGED <<open, subs, sent, log, casts, unheard>>
  BY <1>0 DEF JoinRoom
<1>a. r \in Rooms
  BY <1>0, <1>1 DEF Typed, Joining
<1>2. s \in open => r \in subs[s]
  BY <1>0, <1>1 DEF Displays, Subscribed
<1>3. /\ room \in [Sessions -> Rooms \cup {NoRoom}] /\ open \subseteq Sessions
      /\ step \in [Sessions -> {"idle", "join", "archive"}]
      /\ target \in [Sessions -> Rooms \cup {NoRoom}]
      /\ overtaken \in [Sessions -> SUBSET Chats]
      /\ calls \in [Nodes -> [Nodes -> Seq(Calls)]]
      /\ NodeOf[s] \in Nodes /\ OwnerOf[r] \in Nodes
  BY <1>a, ChatAssumption DEF Typed, TypeOK
<1>4. LogsGrow
  BY <1>1, SameLogs
<1>5. \/ room' = room
      \/ s \in open /\ room' = [room EXCEPT ![s] = r]
  BY <1>1 DEF OnRoomJoined
<1>6. Subscribed'
  <2> SUFFICES ASSUME NEW t \in open
               PROVE  /\ step'[t] = "join" => target'[t] \in subs[t]
                      /\ room'[t] # NoRoom => room'[t] \in subs[t]
    BY <1>1 DEF Subscribed
  <2>1. t \in Sessions /\ (step[t] = "join" => target[t] \in subs[t])
        /\ (room[t] # NoRoom => room[t] \in subs[t])
    BY <1>3 DEF Displays, Subscribed
  <2>2. CASE t = s
    BY <1>1, <1>2, <1>3, <1>5, <2>1, <2>2
  <2>3. CASE t # s
    BY <1>1, <1>3, <1>5, <2>1, <2>3
  <2> QED
    BY <2>2, <2>3
<1> DEFINE ask == [type |-> "ask", to |-> s, room |-> r]
<1>7. ask \in Calls /\ ask.type = "ask" /\ ask.to = s
  BY <1>a, CallKinds
<1>8. CASE UNCHANGED <<room, display, calls>>
  <2>1. Faithful'
    BY <1>4, <1>8, FaithfulKept DEF Displays
  <2>2. ASSUME NEW t \in open
        PROVE  Displayed(t)'
    <3>1. \A c \in sent : c \in Elements(casts[NodeOf[c.from]][NodeOf[t]]) => Seen(t, c)'
      BY <1>1 DEF Seen
    <3>2. t \in Sessions /\ Displayed(t)
      BY <1>3 DEF Displays
    <3> QED
      BY <1>1, <1>4, <1>8, <3>1, <3>2, DisplayKept DEF display
  <2> QED
    BY <1>1, <1>6, <2>1, <2>2 DEF Displays
<1>9. CASE OnChatHistory(s, Latest(log[r]), Elements(log[r])) /\ calls' = calls
  <2>1. Faithful'
    BY <1>4, <1>9, FaithfulKept DEF Displays
  <2>2. /\ s \in open => Shows(s)'
        /\ \A t \in Sessions : t # s => shown'[t] = shown[t] /\ overtaken'[t] = overtaken[t]
    BY <1>1, <1>9, <1>a, HistoryIsTold, HistoryDisplayed
  <2>3. ASSUME NEW t \in open, t # s
        PROVE  Displayed(t)'
    <3>1. \A c \in sent : c \in Elements(casts[NodeOf[c.from]][NodeOf[t]]) => Seen(t, c)'
      BY <1>1 DEF Seen
    <3>2. t \in Sessions /\ Displayed(t) /\ room'[t] = room[t]
      BY <1>3, <1>5, <2>3 DEF Displays
    <3> QED
      BY <1>1, <1>4, <2>2, <2>3, <3>1, <3>2, DisplayKept
  <2>4. s \in open => Displayed(s)'
    BY <2>2 DEF Displayed
  <2> QED
    BY <1>1, <1>6, <2>1, <2>3, <2>4 DEF Displays
<1>10. CASE /\ \A a, b \in Nodes : calls'[a][b] =
                 IF a = NodeOf[s] /\ b \in joined[NodeOf[s]] \cap {OwnerOf[r]}
                 THEN Append(calls[a][b], ask) ELSE calls[a][b]
            /\ overtaken' = [overtaken EXCEPT ![s] = sent]
            /\ shown' = shown
  <2> HIDE DEF ask
  <2>1. ASSUME NEW a \in Nodes, NEW b \in Nodes
        PROVE  \A msg \in Elements(calls'[a][b]) : msg \in Elements(calls[a][b]) \/ msg = ask
    <3>1. calls[a][b] \in Seq(Calls)
      BY <1>3
    <3>2. Elements(Append(calls[a][b], ask)) = Elements(calls[a][b]) \cup {ask}
      BY <1>7, <3>1, Appended
    <3> QED
      BY <1>10, <3>2
  <2>2. Faithful'
    BY <1>4, <1>7, <2>1, FaithfulKept DEF Displays
  <2>3. ASSUME NEW t \in open, t # s
        PROVE  Displayed(t)'
    <3>1. \A c \in sent : c \in Elements(casts[NodeOf[c.from]][NodeOf[t]]) => Seen(t, c)'
      BY <1>1 DEF Seen
    <3>2. t \in Sessions /\ Displayed(t) /\ room'[t] = room[t]
      BY <1>3, <1>5, <2>3 DEF Displays
    <3>3. overtaken'[t] = overtaken[t]
      BY <1>3, <1>10, <2>3, <3>2
    <3> QED
      BY <1>1, <1>4, <1>10, <3>1, <3>2, <3>3, DisplayKept
  <2>4. Displayed(s)'
    <3>1. overtaken'[s] = sent'
      BY <1>1, <1>3, <1>10
    <3> QED
      BY <3>1 DEF Displayed, Shows, Seen
  <2> QED
    BY <1>1, <1>6, <2>2, <2>3, <2>4 DEF Displays
<1>11. Ask(s, r) =>
         \/ OnChatHistory(s, Latest(log[r]), Elements(log[r])) /\ calls' = calls
         \/ /\ \A a, b \in Nodes : calls'[a][b] =
                 IF a = NodeOf[s] /\ b \in joined[NodeOf[s]] \cap {OwnerOf[r]}
                 THEN Append(calls[a][b], ask) ELSE calls[a][b]
            /\ overtaken' = [overtaken EXCEPT ![s] = sent]
            /\ shown' = shown
  BY <1>a, AskEffect
<1> QED
  BY <1>1, <1>8, <1>9, <1>10, <1>11

\* Who asks for a history is told what is true of the log.
LEMMA ReceiveAskDisplays ==
  ASSUME Typed, Archives, Displays, NEW m \in Nodes, NEW n \in Nodes, ReceiveAsk(m, n)
  PROVE  Displays'
<1> DEFINE msg == Head(calls[m][n])
           answer == AnswerTo(msg)
<1>1. UNCHANGED <<open, room, subs, display, step, target, sent, log, casts, unheard>>
  BY DEF ReceiveAsk
<1>2. /\ m # n /\ calls[m][n] # <<>> /\ calls[m][n] \in Seq(Calls)
      /\ msg \in Calls /\ msg.type = "ask"
      /\ answer \in Calls
      /\ \A a, b \in Nodes : calls'[a][b] =
           IF a = m /\ b = n THEN Tail(calls[a][b])
           ELSE IF a = n /\ b = m THEN Append(calls[a][b], answer)
           ELSE calls[a][b]
  BY ReceiveAskEffect
<1>3. Elements(calls[m][n]) = {msg} \cup Elements(Tail(calls[m][n]))
  BY <1>2, Taken
<1> HIDE DEF msg
<1>4. /\ answer.type = "history" /\ answer.to = msg.to
      /\ answer.chats = Latest(log[msg.room]) /\ answer.archived = Elements(log[msg.room])
  BY DEF AnswerTo
<1>b. PICK ans : ans = answer
  OBVIOUS
<1>5. Told(ans.chats, ans.archived)'
  <2>1. msg.room \in Rooms
    BY <1>2, CallParts
  <2>2. Told(Latest(log[msg.room]), Elements(log[msg.room]))
    BY <2>1, HistoryIsTold
  <2>3. Told(ans.chats, ans.archived)
    BY <1>4, <1>b, <2>2
  <2> QED
    BY <1>1, <2>3 DEF Told, InLog
<1> HIDE DEF answer
<1>6. ASSUME NEW a \in Nodes, NEW b \in Nodes
      PROVE  \A x \in Elements(calls'[a][b]) : x = ans \/ x \in Elements(calls[a][b])
  <2>1. calls[a][b] \in Seq(Calls)
    BY DEF Typed, TypeOK
  <2>2. Elements(Append(calls[a][b], answer)) = Elements(calls[a][b]) \cup {answer}
    BY <1>2, <2>1, Appended
  <2> QED
    BY <1>2, <1>3, <1>b, <2>2
<1>8. LogsGrow
  BY <1>1, SameLogs
<1>9. Faithful'
  <2> SUFFICES ASSUME NEW a \in Nodes, NEW b \in Nodes, NEW x \in Elements(calls'[a][b]),
                      x.type = "history"
               PROVE  Told(x.chats, x.archived)'
    BY DEF Faithful
  <2>1. CASE x = ans
    BY <1>5, <2>1
  <2>2. CASE x # ans
    <3>1. x \in Elements(calls[a][b])
      BY <1>6, <2>2
    <3> QED
      BY <1>8, <3>1, StillFaithful DEF Displays
  <2> QED
    BY <2>1, <2>2
<1>10. ASSUME NEW t \in open
       PROVE  Displayed(t)'
  <2>1. \A c \in sent : c \in Elements(casts[NodeOf[c.from]][NodeOf[t]]) => Seen(t, c)'
    BY <1>1 DEF Seen
  <2>2. t \in Sessions /\ Displayed(t)
    BY DEF Displays, Typed, TypeOK
  <2> QED
    BY <1>1, <1>8, <2>1, <2>2, DisplayKept DEF display
<1>11. Subscribed'
  BY <1>1 DEF Displays, Subscribed
<1> QED
  BY <1>1, <1>9, <1>10, <1>11 DEF Displays

\* A client shows the history it gets, and has what the history does not.
LEMMA ReceiveHistoryDisplays ==
  ASSUME Typed, Archives, Displays, NEW m \in Nodes, NEW n \in Nodes, ReceiveHistory(m, n)
  PROVE  Displays'
<1>0. PICK msg : msg = Head(calls[m][n])
  OBVIOUS
<1>1. /\ Hears(m, n, "history") /\ calls' = Consume(calls, m, n)
      /\ OnChatHistory(msg.to, msg.chats, msg.archived)
      /\ UNCHANGED <<open, room, subs, step, target, sent, log, casts, unheard>>
  BY <1>0 DEF ReceiveHistory
<1>2. /\ calls[m][n] # <<>> /\ calls[m][n] \in Seq(Calls)
      /\ msg \in Calls /\ msg.type = "history"
      /\ \A a, b \in Nodes :
           calls'[a][b] = IF a = m /\ b = n THEN Tail(calls[a][b]) ELSE calls[a][b]
  BY <1>0, <1>1, CallHeard
<1>3. Elements(calls[m][n]) = {msg} \cup Elements(Tail(calls[m][n]))
  BY <1>0, <1>2, Taken
<1>4. \A a, b \in Nodes : Elements(calls'[a][b]) \subseteq Elements(calls[a][b])
  BY <1>2, <1>3
<1>5. msg.to \in Sessions
  BY <1>2, CallParts
<1>6. Told(msg.chats, msg.archived)
  BY <1>2, <1>3 DEF Displays, Faithful
<1>7. /\ msg.to \in open => Shows(msg.to)'
      /\ \A t \in Sessions :
           t # msg.to => shown'[t] = shown[t] /\ overtaken'[t] = overtaken[t]
  BY <1>1, <1>5, <1>6, HistoryDisplayed
<1>8. LogsGrow
  BY <1>1, SameLogs
<1>9. Faithful'
  BY <1>4, <1>8, FaithfulKept DEF Displays
<1>10. Subscribed'
  BY <1>1 DEF Displays, Subscribed
<1>11. ASSUME NEW t \in open
       PROVE  Displayed(t)'
  <2>1. t \in Sessions /\ Displayed(t)
    BY DEF Displays, Typed, TypeOK
  <2>2. CASE t = msg.to
    BY <1>7, <2>2 DEF Displayed
  <2>3. CASE t # msg.to
    <3>1. \A c \in sent : c \in Elements(casts[NodeOf[c.from]][NodeOf[t]]) => Seen(t, c)'
      BY <1>1 DEF Seen
    <3> QED
      BY <1>1, <1>7, <1>8, <2>1, <2>3, <3>1, DisplayKept
  <2> QED
    BY <2>2, <2>3
<1> QED
  BY <1>1, <1>9, <1>10, <1>11 DEF Displays

\* A client that gets no history shows what it showed.
LEMMA LateHistoryDisplays ==
  ASSUME Typed, Displays, NEW m \in Nodes, NEW n \in Nodes, LateHistory(m, n)
  PROVE  Displays'
<1>1. /\ Hears(m, n, "history") /\ calls' = Consume(calls, m, n)
      /\ UNCHANGED <<open, room, subs, shown, overtaken, step, target, sent, log, casts, unheard>>
  BY DEF LateHistory, display
<1>2. /\ calls[m][n] # <<>> /\ calls[m][n] \in Seq(Calls)
      /\ \A a, b \in Nodes :
           calls'[a][b] = IF a = m /\ b = n THEN Tail(calls[a][b]) ELSE calls[a][b]
  BY <1>1, CallHeard
<1>3. Elements(calls[m][n]) = {Head(calls[m][n])} \cup Elements(Tail(calls[m][n]))
  BY <1>2, Taken
<1>4. \A a, b \in Nodes : Elements(calls'[a][b]) \subseteq Elements(calls[a][b])
  BY <1>2, <1>3
<1>5. LogsGrow
  BY <1>1, SameLogs
<1>6. Faithful'
  BY <1>4, <1>5, FaithfulKept DEF Displays
<1>7. Subscribed'
  BY <1>1 DEF Displays, Subscribed
<1>8. ASSUME NEW t \in open
      PROVE  Displayed(t)'
  <2>1. t \in Sessions /\ Displayed(t)
    BY DEF Displays, Typed, TypeOK
  <2>2. \A c \in sent : c \in Elements(casts[NodeOf[c.from]][NodeOf[t]]) => Seen(t, c)'
    BY <1>1 DEF Seen
  <2> QED
    BY <1>1, <1>5, <2>1, <2>2, DisplayKept
<1> QED
  BY <1>1, <1>6, <1>7, <1>8 DEF Displays

\* When nodes part there are chats that do not get to a node.
LEMMA NodesPartDisplays ==
  ASSUME Typed, Displays, NEW m \in Nodes, NEW n \in Nodes, NodesPart(m, n)
  PROVE  Displays'
<1>1. /\ unheard' = unheard \cup ({n} \X UnderWay(casts, m, n)) \cup ({m} \X UnderWay(casts, n, m))
      /\ UNCHANGED <<open, room, subs, shown, overtaken, step, target, sent, log>>
  BY DEF NodesPart, display
<1>3. \A a, b \in Nodes :
        /\ casts'[a][b] = IF (a = m /\ b = n) \/ (a = n /\ b = m) THEN <<>> ELSE casts[a][b]
        /\ calls'[a][b] = IF (a = m /\ b = n) \/ (a = n /\ b = m) THEN <<>> ELSE calls[a][b]
  BY NodesPartEffect
<1>5. \A a, b \in Nodes : Elements(calls'[a][b]) \subseteq Elements(calls[a][b])
  BY <1>3, EmptyQueue
<1>6. LogsGrow
  BY <1>1, SameLogs
<1>7. Faithful'
  BY <1>5, <1>6, FaithfulKept DEF Displays
<1>8. Subscribed'
  BY <1>1 DEF Displays, Subscribed
<1>9. ASSUME NEW t \in open
      PROVE  Displayed(t)'
  <2>1. t \in Sessions /\ Displayed(t) /\ NodeOf[t] \in Nodes
    BY ChatAssumption DEF Displays, Typed, TypeOK
  <2>2. ASSUME NEW c \in sent, c \in Elements(casts[NodeOf[c.from]][NodeOf[t]])
        PROVE  Seen(t, c)'
    <3>1. NodeOf[c.from] \in Nodes
      BY ChatAssumption DEF Typed, TypeOK, Chats
    <3>2. CASE \/ NodeOf[c.from] = m /\ NodeOf[t] = n
               \/ NodeOf[c.from] = n /\ NodeOf[t] = m
      <4>1. <<NodeOf[t], c>> \in unheard'
        BY <1>1, <2>2, <3>2 DEF UnderWay
      <4> QED
        BY <4>1 DEF Seen
    <3>3. CASE ~ (\/ NodeOf[c.from] = m /\ NodeOf[t] = n
                  \/ NodeOf[c.from] = n /\ NodeOf[t] = m)
      <4>1. c \in Elements(casts'[NodeOf[c.from]][NodeOf[t]])
        BY <1>3, <2>1, <2>2, <3>1, <3>3
      <4> QED
        BY <4>1 DEF Seen
    <3> QED
      BY <3>2, <3>3
  <2> QED
    BY <1>1, <1>6, <2>1, <2>2, DisplayKept
<1> QED
  BY <1>1, <1>7, <1>8, <1>9 DEF Displays

LEMMA DisplaysInit == Init => Displays
<1> SUFFICES ASSUME Init PROVE Displays
  OBVIOUS
<1>1. /\ calls = NoLinks /\ room = [s \in Sessions |-> NoRoom] /\ open = Sessions
      /\ step = [s \in Sessions |-> "idle"]
  BY DEF Init
<1>2. \A m, n \in Nodes : calls[m][n] = <<>>
  BY <1>1, InitialLinks
<1> QED
  BY <1>1, <1>2, EmptyQueue DEF Displays, Subscribed, Faithful, Displayed

LEMMA DisplaysStep == Typed /\ Archives /\ Displays /\ [Next]_vars => Displays'
  BY QuietDisplays, ArchivingDisplays, SendChatDisplays, ReceiveCastDisplays, JoinRoomDisplays,
     ReceiveAskDisplays, ReceiveHistoryDisplays, LateHistoryDisplays, NodesPartDisplays
  DEF Next

\* At rest a client shows the latest chats of its room, whatever overtook
\* what: those of the history, and all that came after it.
THEOREM LatestAreShown == Spec => []ShowsLatest
<1>1. Typed /\ Archives /\ Displays => ShowsLatest
  <2> SUFFICES ASSUME Typed, Archives, Displays, AtRest, NEW s \in open, room[s] # NoRoom,
                      NEW c \in Elements(Latest(log[room[s]])) \ overtaken[s],
                      <<NodeOf[s], c>> \notin unheard
               PROVE  c \in Elements(shown[s])
    BY DEF ShowsLatest
  <2>1. s \in Sessions /\ room[s] \in Rooms /\ log[room[s]] \in Seq(Chats)
    BY DEF Typed, TypeOK
  <2>2. c \in Elements(log[room[s]])
    <3>1. Elements(Latest(log[room[s]])) =
            {log[room[s]][i] : i \in {j \in DOMAIN log[room[s]] :
                                       Len(log[room[s]]) < j + MaxEntries}}
      BY <2>1, LatestChats
    <3> QED
      BY <3>1 DEF Elements
  <2>3. c \in sent /\ c.room = room[s]
    BY <2>1, <2>2 DEF Archives, Places
  <2>5. Seen(s, c)
    BY <2>3 DEF Displays, Displayed, Shows
  <2>6. c \notin Elements(casts[NodeOf[c.from]][NodeOf[s]])
    <3>1. NodeOf[c.from] \in Nodes /\ NodeOf[s] \in Nodes
      BY <2>1, <2>3, ChatAssumption DEF Typed, TypeOK, Chats
    <3> QED
      BY <3>1, EmptyQueue DEF AtRest
  <2> QED
    BY <2>3, <2>5, <2>6 DEF Seen, Outdated
<1>2. Spec => [](Typed /\ Archives)
  BY ArchivesAlways
<1> QED
  BY <1>1, <1>2, DisplaysInit, DisplaysStep, PTL DEF Spec

-----------------------------------------------------------------------------
\* The archives of the rooms are the log that ChatHistory implements.

Log == INSTANCE ChatLog WITH Archives <- Chats, RoomOf <- [c \in Chats |-> c.room],
                             Requests <- {}, answer <- [q \in {} |-> NoRoom],
                             NoAnswer <- NoRoom

\* What Chat calls the latest chats are those of the log.
LEMMA LatestOfLog ==
  ASSUME NEW q \in Seq(Chats)
  PROVE  Latest(q) = Log!Latest(q)
<1>1. MaxEntries \in Nat /\ Len(q) \in Nat
  BY ChatAssumption
<1>2. CASE Len(q) <= MaxEntries
  <2>0. ~ (Len(q) > MaxEntries)
    BY <1>1, <1>2
  <2>1. Latest(q) = SubSeq(q, 1, Len(q))
    BY <2>0 DEF Latest
  <2>2. Log!Latest(q) = [i \in 1 .. Len(q) |-> q[Len(q) - Len(q) + i]]
    BY <1>2 DEF Log!Latest
  <2> QED
    BY <1>1, <2>1, <2>2
<1>3. CASE Len(q) > MaxEntries
  <2> DEFINE first == Len(q) - MaxEntries + 1
  <2>1. Latest(q) = SubSeq(q, first, Len(q))
    BY <1>3 DEF Latest
  <2>2. Log!Latest(q) = [i \in 1 .. MaxEntries |-> q[Len(q) - MaxEntries + i]]
    BY <1>1, <1>3 DEF Log!Latest
  <2>3. SubSeq(q, first, Len(q)) = [i \in 1 .. MaxEntries |-> q[first + i - 1]]
    BY <1>1, <1>3
  <2>4. \A i \in 1 .. MaxEntries : first + i - 1 = Len(q) - MaxEntries + i
    BY <1>1
  <2> QED
    BY <2>1, <2>2, <2>3, <2>4
<1> QED
  BY <1>1, <1>2, <1>3

\* A chat that is in no log is appended to that of its room.
LEMMA NewChatArchived ==
  ASSUME Typed, NEW c \in Chats, ~ InLog(c), log' = [log EXCEPT ![c.room] = Append(@, c)]
  PROVE  Log!Archive(c)
<1>1. log[c.room] \in Seq(Chats)
  BY DEF Typed, TypeOK, Chats
<1>2. ~ Log!Archived(c)
  BY <1>1 DEF Log!Archived, InLog, Elements
<1> QED
  BY <1>2 DEF Log!Archive

LEMMA StepArchives ==
  ASSUME Typed, Archives, [Next]_vars
  PROVE  log' = log \/ \E c \in Chats : Log!Archive(c)
<1>1. ASSUME NEW s \in Sessions, ArchiveChat(s)
      PROVE  log' = log \/ \E c \in Chats : Log!Archive(c)
  <2>1. PICK c : c = Published(s)
    OBVIOUS
  <2>2. /\ step[s] = "archive" /\ c \in Chats /\ c.from = s /\ c.n = Count(s)
        /\ log' = log \/ log' = [log EXCEPT ![c.room] = Append(@, c)]
    BY <1>1, <2>1, ArchiveChatEffect
  <2>3. ~ InLog(c)
    BY <2>2, OnePlace DEF Pending
  <2> QED
    BY <2>2, <2>3, NewChatArchived
<1>2. ASSUME NEW m \in Nodes, NEW n \in Nodes, ReceiveArchive(m, n)
      PROVE  \E c \in Chats : Log!Archive(c)
  <2>1. PICK c : c = Head(calls[m][n]).chat
    OBVIOUS
  <2>2. /\ Hears(m, n, "archive")
        /\ log' = [log EXCEPT ![c.room] = Append(@, c)]
    BY <1>2, <2>1 DEF ReceiveArchive
  <2>3. /\ calls[m][n] # <<>> /\ calls[m][n] \in Seq(Calls)
        /\ Head(calls[m][n]) \in Calls /\ Head(calls[m][n]).type = "archive"
    BY <2>2, CallHeard
  <2>4. c \in Chats /\ Head(calls[m][n]) = Arch(c)
    BY <2>1, <2>3, CallParts
  <2>5. Arch(c) \in Elements(calls[m][n])
    BY <2>3, <2>4, Taken
  <2>6. NodeOf[c.from] = m /\ OwnerOf[c.room] = n
    BY <2>4, <2>5 DEF Archives, Places
  <2>7. ~ InLog(c)
    BY <2>4, <2>5, <2>6, OnePlace DEF Forwarded
  <2> QED
    BY <2>2, <2>4, <2>7, NewChatArchived
<1>3. ASSUME NEW s \in Sessions, NEW r \in Rooms, Subscribe(s, r)
      PROVE  log' = log
  BY <1>3 DEF Subscribe
<1>4. ASSUME NEW s \in Sessions,
             \/ JoinRoom(s) \/ LeaveRoom(s) \/ Disconnect(s) \/ SendChat(s)
      PROVE  log' = log
  BY <1>4 DEF JoinRoom, LeaveRoom, Disconnect, SendChat
<1>5. ASSUME NEW m \in Nodes, NEW n \in Nodes,
             \/ ReceiveCast(m, n) \/ ReceiveAsk(m, n)
             \/ ReceiveHistory(m, n) \/ LateHistory(m, n)
             \/ NodesPart(m, n) \/ NodesJoin(m, n) \/ RoomsFollow(m, n)
      PROVE  log' = log
  BY <1>5 DEF ReceiveCast, ReceiveAsk, ReceiveHistory, LateHistory, NodesPart, NodesJoin,
              RoomsFollow
<1>6. CASE UNCHANGED vars
  BY <1>6 DEF vars
<1> QED
  BY <1>1, <1>2, <1>3, <1>4, <1>5, <1>6 DEF Next

\* Whatever is forwarded, lost and sent again, the archives of the rooms are a
\* ChatLog, which is what ChatHistory implements: each call of archive brings
\* a chat of its own, so that no chat is ever in an archive twice, and nothing
\* is taken away.
THEOREM ArchivesAreLogs == Spec => Log!Spec
<1>1. Init => Log!Init
  BY DEF Init, Log!Init
<1>2. Typed /\ Archives /\ [Next]_vars => [Log!Next]_<<log, [q \in {} |-> NoRoom]>>
  <2> SUFFICES ASSUME Typed, Archives, [Next]_vars
               PROVE  [Log!Next]_<<log, [q \in {} |-> NoRoom]>>
    OBVIOUS
  <2>1. log' = log \/ \E c \in Chats : Log!Archive(c)
    BY StepArchives
  <2> QED
    BY <2>1 DEF Log!Next
<1> QED
  BY <1>1, <1>2, ArchivesAlways, PTL DEF Spec, Log!Spec
=============================================================================
