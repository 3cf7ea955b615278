---------------------------- MODULE UsersProofs ----------------------------
(***************************************************************************)
(* Theorems about Users, for any nodes, users and sessions.                *)
(***************************************************************************)
EXTENDS Users, TLAPS

-----------------------------------------------------------------------------
\* What the operators of OortLinks do to the queues between nodes, for any set
\* of messages.  No other proof of this module opens them.

\* One entry of a table is replaced and the others stay.
LEMMA TableUpdate ==
  ASSUME NEW S, NEW T, NEW V, NEW f \in [S -> [T -> V]],
         NEW i \in S, NEW j \in T, NEW v \in V
  PROVE  /\ [f EXCEPT ![i][j] = v] \in [S -> [T -> V]]
         /\ \A a \in S, b \in T :
              [f EXCEPT ![i][j] = v][a][b] = IF a = i /\ b = j THEN v ELSE f[a][b]
  OBVIOUS

\* In the beginning nothing is under way and every two nodes are joined.
LEMMA InitialLinks ==
  ASSUME NEW M
  PROVE  /\ NoLinks \in LinksOf(M)
         /\ \A m, n \in Nodes : NoLinks[m][n] = <<>>
         /\ AllJoined \in [Nodes -> SUBSET Nodes]
         /\ \A m, n \in Nodes : n \in AllJoined[m] <=> n # m
         /\ NoLoop(NoLinks, AllJoined)
  BY DEF NoLinks, AllJoined, LinksOf, NoLoop

\* Publishing appends to the queues from the sender to the nodes it reaches.
LEMMA PublishLinks ==
  ASSUME NEW M, NEW queues \in LinksOf(M), NEW m \in Nodes, NEW S, NEW msg \in M
  PROVE  /\ Publish(queues, m, S, msg) \in LinksOf(M)
         /\ \A a, b \in Nodes : Publish(queues, m, S, msg)[a][b] =
              IF a = m /\ b \in S THEN Append(queues[a][b], msg) ELSE queues[a][b]
<1> DEFINE row == [n \in Nodes |-> IF n \in S THEN Append(queues[m][n], msg) ELSE queues[m][n]]
<1>1. queues[m] \in [Nodes -> Seq(M)]
  BY DEF LinksOf
<1>2. \A n \in Nodes : queues[m][n] \in Seq(M) /\ Append(queues[m][n], msg) \in Seq(M)
  BY <1>1
<1>3. row \in [Nodes -> Seq(M)]
  BY <1>2
<1>4. Publish(queues, m, S, msg) = [queues EXCEPT ![m] = row]
  BY DEF Publish
<1> HIDE DEF row
<1>5. [queues EXCEPT ![m] = row] \in LinksOf(M)
  BY <1>3 DEF LinksOf
<1>6. \A a, b \in Nodes : [queues EXCEPT ![m] = row][a][b] = IF a = m THEN row[b] ELSE queues[a][b]
  BY DEF LinksOf
<1>7. \A b \in Nodes : row[b] = IF b \in S THEN Append(queues[m][b], msg) ELSE queues[m][b]
  BY DEF row
<1> QED
  BY <1>4, <1>5, <1>6, <1>7

\* Consuming drops the oldest message of one queue.
LEMMA ConsumeLinks ==
  ASSUME NEW M, NEW queues \in LinksOf(M), NEW m \in Nodes, NEW n \in Nodes,
         queues[m][n] # <<>>
  PROVE  /\ Consume(queues, m, n) \in LinksOf(M)
         /\ Head(queues[m][n]) \in M
         /\ \A a, b \in Nodes : Consume(queues, m, n)[a][b] =
              IF a = m /\ b = n THEN Tail(queues[a][b]) ELSE queues[a][b]
<1>1. queues[m][n] \in Seq(M)
  BY DEF LinksOf
<1>2. Tail(queues[m][n]) \in Seq(M) /\ Head(queues[m][n]) \in M
  BY <1>1
<1> QED
  BY <1>2 DEF Consume, LinksOf

\* When two nodes part, each one's queue to the other is the farewell alone.
LEMMA SeverLinks ==
  ASSUME NEW M, NEW queues \in LinksOf(M), NEW m \in Nodes, NEW n \in Nodes,
         m # n, NEW left \in M
  PROVE  /\ Sever(queues, m, n, left) \in LinksOf(M)
         /\ \A a, b \in Nodes : Sever(queues, m, n, left)[a][b] =
              IF (a = m /\ b = n) \/ (a = n /\ b = m) THEN <<left>> ELSE queues[a][b]
<1>1. <<left>> \in Seq(M)
  OBVIOUS
<1> QED
  BY <1>1 DEF Sever, LinksOf

\* When two nodes join, each one's object is the last message to the other.
LEMMA ExchangeLinks ==
  ASSUME NEW M, NEW queues \in LinksOf(M), NEW m \in Nodes, NEW n \in Nodes,
         m # n, NEW ofM \in M, NEW ofN \in M
  PROVE  /\ Exchange(queues, m, n, ofM, ofN) \in LinksOf(M)
         /\ \A a, b \in Nodes : Exchange(queues, m, n, ofM, ofN)[a][b] =
              IF a = m /\ b = n THEN Append(queues[a][b], ofM)
              ELSE IF a = n /\ b = m THEN Append(queues[a][b], ofN)
              ELSE queues[a][b]
<1> DEFINE toN == Append(queues[m][n], ofM)
           toM == Append(queues[n][m], ofN)
<1>1. queues[m][n] \in Seq(M) /\ queues[n][m] \in Seq(M)
  BY DEF LinksOf
<1>2. toN \in Seq(M) /\ toM \in Seq(M)
  BY <1>1
<1>3. Exchange(queues, m, n, ofM, ofN) = [queues EXCEPT ![m][n] = toN, ![n][m] = toM]
  BY DEF Exchange
<1>4. \A a, b \in Nodes :
        /\ a = m /\ b = n => toN = Append(queues[a][b], ofM)
        /\ a = n /\ b = m => toM = Append(queues[a][b], ofN)
  OBVIOUS
<1> HIDE DEF toN, toM
<1>5. [queues EXCEPT ![m][n] = toN, ![n][m] = toM] \in LinksOf(M)
  BY <1>2 DEF LinksOf
<1>6. \A a, b \in Nodes : [queues EXCEPT ![m][n] = toN, ![n][m] = toM][a][b] =
        IF a = m /\ b = n THEN toN ELSE IF a = n /\ b = m THEN toM ELSE queues[a][b]
  BY SMTT(30) DEF LinksOf
<1> QED
  BY ZenonT(30), <1>3, <1>4, <1>5, <1>6

\* Parting and joining concern the two nodes only, and both of them.
LEMMA JoinedNodes ==
  ASSUME NEW reach \in [Nodes -> SUBSET Nodes], NEW m \in Nodes, NEW n \in Nodes,
         m # n
  PROVE  /\ Part(reach, m, n) \in [Nodes -> SUBSET Nodes]
         /\ Join(reach, m, n) \in [Nodes -> SUBSET Nodes]
         /\ \A a, b \in Nodes :
              /\ b \in Part(reach, m, n)[a] <=>
                   b \in reach[a] /\ ~ (a = m /\ b = n) /\ ~ (a = n /\ b = m)
              /\ b \in Join(reach, m, n)[a] <=>
                   b \in reach[a] \/ (a = m /\ b = n) \/ (a = n /\ b = m)
  BY DEF Part, Join

-----------------------------------------------------------------------------
\* A session that has started is on a node, and a listener that is past its
\* null check serves a session with a user.
Attributes ==
  \A s \in Sessions :
    /\ pc[s] # "new" => home[s] \in Nodes
    /\ pc[s] \in {"associate", "share", "disassociate", "forget"} => user[s] \in UserIds

Typed == TypeOK /\ Attributes /\ NoLoop(links, joined)

\* The messages the actions send are of the declared kinds.
LEMMA MessageKinds ==
  /\ \A u \in UserIds : /\ [type |-> "put", user |-> u] \in Messages
                        /\ [type |-> "remove", user |-> u] \in Messages
  /\ \A S \in SUBSET UserIds : [type |-> "object", users |-> S] \in Messages
  /\ [type |-> "left"] \in Messages
  BY DEF Messages

\* Applying a message to a set of users yields a set of users.
LEMMA AppliedType ==
  ASSUME NEW msg \in Messages, NEW S \in SUBSET UserIds
  PROVE  Applied(msg, S) \in SUBSET UserIds
<1>1. CASE msg \in [type : {"put", "remove"}, user : UserIds]
  BY <1>1 DEF Applied
<1>2. CASE msg \in [type : {"object"}, users : SUBSET UserIds]
  BY <1>2 DEF Applied
<1>3. CASE msg \in [type : {"left"}]
  BY <1>3 DEF Applied
<1> QED
  BY <1>1, <1>2, <1>3 DEF Messages

LEMMA LinksType == TypeOK <=> TypeOK /\ links \in LinksOf(Messages)
  BY DEF TypeOK, LinksOf

\* Type correctness is inductive together with Attributes and NoLoop.
LEMMA TypedStep == Typed /\ [Next]_vars => Typed'
<1> SUFFICES ASSUME Typed, [Next]_vars
             PROVE  Typed'
  OBVIOUS
<1> USE UsersAssumption
<1>0. TypeOK /\ Attributes /\ NoLoop(links, joined) /\ links \in LinksOf(Messages)
  BY LinksType DEF Typed
<1>a. infos \in [Nodes -> [Nodes -> SUBSET UserIds]]
  BY <1>0 DEF TypeOK
<1>1. ASSUME NEW s \in Sessions, NEW n \in Nodes, NEW u \in UserIds \cup {NoUser},
             CanHandshake(s, n, u)
      PROVE  Typed'
  <2>1. Meetings(s, n, u) \in SUBSET (Sessions \X Sessions)
    BY DEF Meetings
  <2> QED
    BY <1>0, <1>1, <2>1 DEF Typed, TypeOK, Attributes, NoLoop, CanHandshake, Pcs
<1>2. ASSUME NEW s \in Sessions, PutIfAbsent(s)
      PROVE  Typed'
  <2>1. home[s] \in Nodes
    BY <1>0, <1>2 DEF PutIfAbsent, Attributes
  <2>2. userToSession' \in [Nodes -> [UserIds -> Sessions \cup {NoSession}]]
    <3>1. CASE UNCHANGED userToSession
      BY <1>0, <3>1 DEF TypeOK
    <3>2. CASE user[s] # NoUser /\ userToSession' = [userToSession EXCEPT ![home[s]][user[s]] = s]
      <4>1. user[s] \in UserIds
        BY <1>0, <3>2 DEF TypeOK
      <4> QED
        BY <1>0, <2>1, <3>2, <4>1, TableUpdate DEF TypeOK
    <3> QED
      BY <1>2, <3>1, <3>2 DEF PutIfAbsent
  <2>4. TypeOK'
    BY <1>0, <1>2, <2>2 DEF TypeOK, PutIfAbsent, Pcs
  <2>3. Attributes' /\ NoLoop(links, joined)'
    BY <1>0, <1>2 DEF TypeOK, Attributes, NoLoop, PutIfAbsent, Pcs
  <2> QED
    BY <2>4, <2>3 DEF Typed
<1>3. ASSUME NEW s \in Sessions, Associate(s)
      PROVE  Typed'
  BY <1>0, <1>3 DEF Typed, TypeOK, Attributes, NoLoop, Associate, Pcs
<1>4. ASSUME NEW s \in Sessions, PutAndShare(s)
      PROVE  Typed'
  <2>1. home[s] \in Nodes /\ user[s] \in UserIds
    BY <1>0, <1>4 DEF PutAndShare, Attributes
  <2>2. links' \in LinksOf(Messages) /\ \A n \in Nodes : links'[n][n] = links[n][n]
    <3>1. [type |-> "put", user |-> user[s]] \in Messages
      BY <2>1, MessageKinds
    <3>2. home[s] \notin joined[home[s]]
      BY <1>0, <2>1 DEF NoLoop
    <3> QED
      BY <1>0, <1>4, <2>1, <3>1, <3>2, PublishLinks DEF PutAndShare
  <2>3. infos' \in [Nodes -> [Nodes -> SUBSET UserIds]]
    <3>1. infos[home[s]][home[s]] \cup {user[s]} \in SUBSET UserIds
      BY <1>a, <2>1
    <3> QED
      BY <1>a, <1>4, <2>1, <3>1, TableUpdate DEF PutAndShare
  <2>4. TypeOK'
    BY <1>0, <1>4, <2>2, <2>3 DEF TypeOK, PutAndShare, Pcs, LinksOf
  <2>5. Attributes' /\ NoLoop(links, joined)'
    BY <1>0, <1>4, <2>2 DEF TypeOK, Attributes, NoLoop, PutAndShare, Pcs
  <2> QED
    BY <2>4, <2>5 DEF Typed
<1>5. ASSUME NEW s \in Sessions, Disassociate(s)
      PROVE  Typed'
  BY <1>0, <1>5 DEF Typed, TypeOK, Attributes, NoLoop, Disassociate, Pcs
<1>6. ASSUME NEW s \in Sessions, Forget(s)
      PROVE  Typed'
  <2>1. home[s] \in Nodes /\ user[s] \in UserIds
    BY <1>0, <1>6 DEF Forget, Attributes
  <2>2. TypeOK'
    BY <1>0, <1>6, <2>1 DEF TypeOK, Forget, Pcs
  <2>3. Attributes' /\ NoLoop(links, joined)'
    BY <1>0, <1>6 DEF TypeOK, Attributes, NoLoop, Forget, Pcs
  <2> QED
    BY <2>2, <2>3 DEF Typed
<1>7. ASSUME NEW s \in Sessions, RemoveAndShare(s)
      PROVE  Typed'
  <2>1. home[s] \in Nodes
    BY <1>0, <1>7 DEF RemoveAndShare, Attributes
  <2>2. CASE user[s] = NoUser
    BY <1>0, <1>7, <2>2 DEF Typed, TypeOK, Attributes, NoLoop, RemoveAndShare, Pcs
  <2>3. CASE user[s] # NoUser
    <3>1. user[s] \in UserIds
      BY <1>0, <2>3 DEF TypeOK
    <3>2. links' \in LinksOf(Messages) /\ \A n \in Nodes : links'[n][n] = links[n][n]
      <4>1. [type |-> "remove", user |-> user[s]] \in Messages
        BY <3>1, MessageKinds
      <4>2. home[s] \notin joined[home[s]]
        BY <1>0, <2>1 DEF NoLoop
      <4> QED
        BY <1>0, <1>7, <2>1, <2>3, <4>1, <4>2, PublishLinks DEF RemoveAndShare
    <3>3. infos' \in [Nodes -> [Nodes -> SUBSET UserIds]]
      <4>1. infos[home[s]][home[s]] \ {user[s]} \in SUBSET UserIds
        BY <1>a, <2>1
      <4>2. infos' = [infos EXCEPT ![home[s]][home[s]] = infos[home[s]][home[s]] \ {user[s]}]
        BY <1>7, <2>3 DEF RemoveAndShare
      <4> QED
        BY <1>a, <2>1, <4>1, <4>2, TableUpdate
    <3>4. TypeOK'
      BY <1>0, <1>7, <2>3, <3>2, <3>3 DEF TypeOK, RemoveAndShare, Pcs, LinksOf
    <3>5. Attributes' /\ NoLoop(links, joined)'
      BY <1>0, <1>7, <2>3, <3>1, <3>2 DEF TypeOK, Attributes, NoLoop, RemoveAndShare, Pcs
    <3> QED
      BY <3>4, <3>5 DEF Typed
  <2> QED
    BY <2>2, <2>3
<1>8. ASSUME NEW m \in Nodes, NEW n \in Nodes, Receive(m, n)
      PROVE  Typed'
  <2>1. m # n
    BY <1>0, <1>8 DEF Receive, NoLoop
  <2>2. /\ links' \in LinksOf(Messages)
        /\ Head(links[m][n]) \in Messages
        /\ \A a \in Nodes : links'[a][a] = links[a][a]
    BY <1>0, <1>8, <2>1, ConsumeLinks DEF Receive
  <2>3. infos' \in [Nodes -> [Nodes -> SUBSET UserIds]]
    <3>1. Applied(Head(links[m][n]), infos[n][m]) \in SUBSET UserIds
      <4>1. infos[n][m] \in SUBSET UserIds
        BY <1>a
      <4> QED
        BY <2>2, <4>1, AppliedType
    <3>2. infos' = [infos EXCEPT ![n][m] = Applied(Head(links[m][n]), infos[n][m])]
      BY <1>8 DEF Receive
    <3> QED
      BY <1>a, <3>1, <3>2, TableUpdate
  <2> QED
    BY <1>0, <1>8, <2>2, <2>3 DEF Typed, TypeOK, Attributes, NoLoop, Receive, LinksOf
<1>9. ASSUME NEW m \in Nodes, NEW n \in Nodes, NodesPart(m, n)
      PROVE  Typed'
  <2>1. m # n /\ joined \in [Nodes -> SUBSET Nodes]
    BY <1>0, <1>9 DEF NodesPart, NoLoop, TypeOK
  <2>2. links' \in LinksOf(Messages) /\ \A a \in Nodes : links'[a][a] = links[a][a]
    <3>1. [type |-> "left"] \in Messages
      BY MessageKinds
    <3> QED
      <4> DEFINE left == [type |-> "left"]
      <4>1. left \in Messages /\ links' = Sever(links, m, n, left)
        BY <1>9, <3>1 DEF NodesPart
      <4> HIDE DEF left
      <4>2. Sever(links, m, n, left) \in LinksOf(Messages)
        BY <1>0, <2>1, <4>1, SeverLinks
      <4>3. ASSUME NEW a \in Nodes
            PROVE  Sever(links, m, n, left)[a][a] = links[a][a]
        <5>1. Sever(links, m, n, left)[a][a] =
                IF (a = m /\ a = n) \/ (a = n /\ a = m) THEN <<left>> ELSE links[a][a]
          BY <1>0, <2>1, <4>1, SeverLinks
        <5>2. ~ (a = m /\ a = n)
          BY <2>1
        <5> QED
          BY <5>1, <5>2
      <4> QED
        BY <4>1, <4>2, <4>3
  <2>3. joined' \in [Nodes -> SUBSET Nodes] /\ \A a \in Nodes : a \in joined'[a] <=> a \in joined[a]
    BY <1>9, <2>1, JoinedNodes DEF NodesPart
  <2> QED
    BY <1>0, <1>9, <2>2, <2>3 DEF Typed, TypeOK, Attributes, NoLoop, NodesPart, LinksOf
<1>10. ASSUME NEW m \in Nodes, NEW n \in Nodes, NodesJoin(m, n)
       PROVE  Typed'
  <2>1. m # n /\ joined \in [Nodes -> SUBSET Nodes]
    BY <1>0, <1>10 DEF NodesJoin, TypeOK
  <2>2. infos[m][m] \in SUBSET UserIds /\ infos[n][n] \in SUBSET UserIds
    BY <1>0 DEF TypeOK
  <2>3. links' \in LinksOf(Messages) /\ \A a \in Nodes : links'[a][a] = links[a][a]
    <3>1. /\ [type |-> "object", users |-> infos[m][m]] \in Messages
          /\ [type |-> "object", users |-> infos[n][n]] \in Messages
      BY <2>2, MessageKinds
    <3> QED
      BY SMTT(30), <1>0, <1>10, <2>1, <3>1, ExchangeLinks DEF NodesJoin
  <2>4. joined' \in [Nodes -> SUBSET Nodes] /\ \A a \in Nodes : a \in joined'[a] <=> a \in joined[a]
    BY <1>10, <2>1, JoinedNodes DEF NodesJoin
  <2> QED
    BY <1>0, <1>10, <2>3, <2>4 DEF Typed, TypeOK, Attributes, NoLoop, NodesJoin, LinksOf
<1>11. CASE UNCHANGED vars
  BY <1>0, <1>11 DEF Typed, TypeOK, Attributes, NoLoop, vars
<1> QED
  BY <1>1, <1>2, <1>3, <1>4, <1>5, <1>6, <1>7, <1>8, <1>9, <1>10, <1>11 DEF Next, Step

LEMMA TypedAlways == Spec => []Typed
<1>1. ASSUME Init
      PROVE  Typed
  <2>1. links \in LinksOf(Messages) /\ joined \in [Nodes -> SUBSET Nodes]
    BY <1>1, InitialLinks DEF Init
  <2>2. NoLoop(links, joined)
    BY <1>1, InitialLinks DEF Init
  <2>3. TypeOK
    BY <1>1, <2>1, UsersAssumption DEF Init, TypeOK, Pcs, LinksOf
  <2>4. Attributes
    BY <1>1 DEF Init, Attributes
  <2> QED
    BY <2>2, <2>3, <2>4 DEF Typed
<1> QED
  BY <1>1, TypedStep, PTL DEF Spec

\* Every state of the registry is well typed.
THEOREM TypeCorrect == Spec => []TypeOK
  BY TypedAlways, PTL DEF Typed

-----------------------------------------------------------------------------
\* NoOrphanInfo is inductive given the types: the session that backs an entry
\* is connected, the only step that takes a connected session away removes
\* the entry first, and only a session that becomes connected adds one.
LEMMA NoOrphanStep == Typed /\ NoOrphanInfo /\ [Next]_vars => NoOrphanInfo'
<1> SUFFICES ASSUME Typed, NoOrphanInfo, [Next]_vars,
                    NEW n \in Nodes, NEW u \in infos'[n][n]
             PROVE  \E t \in Sessions : (Open(t, n, u) /\ pc[t] = "connected")'
  BY DEF NoOrphanInfo
<1>0. /\ pc \in [Sessions -> Pcs]
      /\ infos \in [Nodes -> [Nodes -> SUBSET UserIds]]
      /\ Attributes
      /\ NoLoop(links, joined)
      /\ NoUser \notin UserIds
  BY UsersAssumption DEF Typed, TypeOK
<1> DEFINE Backs(t) == Open(t, n, u) /\ pc[t] = "connected"
\* A session that backs the entry and is left alone still does.
<1>1. ASSUME NEW t \in Sessions, Backs(t),
             pc'[t] = pc[t], home'[t] = home[t], user'[t] = user[t]
      PROVE  \E r \in Sessions : (Open(r, n, u) /\ pc[r] = "connected")'
  BY <1>1 DEF Open
<1>2. u \in infos[n][n] => u \in UserIds /\ \E t \in Sessions : Backs(t)
  BY <1>0 DEF NoOrphanInfo
<1>3. ASSUME NEW s \in Sessions, NEW m \in Nodes, NEW v \in UserIds \cup {NoUser},
             CanHandshake(s, m, v)
      PROVE  \E t \in Sessions : Backs(t)'
  <2>1. u \in infos[n][n]
    BY <1>3 DEF CanHandshake
  <2>2. PICK t \in Sessions : Backs(t)
    BY <1>2, <2>1
  <2>3. t # s
    BY <1>3, <2>2 DEF CanHandshake
  <2> QED
    BY <1>0, <1>1, <1>3, <2>2, <2>3 DEF CanHandshake
<1>4. ASSUME NEW s \in Sessions,
             PutIfAbsent(s) \/ Associate(s) \/ Disassociate(s) \/ Forget(s)
      PROVE  \E t \in Sessions : Backs(t)'
  <2>1. infos' = infos /\ home' = home /\ user' = user /\ pc[s] # "connected"
    BY <1>4 DEF PutIfAbsent, Associate, Disassociate, Forget
  <2>2. PICK t \in Sessions : Backs(t)
    BY <1>2, <2>1
  <2>3. pc'[t] = pc[t]
    BY <1>0, <1>4, <2>1, <2>2 DEF PutIfAbsent, Associate, Disassociate, Forget
  <2> QED
    BY <1>1, <2>1, <2>2, <2>3
<1>5. ASSUME NEW s \in Sessions, PutAndShare(s)
      PROVE  \E t \in Sessions : Backs(t)'
  <2>1. home[s] \in Nodes /\ pc[s] # "connected" /\ pc'[s] = "connected"
    BY <1>0, <1>5 DEF PutAndShare, Attributes
  <2>2. CASE n = home[s] /\ u = user[s]
    BY <1>5, <2>1, <2>2 DEF PutAndShare, Open
  <2>3. CASE u \in infos[n][n]
    <3>1. PICK t \in Sessions : Backs(t)
      BY <1>2, <2>3
    <3> QED
      BY <1>0, <1>1, <1>5, <2>1, <3>1 DEF PutAndShare
  <2>4. (n = home[s] /\ u = user[s]) \/ u \in infos[n][n]
    <3>1. infos[home[s]][home[s]] \cup {user[s]} \in SUBSET (UserIds \cup {user[s]})
      BY <1>0, <2>1
    <3> QED
      BY <1>0, <1>5, <2>1, <3>1 DEF PutAndShare
  <2> QED
    BY <2>2, <2>3, <2>4
<1>6. ASSUME NEW s \in Sessions, RemoveAndShare(s)
      PROVE  \E t \in Sessions : Backs(t)'
  <2>1. home[s] \in Nodes
    BY <1>0, <1>6 DEF RemoveAndShare, Attributes
  <2>2. u \in infos[n][n] /\ ~ (user[s] # NoUser /\ n = home[s] /\ u = user[s])
    BY <1>0, <1>6, <2>1 DEF RemoveAndShare
  <2>3. PICK t \in Sessions : Backs(t)
    BY <1>2, <2>2
  <2>4. t # s
    BY <1>0, <1>2, <2>2, <2>3 DEF Open
  <2> QED
    BY <1>0, <1>1, <1>6, <2>3, <2>4 DEF RemoveAndShare
<1>7. ASSUME NEW k \in Nodes, NEW m \in Nodes, Receive(k, m)
      PROVE  \E t \in Sessions : Backs(t)'
  <2>1. k # m
    BY <1>0, <1>7 DEF Receive, NoLoop
  <2>2. u \in infos[n][n]
    BY <1>0, <1>7, <2>1 DEF Receive
  <2> QED
    BY <1>1, <1>2, <1>7, <2>2 DEF Receive
<1>8. ASSUME UNCHANGED <<pc, home, user, infos>>
      PROVE  \E t \in Sessions : Backs(t)'
  BY <1>1, <1>2, <1>8
<1>9. ASSUME NEW k \in Nodes, NEW m \in Nodes, NodesPart(k, m) \/ NodesJoin(k, m)
      PROVE  UNCHANGED <<pc, home, user, infos>>
  BY <1>9 DEF NodesPart, NodesJoin
<1>10. UNCHANGED vars => UNCHANGED <<pc, home, user, infos>>
  BY DEF vars
<1> QED
  BY <1>3, <1>4, <1>5, <1>6, <1>7, <1>8, <1>9, <1>10 DEF Next, Step

\* No UserInfo outlives the last session of its user on the node.
THEOREM NoOrphans == Spec => []NoOrphanInfo
<1>1. Init => NoOrphanInfo
  BY DEF Init, NoOrphanInfo
<1> QED
  BY <1>1, TypedAlways, NoOrphanStep, PTL DEF Spec

-----------------------------------------------------------------------------
\* Where in its life a session can be associated or registered.
Marks ==
  \A s \in Sessions :
    /\ s \in seti => pc[s] \in {"share", "connected", "disassociate"} /\ user[s] # NoUser
    /\ \A n \in Nodes, u \in UserIds : userToSession[n][u] = s =>
         /\ pc[s] \in {"associate", "share", "connected", "disassociate", "forget"}
         /\ home[s] = n
         /\ user[s] = u

LEMMA MarksStep == Typed /\ Marks /\ [Next]_vars => Marks'
<1> SUFFICES ASSUME Typed, Marks, [Next]_vars
             PROVE  Marks'
  OBVIOUS
<1>0. /\ pc \in [Sessions -> Pcs]
      /\ user \in [Sessions -> UserIds \cup {NoUser}]
      /\ home \in [Sessions -> Nodes \cup {NoNode}]
      /\ userToSession \in [Nodes -> [UserIds -> Sessions \cup {NoSession}]]
      /\ Attributes
      /\ NoUser \notin UserIds
      /\ NoSession \notin Sessions
  BY UsersAssumption DEF Typed, TypeOK
<1>1. ASSUME NEW s \in Sessions, NEW n \in Nodes, NEW u \in UserIds \cup {NoUser},
             CanHandshake(s, n, u)
      PROVE  Marks'
  BY <1>0, <1>1 DEF Marks, CanHandshake
<1>2. ASSUME NEW s \in Sessions, PutIfAbsent(s)
      PROVE  Marks'
  <2>1. home[s] \in Nodes
    BY <1>0, <1>2 DEF PutIfAbsent, Attributes
  <2>2. CASE UNCHANGED userToSession
    BY <1>0, <1>2, <2>2 DEF Marks, PutIfAbsent
  <2>3. CASE user[s] # NoUser /\ pc'[s] = "associate" /\
             userToSession' = [userToSession EXCEPT ![home[s]][user[s]] = s]
    <3>1. user[s] \in UserIds
      BY <1>0, <2>3
    <3>2. \A n \in Nodes, u \in UserIds :
            userToSession'[n][u] = IF n = home[s] /\ u = user[s] THEN s
                                   ELSE userToSession[n][u]
      BY <1>0, <2>1, <2>3, <3>1
    <3> QED
      BY <1>0, <1>2, <2>3, <3>2 DEF Marks, PutIfAbsent
  <2> QED
    BY <1>0, <1>2, <2>2, <2>3 DEF PutIfAbsent
<1>3. ASSUME NEW s \in Sessions, Associate(s) \/ Disassociate(s)
      PROVE  Marks'
  BY <1>0, <1>3 DEF Marks, Attributes, Associate, Disassociate
<1>4. ASSUME NEW s \in Sessions, PutAndShare(s)
      PROVE  Marks'
  BY <1>0, <1>4 DEF Marks, PutAndShare
<1>5. ASSUME NEW s \in Sessions, Forget(s)
      PROVE  Marks'
  <2>1. home[s] \in Nodes /\ user[s] \in UserIds
    BY <1>0, <1>5 DEF Forget, Attributes
  <2>2. \A n \in Nodes, u \in UserIds :
          userToSession'[n][u] = IF n = home[s] /\ u = user[s] THEN NoSession
                                 ELSE userToSession[n][u]
    BY <1>0, <1>5, <2>1 DEF Forget
  <2> QED
    BY <1>0, <1>5, <2>2 DEF Marks, Forget
<1>6. ASSUME NEW s \in Sessions, RemoveAndShare(s)
      PROVE  Marks'
  <2>1. CASE user[s] = NoUser
    <3>1. s \notin seti /\ \A n \in Nodes, u \in UserIds : userToSession[n][u] # s
      BY <1>0, <1>6, <2>1 DEF Marks, RemoveAndShare
    <3> QED
      BY <1>0, <1>6, <2>1, <3>1 DEF Marks, RemoveAndShare
  <2>2. CASE user[s] # NoUser
    BY <1>0, <1>6, <2>2 DEF Marks, RemoveAndShare
  <2> QED
    BY <2>1, <2>2
<1>7. ASSUME UNCHANGED <<pc, home, user, userToSession, seti>>
      PROVE  Marks'
  BY <1>7 DEF Marks
<1>8. ASSUME NEW m \in Nodes, NEW n \in Nodes,
             Receive(m, n) \/ NodesPart(m, n) \/ NodesJoin(m, n)
      PROVE  UNCHANGED <<pc, home, user, userToSession, seti>>
  BY <1>8 DEF Receive, NodesPart, NodesJoin
<1>9. UNCHANGED vars => UNCHANGED <<pc, home, user, userToSession, seti>>
  BY DEF vars
<1> QED
  BY <1>1, <1>2, <1>3, <1>4, <1>5, <1>6, <1>7, <1>8, <1>9 DEF Next, Step

LEMMA MarksAlways == Spec => []Marks
<1>1. Init => Marks
  BY UsersAssumption DEF Init, Marks
<1> QED
  BY <1>1, TypedAlways, MarksStep, PTL DEF Spec

\* A session that is gone is neither associated nor registered on any node.
THEOREM NothingIsLeftBehind == Spec => []NothingLeftBehind
<1>1. Marks => NothingLeftBehind
  BY DEF Marks, NothingLeftBehind
<1> QED
  BY <1>1, MarksAlways, PTL

-----------------------------------------------------------------------------
\* The history: two sessions that are open for one user on one node have met,
\* and only sessions that were opened for one user on one node have.
Acquainted ==
  /\ \A s, t \in Sessions, n \in Nodes, u \in UserIds :
       s # t /\ Open(s, n, u) /\ Open(t, n, u) => <<s, t>> \in met
  /\ \A s, t \in Sessions : <<s, t>> \in met =>
       /\ pc[s] # "new" /\ pc[t] # "new"
       /\ home[s] = home[t] /\ user[s] = user[t]

LEMMA AcquaintedStep == Typed /\ Acquainted /\ [Next]_vars => Acquainted'
<1> SUFFICES ASSUME Typed, Acquainted, [Next]_vars
             PROVE  Acquainted'
  OBVIOUS
<1>0. /\ pc \in [Sessions -> Pcs]
      /\ user \in [Sessions -> UserIds \cup {NoUser}]
      /\ home \in [Sessions -> Nodes \cup {NoNode}]
      /\ NoUser \notin UserIds
  BY UsersAssumption DEF Typed, TypeOK
<1>1. ASSUME NEW s \in Sessions, NEW n \in Nodes, NEW u \in UserIds \cup {NoUser},
             CanHandshake(s, n, u)
      PROVE  Acquainted'
  <2>1. /\ home' = [home EXCEPT ![s] = n] /\ user' = [user EXCEPT ![s] = u]
        /\ pc' = [pc EXCEPT ![s] = "added"] /\ pc[s] = "new"
        /\ met' = met \cup Meetings(s, n, u)
    BY <1>1 DEF CanHandshake
  <2>2. ASSUME NEW a \in Sessions, NEW b \in Sessions, NEW k \in Nodes,
               NEW v \in UserIds, a # b, Open(a, k, v)', Open(b, k, v)'
        PROVE  <<a, b>> \in met'
    <3>1. \A t \in Sessions : t # s /\ Open(t, k, v)' => Open(t, k, v)
      BY <1>0, <2>1 DEF Open
    <3>2. Open(s, k, v)' => k = n /\ v = u
      BY <1>0, <2>1 DEF Open
    <3>3. CASE a # s /\ b # s
      BY <2>1, <2>2, <3>1, <3>3 DEF Acquainted
    <3>4. \A t \in Sessions : t # s /\ Open(t, k, v)' /\ Open(s, k, v)' =>
            <<s, t>> \in Meetings(s, n, u) /\ <<t, s>> \in Meetings(s, n, u)
      BY <1>0, <3>1, <3>2 DEF Meetings
    <3> QED
      BY <2>1, <2>2, <3>3, <3>4
  <2>3. ASSUME NEW a \in Sessions, NEW b \in Sessions, <<a, b>> \in met'
        PROVE  /\ pc'[a] # "new" /\ pc'[b] # "new"
               /\ home'[a] = home'[b] /\ user'[a] = user'[b]
    <3>1. CASE <<a, b>> \in met
      <4>1. a # s /\ b # s
        BY <2>1, <3>1 DEF Acquainted
      <4> QED
        BY <1>0, <2>1, <3>1, <4>1 DEF Acquainted
    <3>2. CASE <<a, b>> \in Meetings(s, n, u)
      <4>1. (a = s /\ Open(b, n, u)) \/ (b = s /\ Open(a, n, u))
        BY <3>2 DEF Meetings
      <4>2. \A t \in Sessions : Open(t, n, u) =>
              t # s /\ pc[t] # "new" /\ home[t] = n /\ user[t] = u
        BY <2>1 DEF Open
      <4> QED
        BY <1>0, <2>1, <4>1, <4>2
    <3> QED
      BY <2>1, <2>3, <3>1, <3>2
  <2> QED
    BY <2>2, <2>3 DEF Acquainted
\* Everything else opens no session and moves none.
<1>2. ASSUME home' = home, user' = user, met' = met,
             \A t \in Sessions : pc[t] \in {"new", "gone"} => pc'[t] = pc[t],
             \A t \in Sessions : pc'[t] = "new" => pc[t] = "new"
      PROVE  Acquainted'
  BY <1>2 DEF Acquainted, Open
<1>3. ASSUME NEW s \in Sessions, Step(s) \/ RemoveAndShare(s)
      PROVE  Acquainted'
  <2>1. home' = home /\ user' = user /\ met' = met
    BY <1>3 DEF Step, PutIfAbsent, Associate, PutAndShare, Disassociate, Forget,
                RemoveAndShare
  <2>2. \A t \in Sessions : /\ pc[t] \in {"new", "gone"} => pc'[t] = pc[t]
                            /\ pc'[t] = "new" => pc[t] = "new"
    BY <1>0, <1>3 DEF Step, PutIfAbsent, Associate, PutAndShare, Disassociate, Forget,
                      RemoveAndShare
  <2> QED
    BY <1>2, <2>1, <2>2
<1>4. ASSUME NEW m \in Nodes, NEW n \in Nodes,
             Receive(m, n) \/ NodesPart(m, n) \/ NodesJoin(m, n)
      PROVE  Acquainted'
  BY <1>2, <1>4 DEF Receive, NodesPart, NodesJoin
<1>5. CASE UNCHANGED vars
  BY <1>2, <1>5 DEF vars
<1> QED
  BY <1>1, <1>3, <1>4, <1>5 DEF Next

\* An entry of userToSession whose user is not in the map belongs to a session
\* that is being entered, or is left over by one that is being removed.
Halfway == {"associate", "share", "disassociate", "forget"}

EntriesExplained ==
  \A n \in Nodes, u \in UserIds :
    userToSession[n][u] # NoSession /\ u \notin infos[n][n] =>
      \E x \in Sessions : Open(x, n, u) /\ pc[x] \in Halfway

LEMMA EntriesStep ==
  Typed /\ Marks /\ EntriesExplained /\ [Next]_vars => EntriesExplained'
<1> SUFFICES ASSUME Typed, Marks, EntriesExplained, [Next]_vars,
                    NEW n \in Nodes, NEW u \in UserIds,
                    userToSession'[n][u] # NoSession, u \notin infos'[n][n]
             PROVE  \E x \in Sessions : (Open(x, n, u) /\ pc[x] \in Halfway)'
  BY DEF EntriesExplained
<1>0. /\ pc \in [Sessions -> Pcs]
      /\ user \in [Sessions -> UserIds \cup {NoUser}]
      /\ home \in [Sessions -> Nodes \cup {NoNode}]
      /\ userToSession \in [Nodes -> [UserIds -> Sessions \cup {NoSession}]]
      /\ infos \in [Nodes -> [Nodes -> SUBSET UserIds]]
      /\ Attributes
      /\ NoLoop(links, joined)
      /\ NoUser \notin UserIds
  BY UsersAssumption DEF Typed, TypeOK
<1> DEFINE Explains(x) == Open(x, n, u) /\ pc[x] \in Halfway
\* A session that explains the entry and stays half-way still does.
<1>1. ASSUME NEW x \in Sessions, Explains(x),
             pc'[x] \in Halfway, home'[x] = home[x], user'[x] = user[x]
      PROVE  \E y \in Sessions : Explains(y)'
  BY <1>1 DEF Open, Halfway
<1>2. userToSession[n][u] # NoSession /\ u \notin infos[n][n] =>
        \E x \in Sessions : Explains(x)
  BY DEF EntriesExplained
<1>3. ASSUME NEW s \in Sessions, NEW m \in Nodes, NEW v \in UserIds \cup {NoUser},
             CanHandshake(s, m, v)
      PROVE  \E x \in Sessions : Explains(x)'
  <2>1. PICK x \in Sessions : Explains(x)
    BY <1>2, <1>3 DEF CanHandshake
  <2>2. x # s
    BY <1>3, <2>1 DEF CanHandshake, Halfway
  <2> QED
    BY <1>0, <1>1, <1>3, <2>1, <2>2 DEF CanHandshake
<1>4. ASSUME NEW s \in Sessions, PutIfAbsent(s)
      PROVE  \E x \in Sessions : Explains(x)'
  <2>1. infos' = infos /\ home' = home /\ user' = user /\ pc[s] = "added"
    BY <1>4 DEF PutIfAbsent
  <2>2. CASE userToSession'[n][u] = userToSession[n][u]
    <3>1. PICK x \in Sessions : Explains(x)
      BY <1>2, <2>1, <2>2
    <3>2. pc'[x] = pc[x]
      BY <1>0, <1>4, <2>1, <3>1 DEF PutIfAbsent, Halfway
    <3> QED
      BY <1>1, <2>1, <3>1, <3>2
  <2>3. CASE userToSession'[n][u] # userToSession[n][u]
    <3>1. /\ userToSession' = [userToSession EXCEPT ![home[s]][user[s]] = s]
          /\ pc'[s] = "associate"
      BY <1>0, <1>4, <2>3 DEF PutIfAbsent
    <3>2. home[s] = n /\ user[s] = u
      BY <1>0, <2>3, <3>1
    <3> QED
      BY <2>1, <3>1, <3>2 DEF Open, Halfway
  <2> QED
    BY <2>2, <2>3
<1>5. ASSUME NEW s \in Sessions, Associate(s) \/ Disassociate(s)
      PROVE  \E x \in Sessions : Explains(x)'
  <2>1. UNCHANGED <<infos, home, user, userToSession>>
    BY <1>5 DEF Associate, Disassociate
  <2>2. PICK x \in Sessions : Explains(x)
    BY <1>2, <2>1
  <2>3. pc'[x] \in Halfway
    BY <1>0, <1>5, <2>2 DEF Associate, Disassociate, Halfway
  <2> QED
    BY <1>1, <2>1, <2>2, <2>3
<1>6. ASSUME NEW s \in Sessions, PutAndShare(s)
      PROVE  \E x \in Sessions : Explains(x)'
  <2>1. home[s] \in Nodes /\ user[s] \in UserIds
    BY <1>0, <1>6 DEF PutAndShare, Attributes
  <2>2. u \notin infos[n][n] /\ ~ (home[s] = n /\ user[s] = u)
    BY <1>0, <1>6, <2>1 DEF PutAndShare
  <2>3. PICK x \in Sessions : Explains(x)
    BY <1>2, <1>6, <2>2 DEF PutAndShare
  <2>4. x # s
    BY <2>2, <2>3 DEF Open
  <2> QED
    BY <1>0, <1>1, <1>6, <2>3, <2>4 DEF PutAndShare
\* The session that takes the user out of the map explains what it leaves.
<1>7. ASSUME NEW s \in Sessions, RemoveAndShare(s)
      PROVE  \E x \in Sessions : Explains(x)'
  <2>1. UNCHANGED <<home, user, userToSession>> /\ pc[s] = "connected"
    BY <1>7 DEF RemoveAndShare
  <2>2. CASE u \notin infos[n][n]
    <3>1. PICK x \in Sessions : Explains(x)
      BY <1>2, <2>1, <2>2
    <3>2. pc'[x] = pc[x]
      BY <1>0, <1>7, <2>1, <3>1 DEF RemoveAndShare, Halfway
    <3> QED
      BY <1>1, <2>1, <3>1, <3>2
  <2>3. CASE u \in infos[n][n]
    <3>1. /\ user[s] # NoUser
          /\ infos' = [infos EXCEPT ![home[s]][home[s]] = infos[home[s]][home[s]] \ {user[s]}]
          /\ pc' = [pc EXCEPT ![s] = "disassociate"]
      BY <1>7, <2>3 DEF RemoveAndShare
    <3>2. home[s] \in Nodes
      BY <1>0, <2>1 DEF Attributes
    <3>3. home[s] = n /\ user[s] = u
      BY <1>0, <2>3, <3>1, <3>2
    <3>4. pc'[s] = "disassociate"
      BY <1>0, <3>1
    <3> QED
      BY <2>1, <3>3, <3>4 DEF Open, Halfway
  <2> QED
    BY <2>2, <2>3
<1>8. ASSUME NEW s \in Sessions, Forget(s)
      PROVE  \E x \in Sessions : Explains(x)'
  <2>1. /\ home[s] \in Nodes /\ user[s] \in UserIds /\ pc[s] = "forget"
        /\ UNCHANGED <<infos, home, user>>
    BY <1>0, <1>8 DEF Forget, Attributes
  <2>2. userToSession'[n][u] = IF n = home[s] /\ u = user[s] THEN NoSession
                               ELSE userToSession[n][u]
    BY <1>0, <1>8, <2>1 DEF Forget
  <2>3. PICK x \in Sessions : Explains(x)
    BY <1>2, <2>1, <2>2
  <2>4. x # s
    BY <2>2, <2>3 DEF Open
  <2>5. pc'[x] = pc[x]
    BY <1>0, <1>8, <2>4 DEF Forget
  <2> QED
    BY <1>1, <2>1, <2>3, <2>5
<1>9. ASSUME NEW k \in Nodes, NEW m \in Nodes, Receive(k, m)
      PROVE  \E x \in Sessions : Explains(x)'
  <2>1. k # m
    BY <1>0, <1>9 DEF Receive, NoLoop
  <2>2. infos'[n][n] = infos[n][n]
    BY <1>0, <1>9, <2>1 DEF Receive
  <2>3. PICK x \in Sessions : Explains(x)
    BY <1>2, <1>9, <2>2 DEF Receive
  <2> QED
    BY <1>1, <1>9, <2>3 DEF Receive
<1>10. ASSUME UNCHANGED <<pc, home, user, infos, userToSession>>
       PROVE  \E x \in Sessions : Explains(x)'
  <2>1. PICK x \in Sessions : Explains(x)
    BY <1>2, <1>10
  <2> QED
    BY <1>1, <1>10, <2>1
<1>11. ASSUME NEW k \in Nodes, NEW m \in Nodes, NodesPart(k, m) \/ NodesJoin(k, m)
       PROVE  UNCHANGED <<pc, home, user, infos, userToSession>>
  BY <1>11 DEF NodesPart, NodesJoin
<1>12. UNCHANGED vars => UNCHANGED <<pc, home, user, infos, userToSession>>
  BY DEF vars
<1> QED
  BY <1>3, <1>4, <1>5, <1>6, <1>7, <1>8, <1>9, <1>10, <1>11, <1>12 DEF Next, Step

LEMMA RegisteredStep ==
  Typed /\ Acquainted /\ EntriesExplained /\ Registered /\ [Next]_vars => Registered'
<1> SUFFICES ASSUME Typed, Acquainted, EntriesExplained, Registered, [Next]_vars,
                    NEW s \in Sessions, pc'[s] = "connected", user'[s] # NoUser
             PROVE  (user[s] \in infos[home[s]][home[s]] \/ Entering(s) # {} \/ Leaving(s) # {})'
  BY DEF Registered
<1> DEFINE Known == user[s] \in infos[home[s]][home[s]]
           Excused(t) == /\ <<s, t>> \in met
                         /\ pc[t] \in {"associate", "share", "disassociate", "forget", "gone"}
<1>0. /\ pc \in [Sessions -> Pcs]
      /\ user \in [Sessions -> UserIds \cup {NoUser}]
      /\ home \in [Sessions -> Nodes \cup {NoNode}]
      /\ userToSession \in [Nodes -> [UserIds -> Sessions \cup {NoSession}]]
      /\ infos \in [Nodes -> [Nodes -> SUBSET UserIds]]
      /\ Attributes
      /\ NoLoop(links, joined)
      /\ NoUser \notin UserIds
      /\ NoSession \notin Sessions
  BY UsersAssumption DEF Typed, TypeOK
<1>1. ASSUME Known' \/ \E t \in Sessions : Excused(t)'
      PROVE  (user[s] \in infos[home[s]][home[s]] \/ Entering(s) # {} \/ Leaving(s) # {})'
  BY <1>1 DEF Entering, Leaving
<1>2. pc[s] = "connected" /\ user[s] # NoUser => Known \/ \E t \in Sessions : Excused(t)
  BY DEF Registered, Entering, Leaving
<1> HIDE DEF Known, Excused
\* Another session opens: it excuses nobody and registers nobody.
<1>4. ASSUME NEW r \in Sessions, NEW n \in Nodes, NEW u \in UserIds \cup {NoUser},
             CanHandshake(r, n, u)
      PROVE  Known' \/ \E t \in Sessions : Excused(t)'
  <2>1. /\ infos' = infos /\ met \subseteq met' /\ pc[r] = "new" /\ r # s
        /\ pc[s] = "connected" /\ user'[s] = user[s] /\ home'[s] = home[s]
        /\ \A t \in Sessions : t # r => pc'[t] = pc[t]
    BY <1>0, <1>4 DEF CanHandshake
  <2>2. CASE Known
    BY <2>1, <2>2 DEF Known
  <2>3. ASSUME NEW t \in Sessions, Excused(t)
        PROVE  Excused(t)'
    BY <2>1, <2>3 DEF Excused
  <2> QED
    BY <1>2, <2>1, <2>2, <2>3
\* The session finds its user registered: by one that is in the map, or by one
\* that is half-way and has met this one.
<1>5. ASSUME NEW r \in Sessions, PutIfAbsent(r)
      PROVE  Known' \/ \E t \in Sessions : Excused(t)'
  <2>1. /\ UNCHANGED <<infos, met, home, user>> /\ pc[r] = "added"
        /\ \A t \in Sessions : t # r => pc'[t] = pc[t]
    BY <1>0, <1>5 DEF PutIfAbsent
  <2>2. CASE r # s
    <3>1. ASSUME NEW t \in Sessions, Excused(t)
          PROVE  Excused(t)'
      BY <2>1, <3>1 DEF Excused
    <3> QED
      BY <1>2, <2>1, <2>2, <3>1 DEF Known
  <2>3. CASE r = s
    <3>1. /\ user[s] \in UserIds /\ home[s] \in Nodes
          /\ userToSession[home[s]][user[s]] # NoSession
      BY <1>0, <1>5, <2>1, <2>3 DEF PutIfAbsent, Attributes
    <3>2. CASE user[s] \notin infos[home[s]][home[s]]
      <4>1. PICK x \in Sessions : Open(x, home[s], user[s]) /\ pc[x] \in Halfway
        BY <3>1, <3>2 DEF EntriesExplained
      <4>2. x # s /\ Open(s, home[s], user[s])
        BY <2>1, <2>3, <4>1 DEF Halfway, Open
      <4>3. <<s, x>> \in met
        BY <3>1, <4>1, <4>2 DEF Acquainted
      <4> QED
        BY <2>1, <2>3, <4>1, <4>2, <4>3 DEF Excused, Halfway
    <3> QED
      BY <2>1, <3>2 DEF Known
  <2> QED
    BY <2>2, <2>3
<1>6. ASSUME NEW r \in Sessions, Associate(r) \/ Disassociate(r) \/ Forget(r)
      PROVE  Known' \/ \E t \in Sessions : Excused(t)'
  <2>1. /\ UNCHANGED <<infos, met, home, user>> /\ pc[s] = "connected"
        /\ \A t \in Sessions : t # r => pc'[t] = pc[t]
        /\ pc'[r] \in {"share", "forget", "gone"}
    BY <1>0, <1>6 DEF Associate, Disassociate, Forget
  <2>2. ASSUME NEW t \in Sessions, Excused(t)
        PROVE  Excused(t)'
    BY <2>1, <2>2 DEF Excused
  <2> QED
    BY <1>2, <2>1, <2>2 DEF Known
\* Whoever was waited for puts the user into the map.
<1>7. ASSUME NEW r \in Sessions, PutAndShare(r)
      PROVE  Known' \/ \E t \in Sessions : Excused(t)'
  <2>1. /\ home[r] \in Nodes /\ user[r] \in UserIds /\ UNCHANGED <<met, home, user>>
        /\ infos' = [infos EXCEPT ![home[r]][home[r]] = infos[home[r]][home[r]] \cup {user[r]}]
        /\ \A t \in Sessions : t # r => pc'[t] = pc[t]
    BY <1>0, <1>7 DEF PutAndShare, Attributes
  <2>2. \A n \in Nodes : infos[n][n] \subseteq infos'[n][n]
    BY <1>0, <2>1
  <2>3. user[r] \in infos'[home[r]][home[r]]
    BY <1>0, <2>1
  <2>4. CASE r = s
    BY <2>1, <2>3, <2>4 DEF Known
  <2>5. CASE r # s /\ home[r] = home[s] /\ user[r] = user[s]
    BY <2>1, <2>3, <2>5 DEF Known
  <2>6. CASE r # s /\ ~ (home[r] = home[s] /\ user[r] = user[s])
    <3>1. pc[s] = "connected" /\ home[s] \in Nodes
      BY <1>0, <2>1, <2>6 DEF Attributes
    <3>2. CASE Known
      BY <2>1, <2>2, <3>1, <3>2 DEF Known
    <3>3. ASSUME NEW t \in Sessions, Excused(t)
          PROVE  Excused(t)'
      <4>1. t # r
        BY <2>6, <3>3 DEF Excused, Acquainted
      <4> QED
        BY <2>1, <3>3, <4>1 DEF Excused
    <3> QED
      BY <1>2, <2>1, <3>1, <3>2, <3>3
  <2> QED
    BY <2>4, <2>5, <2>6
<1>8. ASSUME NEW r \in Sessions, RemoveAndShare(r)
      PROVE  Known' \/ \E t \in Sessions : Excused(t)'
  <2>1. /\ home[r] \in Nodes /\ pc[r] = "connected" /\ UNCHANGED <<met, home, user>>
        /\ r # s /\ pc[s] = "connected" /\ home[s] \in Nodes /\ user[s] \in UserIds
        /\ \A t \in Sessions : t # r => pc'[t] = pc[t]
    BY <1>0, <1>8 DEF RemoveAndShare, Attributes
  <2>2. ASSUME NEW t \in Sessions, Excused(t)
        PROVE  Excused(t)'
    BY <2>1, <2>2 DEF Excused
  <2>3. CASE home[r] = home[s] /\ user[r] = user[s]
    <3>1. <<s, r>> \in met
      BY <2>1, <2>3 DEF Acquainted, Open
    <3>2. pc'[r] = "disassociate"
      BY <1>0, <1>8, <2>1, <2>3 DEF RemoveAndShare
    <3> QED
      BY <2>1, <3>1, <3>2 DEF Excused
  <2>4. CASE ~ (home[r] = home[s] /\ user[r] = user[s])
    <3>1. infos' = infos \/
          infos' = [infos EXCEPT ![home[r]][home[r]] = infos[home[r]][home[r]] \ {user[r]}]
      BY <1>8 DEF RemoveAndShare
    <3>2. ASSUME infos' = infos
          PROVE  Known => Known'
      BY <2>1, <3>2 DEF Known
    <3>3. ASSUME infos' = [infos EXCEPT ![home[r]][home[r]] = infos[home[r]][home[r]] \ {user[r]}]
          PROVE  Known => Known'
      <4>1. infos'[home[s]][home[s]] = IF home[s] = home[r]
                                       THEN infos[home[r]][home[r]] \ {user[r]}
                                       ELSE infos[home[s]][home[s]]
        BY <1>0, <2>1, <3>3
      <4> QED
        BY <2>1, <2>4, <4>1 DEF Known
    <3>4. Known => Known'
      BY <3>1, <3>2, <3>3
    <3> QED
      BY <1>2, <2>1, <2>2, <3>4
  <2> QED
    BY <2>3, <2>4
<1>9. ASSUME NEW m \in Nodes, NEW n \in Nodes, Receive(m, n)
      PROVE  Known' \/ \E t \in Sessions : Excused(t)'
  <2>1. m # n /\ UNCHANGED <<pc, met, home, user>> /\ home[s] \in Nodes
    BY <1>0, <1>9 DEF Receive, NoLoop, Attributes
  <2>2. \A a \in Nodes : infos'[a][a] = infos[a][a]
    BY <1>0, <1>9, <2>1 DEF Receive
  <2>3. ASSUME NEW t \in Sessions, Excused(t)
        PROVE  Excused(t)'
    BY <2>1, <2>3 DEF Excused
  <2> QED
    BY <1>2, <2>1, <2>2, <2>3 DEF Known
<1>10. ASSUME UNCHANGED <<pc, home, user, infos, met>>
       PROVE  Known' \/ \E t \in Sessions : Excused(t)'
  BY <1>2, <1>10 DEF Known, Excused
<1>11. ASSUME NEW m \in Nodes, NEW n \in Nodes, NodesPart(m, n) \/ NodesJoin(m, n)
       PROVE  UNCHANGED <<pc, home, user, infos, met>>
  BY <1>11 DEF NodesPart, NodesJoin
<1>12. UNCHANGED vars => UNCHANGED <<pc, home, user, infos, met>>
  BY DEF vars
<1> QED
  BY <1>1, <1>4, <1>5, <1>6, <1>7, <1>8, <1>9, <1>10, <1>11, <1>12 DEF Next, Step

\* Once sessionAdded has returned, the user of a session is in the map of its
\* node until the session is removed, unless another session of the user that
\* was open at the same time is still entering it or took it out.
THEOREM RegisteredAlways == Spec => []Registered
<1>1. Init => Acquainted /\ EntriesExplained /\ Registered
  BY DEF Init, Acquainted, EntriesExplained, Open, Registered
<1>2. Typed /\ Acquainted /\ [Next]_vars => Acquainted'
  BY AcquaintedStep
<1>3. Typed /\ Marks /\ EntriesExplained /\ [Next]_vars => EntriesExplained'
  BY EntriesStep
<1>4. Typed /\ Acquainted /\ EntriesExplained /\ Registered /\ [Next]_vars => Registered'
  BY RegisteredStep
<1> QED
  BY <1>1, <1>2, <1>3, <1>4, TypedAlways, MarksAlways, PTL DEF Spec

-----------------------------------------------------------------------------
\* What is under way, message by message: a message that is added at the end
\* decides for the users it is about, one that is processed has been applied.
LEMMA WillHoldAppend ==
  ASSUME NEW q \in Seq(Messages), NEW msg \in Messages, NEW S, NEW u \in UserIds
  PROVE  WillHold(Append(q, msg), S, u) <=>
           IF About(msg, u) THEN Says(msg, u) ELSE WillHold(q, S, u)
<1> DEFINE p == Append(q, msg)
<1>1. /\ Len(q) \in Nat /\ Len(p) = Len(q) + 1 /\ p[Len(q) + 1] = msg
      /\ \A i \in 1 .. Len(q) : p[i] = q[i]
  OBVIOUS
<1> HIDE DEF p
<1>2. CASE About(msg, u)
  <2>1. Last(p, u, Len(q) + 1)
    BY <1>1, <1>2 DEF Last
  <2>2. \A i \in 1 .. Len(p) : Last(p, u, i) => i = Len(q) + 1
    BY <1>1, <1>2 DEF Last
  <2> QED
    BY <1>1, <1>2, <2>1, <2>2 DEF WillHold, p
<1>3. CASE ~ About(msg, u)
  <2>1. \A i \in 1 .. Len(q) : Last(p, u, i) <=> Last(q, u, i)
    BY <1>1, <1>3 DEF Last
  <2>2. ~ Last(p, u, Len(q) + 1)
    BY <1>1, <1>3 DEF Last
  <2>3. (\A i \in 1 .. Len(p) : ~ About(p[i], u)) <=> (\A i \in 1 .. Len(q) : ~ About(q[i], u))
    BY <1>1, <1>3
  <2>4. (\E i \in 1 .. Len(p) : Last(p, u, i) /\ Says(p[i], u)) <=>
          (\E i \in 1 .. Len(q) : Last(q, u, i) /\ Says(q[i], u))
    BY <1>1, <2>1, <2>2
  <2> QED
    BY <1>3, <2>3, <2>4 DEF WillHold, p
<1> QED
  BY <1>2, <1>3

LEMMA AppliedSays ==
  ASSUME NEW msg \in Messages, NEW S, NEW u \in UserIds
  PROVE  u \in Applied(msg, S) <=> IF About(msg, u) THEN Says(msg, u) ELSE u \in S
<1>1. CASE msg \in [type : {"put", "remove"}, user : UserIds]
  BY <1>1 DEF Applied, About, Says
<1>2. CASE msg \in [type : {"object"}, users : SUBSET UserIds]
  BY <1>2 DEF Applied, About, Says
<1>3. CASE msg \in [type : {"left"}]
  BY <1>3 DEF Applied, About, Says
<1> QED
  BY <1>1, <1>2, <1>3 DEF Messages

LEMMA WillHoldTail ==
  ASSUME NEW q \in Seq(Messages), q # <<>>, NEW S, NEW u \in UserIds
  PROVE  WillHold(Tail(q), Applied(Head(q), S), u) <=> WillHold(q, S, u)
<1> DEFINE p == Tail(q)
           T == Applied(Head(q), S)
<1>1. /\ Len(q) \in Nat \ {0} /\ Len(p) = Len(q) - 1 /\ Head(q) = q[1] /\ q[1] \in Messages
      /\ \A i \in 1 .. Len(p) : p[i] = q[i + 1]
  OBVIOUS
<1>2. u \in T <=> IF About(q[1], u) THEN Says(q[1], u) ELSE u \in S
  BY <1>1, AppliedSays
<1> HIDE DEF p, T
<1>3. \A i \in 1 .. Len(p) : Last(p, u, i) <=> Last(q, u, i + 1)
  <2> SUFFICES ASSUME NEW i \in 1 .. Len(p)
               PROVE  Last(p, u, i) <=> Last(q, u, i + 1)
    OBVIOUS
  <2>1. (\A j \in i+1 .. Len(p) : ~ About(p[j], u)) <=>
          (\A j \in i+2 .. Len(q) : ~ About(q[j], u))
    <3>1. ASSUME \A j \in i+1 .. Len(p) : ~ About(p[j], u), NEW j \in i+2 .. Len(q)
          PROVE  ~ About(q[j], u)
      <4>1. j - 1 \in i+1 .. Len(p) /\ p[j - 1] = q[j]
        BY <1>1
      <4> QED
        BY <3>1, <4>1
    <3>2. ASSUME \A j \in i+2 .. Len(q) : ~ About(q[j], u), NEW j \in i+1 .. Len(p)
          PROVE  ~ About(p[j], u)
      <4>1. j + 1 \in i+2 .. Len(q) /\ p[j] = q[j + 1]
        BY <1>1
      <4> QED
        BY <3>2, <4>1
    <3> QED
      BY <3>1, <3>2
  <2>2. (i + 1) + 1 = i + 2
    BY <1>1
  <2> QED
    BY <1>1, <2>1, <2>2 DEF Last
<1>4. Last(q, u, 1) <=> About(q[1], u) /\ \A i \in 1 .. Len(p) : ~ About(p[i], u)
  <2>1. ASSUME \A i \in 1 .. Len(p) : ~ About(p[i], u), NEW j \in 2 .. Len(q)
        PROVE  ~ About(q[j], u)
    <3>1. j - 1 \in 1 .. Len(p) /\ p[j - 1] = q[j]
      BY <1>1
    <3> QED
      BY <2>1, <3>1
  <2>2. ASSUME \A j \in 2 .. Len(q) : ~ About(q[j], u), NEW i \in 1 .. Len(p)
        PROVE  ~ About(p[i], u)
    <3>1. i + 1 \in 2 .. Len(q) /\ p[i] = q[i + 1]
      BY <1>1
    <3> QED
      BY <2>2, <3>1
  <2>3. 1 + 1 = 2
    OBVIOUS
  <2> QED
    BY <2>1, <2>2, <2>3 DEF Last
<1>5. (\A i \in 1 .. Len(q) : ~ About(q[i], u)) <=>
        ~ About(q[1], u) /\ \A i \in 1 .. Len(p) : ~ About(p[i], u)
  <2>1. ASSUME \A i \in 1 .. Len(p) : ~ About(p[i], u), NEW j \in 1 .. Len(q), j # 1
        PROVE  ~ About(q[j], u)
    <3>1. j - 1 \in 1 .. Len(p) /\ p[j - 1] = q[j]
      BY <1>1, <2>1
    <3> QED
      BY <2>1, <3>1
  <2>2. \A i \in 1 .. Len(p) : i + 1 \in 1 .. Len(q) /\ p[i] = q[i + 1]
    BY <1>1
  <2>3. 1 \in 1 .. Len(q)
    BY <1>1
  <2> QED
    BY <2>1, <2>2, <2>3
<1>6. (\E i \in 1 .. Len(q) : Last(q, u, i) /\ Says(q[i], u)) <=>
        \/ Last(q, u, 1) /\ Says(q[1], u)
        \/ \E i \in 1 .. Len(p) : Last(p, u, i) /\ Says(p[i], u)
  <2>1. ASSUME NEW i \in 1 .. Len(p), Last(p, u, i), Says(p[i], u)
        PROVE  i + 1 \in 1 .. Len(q) /\ Last(q, u, i + 1) /\ Says(q[i + 1], u)
    BY <1>1, <1>3, <2>1
  <2>2. ASSUME NEW i \in 1 .. Len(q), i # 1, Last(q, u, i), Says(q[i], u)
        PROVE  i - 1 \in 1 .. Len(p) /\ Last(p, u, i - 1) /\ Says(p[i - 1], u)
    <3>1. i - 1 \in 1 .. Len(p) /\ (i - 1) + 1 = i
      BY <1>1, <2>2
    <3> QED
      BY <1>1, <1>3, <2>2, <3>1
  <2>3. 1 \in 1 .. Len(q)
    BY <1>1
  <2> QED
    BY <2>1, <2>2, <2>3
<1>7. WillHold(q, S, u) <=>
        \/ \E i \in 1 .. Len(p) : Last(p, u, i) /\ Says(p[i], u)
        \/ u \in T /\ \A i \in 1 .. Len(p) : ~ About(p[i], u)
  BY <1>2, <1>4, <1>5, <1>6 DEF WillHold
<1> QED
  BY <1>7 DEF WillHold, p, T

LEMMA ConvergeStep == Typed /\ ReplicasConverge /\ [Next]_vars => ReplicasConverge'
<1> SUFFICES ASSUME Typed, ReplicasConverge, [Next]_vars,
                    NEW a \in Nodes, NEW b \in Nodes, a # b, NEW u \in UserIds
             PROVE  (WillHold(links[a][b], infos[b][a], u)
                       <=> b \in joined[a] /\ u \in infos[a][a])'
  BY DEF ReplicasConverge
<1> DEFINE Converges == WillHold(links[a][b], infos[b][a], u)
                          <=> b \in joined[a] /\ u \in infos[a][a]
<1>0. /\ infos \in [Nodes -> [Nodes -> SUBSET UserIds]]
      /\ joined \in [Nodes -> SUBSET Nodes]
      /\ links \in LinksOf(Messages)
      /\ Attributes
      /\ NoLoop(links, joined)
      /\ NoUser \notin UserIds
  BY UsersAssumption DEF Typed, TypeOK, LinksOf
<1>1. Converges /\ links[a][b] \in Seq(Messages)
  BY <1>0 DEF ReplicasConverge, LinksOf
<1>2. ASSUME links'[a][b] = links[a][b], infos'[b][a] = infos[b][a],
             joined'[a] = joined[a], infos'[a][a] = infos[a][a]
      PROVE  Converges'
  BY <1>1, <1>2
\* The owner changes its map and publishes a message that says the same.
<1>3. ASSUME NEW k \in Nodes, NEW msg \in Messages,
             msg.type = "put" \/ msg.type = "remove",
             infos'[b][a] = infos[b][a],
             k # a => infos'[a][a] = infos[a][a],
             k = a => (u \in infos'[a][a] <=>
                         IF u = msg.user THEN msg.type = "put" ELSE u \in infos[a][a]),
             links' = Publish(links, k, joined[k], msg),
             joined' = joined
      PROVE  Converges'
  <2>1. links'[a][b] = IF a = k /\ b \in joined[k] THEN Append(links[a][b], msg)
                       ELSE links[a][b]
    BY <1>0, <1>3, PublishLinks
  <2>2. CASE a # k
    BY <1>2, <1>3, <2>1, <2>2
  <2>3. CASE a = k /\ b \notin joined[k]
    BY <1>1, <1>3, <2>1, <2>3
  <2>4. CASE a = k /\ b \in joined[k]
    <3>1. About(msg, u) <=> u = msg.user
      BY <1>3 DEF About
    <3>2. Says(msg, u) <=> msg.type = "put"
      BY <1>3 DEF Says
    <3>3. WillHold(links'[a][b], infos'[b][a], u) <=>
            IF u = msg.user THEN msg.type = "put" ELSE WillHold(links[a][b], infos[b][a], u)
      BY <1>1, <1>3, <2>1, <2>4, <3>1, <3>2, WillHoldAppend
    <3> QED
      BY <1>1, <1>3, <2>4, <3>3
  <2> QED
    BY <2>2, <2>3, <2>4
<1>4. ASSUME NEW s \in Sessions, PutAndShare(s)
      PROVE  Converges'
  <2>1. home[s] \in Nodes /\ user[s] \in UserIds
    BY <1>0, <1>4 DEF PutAndShare, Attributes
  <2> DEFINE msg == [type |-> "put", user |-> user[s]]
  <2>2. msg \in Messages /\ msg.type = "put" /\ msg.user = user[s]
    BY <2>1, MessageKinds
  <2>3. /\ infos'[b][a] = infos[b][a]
        /\ home[s] # a => infos'[a][a] = infos[a][a]
        /\ home[s] = a => infos'[a][a] = infos[a][a] \cup {user[s]}
    BY <1>0, <1>4, <2>1 DEF PutAndShare
  <2>4. links' = Publish(links, home[s], joined[home[s]], msg) /\ joined' = joined
    BY <1>4 DEF PutAndShare
  <2> HIDE DEF msg, Converges
  <2> QED
    BY <1>3, <2>1, <2>2, <2>3, <2>4
<1>5. ASSUME NEW s \in Sessions, RemoveAndShare(s)
      PROVE  Converges'
  <2>1. CASE user[s] = NoUser
    BY <1>2, <1>5, <2>1 DEF RemoveAndShare
  <2>2. CASE user[s] # NoUser
    <3>1. home[s] \in Nodes /\ user[s] \in UserIds
      BY <1>5, <2>2 DEF RemoveAndShare, Typed, TypeOK, Attributes
    <3> DEFINE msg == [type |-> "remove", user |-> user[s]]
    <3>2. msg \in Messages /\ msg.type = "remove" /\ msg.user = user[s]
      BY <3>1, MessageKinds
    <3>3. /\ infos'[b][a] = infos[b][a]
          /\ home[s] # a => infos'[a][a] = infos[a][a]
          /\ home[s] = a => infos'[a][a] = infos[a][a] \ {user[s]}
      BY <1>0, <1>5, <2>2, <3>1 DEF RemoveAndShare
    <3>4. links' = Publish(links, home[s], joined[home[s]], msg) /\ joined' = joined
      BY <1>5, <2>2 DEF RemoveAndShare
    <3> HIDE DEF msg, Converges
    <3> QED
      BY <1>3, <3>1, <3>2, <3>3, <3>4
  <2> QED
    BY <2>1, <2>2
<1>6. ASSUME NEW m \in Nodes, NEW n \in Nodes, Receive(m, n)
      PROVE  Converges'
  <2>1. m # n /\ joined' = joined /\ links[m][n] # <<>>
    BY <1>0, <1>6 DEF Receive, NoLoop
  <2>2. links'[a][b] = IF a = m /\ b = n THEN Tail(links[a][b]) ELSE links[a][b]
    BY <1>0, <1>6, <2>1, ConsumeLinks DEF Receive
  <2>3. /\ infos'[a][a] = infos[a][a]
        /\ infos'[b][a] = IF a = m /\ b = n THEN Applied(Head(links[a][b]), infos[b][a])
                          ELSE infos[b][a]
    BY <1>0, <1>6, <2>1 DEF Receive
  <2>4. CASE a = m /\ b = n
    BY <1>1, <2>1, <2>2, <2>3, <2>4, WillHoldTail
  <2>5. CASE ~ (a = m /\ b = n)
    BY <1>2, <2>1, <2>2, <2>3, <2>5
  <2> QED
    BY <2>4, <2>5
<1>7. ASSUME NEW m \in Nodes, NEW n \in Nodes, NodesPart(m, n)
      PROVE  Converges'
  <2> DEFINE left == [type |-> "left"]
  <2>1. /\ m # n /\ left \in Messages /\ infos' = infos
        /\ links' = Sever(links, m, n, left)
        /\ joined' = Part(joined, m, n)
    BY <1>0, <1>7, MessageKinds DEF NodesPart, NoLoop
  <2>2. ~ WillHold(<<left>>, infos[b][a], u)
    BY DEF WillHold, Last, About, Says
  <2> HIDE DEF left
  <2>3. links'[a][b] = IF (a = m /\ b = n) \/ (a = n /\ b = m) THEN <<left>> ELSE links[a][b]
    BY SMTT(30), <1>0, <2>1, SeverLinks
  <2>4. b \in joined'[a] <=> b \in joined[a] /\ ~ (a = m /\ b = n) /\ ~ (a = n /\ b = m)
    BY SMTT(30), <1>0, <2>1, JoinedNodes
  <2> QED
    BY <1>1, <2>1, <2>2, <2>3, <2>4
<1>8. ASSUME NEW m \in Nodes, NEW n \in Nodes, NodesJoin(m, n)
      PROVE  Converges'
  <2> DEFINE Of(k) == [type |-> "object", users |-> infos[k][k]]
  <2>1. \A k \in Nodes : Of(k) \in Messages
    BY <1>0, MessageKinds
  <2>2. /\ m # n /\ infos' = infos
        /\ links' = Exchange(links, m, n, Of(m), Of(n))
        /\ joined' = Join(joined, m, n)
    BY <1>8 DEF NodesJoin
  <2>3. About(Of(a), u) /\ (Says(Of(a), u) <=> u \in infos[a][a])
    BY DEF About, Says
  <2> HIDE DEF Of
  <2>4. links'[a][b] = IF (a = m /\ b = n) \/ (a = n /\ b = m)
                       THEN Append(links[a][b], Of(a)) ELSE links[a][b]
    <3>1. Of(m) \in Messages /\ Of(n) \in Messages
      BY <2>1
    <3> DEFINE ofM == Of(m)
               ofN == Of(n)
    <3>2. /\ a = m => ofM = Of(a)
          /\ a = n => ofN = Of(a)
      OBVIOUS
    <3> HIDE DEF ofM, ofN
    <3>3. links' = Exchange(links, m, n, ofM, ofN)
      BY <2>2 DEF ofM, ofN
    <3>4. ofM \in Messages /\ ofN \in Messages
      BY <3>1 DEF ofM, ofN
    <3>5. links'[a][b] = IF a = m /\ b = n THEN Append(links[a][b], ofM)
                         ELSE IF a = n /\ b = m THEN Append(links[a][b], ofN)
                         ELSE links[a][b]
      BY <1>0, <2>2, <3>3, <3>4, ExchangeLinks
    <3> QED
      BY <3>2, <3>5
  <2>5. b \in joined'[a] <=> b \in joined[a] \/ (a = m /\ b = n) \/ (a = n /\ b = m)
    BY <1>0, <2>2, JoinedNodes
  <2>6. CASE (a = m /\ b = n) \/ (a = n /\ b = m)
    <3>1. WillHold(links'[a][b], infos'[b][a], u) <=> u \in infos[a][a]
      BY <1>1, <2>1, <2>2, <2>3, <2>4, <2>6, WillHoldAppend
    <3> QED
      BY <2>2, <2>5, <2>6, <3>1
  <2>7. CASE ~ ((a = m /\ b = n) \/ (a = n /\ b = m))
    BY <1>1, <2>2, <2>4, <2>5, <2>7
  <2> QED
    BY <2>6, <2>7
<1>9. ASSUME UNCHANGED <<infos, links, joined>>
      PROVE  Converges'
  BY <1>2, <1>9
<1>10. ASSUME NEW s \in Sessions,
              PutIfAbsent(s) \/ Associate(s) \/ Disassociate(s) \/ Forget(s)
       PROVE  UNCHANGED <<infos, links, joined>>
  BY <1>10 DEF PutIfAbsent, Associate, Disassociate, Forget
<1>11. ASSUME NEW s \in Sessions, NEW n \in Nodes, NEW v \in UserIds \cup {NoUser},
              CanHandshake(s, n, v)
       PROVE  UNCHANGED <<infos, links, joined>>
  BY <1>11 DEF CanHandshake
<1>12. UNCHANGED vars => UNCHANGED <<infos, links, joined>>
  BY DEF vars
<1> QED
  BY <1>4, <1>5, <1>6, <1>7, <1>8, <1>9, <1>10, <1>11, <1>12 DEF Next, Step

\* The copies of a map end up equal to the map on every node joined with its
\* owner, and empty on the others, once what is under way has been processed.
THEOREM Convergence == Spec => []ReplicasConverge
<1>1. ASSUME Init
      PROVE  ReplicasConverge
  <2>1. ASSUME NEW u \in UserIds
        PROVE  ~ WillHold(<<>>, {}, u)
    BY DEF WillHold
  <2>2. \A m, n \in Nodes : links[m][n] = <<>> /\ infos[m][n] = {}
    BY <1>1, InitialLinks DEF Init
  <2> QED
    BY <2>1, <2>2 DEF ReplicasConverge
<1> QED
  BY <1>1, TypedAlways, ConvergeStep, PTL DEF Spec
=============================================================================
