------------------------- MODULE RoomMembersProofs -------------------------
(***************************************************************************)
(* Theorems about RoomMembers, for any nodes, rooms, users and sessions.   *)
(***************************************************************************)
EXTENDS RoomMembers, TLAPS

-----------------------------------------------------------------------------
\* What the operators of OortLinks do to the queues between nodes, for any set
\* of messages.  No other proof of this module opens them.

\* One entry of a table is replaced and the others stay.
LEMMA TableUpdate ==
  ASSUME NEW S, NEW T, NEW V, NEW f \in [S -> [T -> V]],
         NEW i \in S, NEW j \in T, NEW v \in V
  PROVE  /\ [f EXCEPT ![i][j] = v] \in [S -> [T -> V]]
         /\ \A a \in S, b \in T :
              [f EXCEPT ![i][j] = v][a][b] = IF a = i /\ b = j THEN v ELSE f[a][b]
  OBVIOUS

\* In the beginning nothing is under way and every two nodes are joined.
LEMMA InitialLinks ==
  ASSUME NEW M
  PROVE  /\ NoLinks \in LinksOf(M)
         /\ \A m, n \in Nodes : NoLinks[m][n] = <<>>
         /\ AllJoined \in [Nodes -> SUBSET Nodes]
         /\ \A m, n \in Nodes : n \in AllJoined[m] <=> n # m
         /\ NoLoop(NoLinks, AllJoined)
  BY DEF NoLinks, AllJoined, LinksOf, NoLoop

\* Publishing appends to the queues from the sender to the nodes it reaches.
LEMMA PublishLinks ==
  ASSUME NEW M, NEW queues \in LinksOf(M), NEW m \in Nodes, NEW S, NEW msg \in M
  PROVE  /\ Publish(queues, m, S, msg) \in LinksOf(M)
         /\ \A a, b \in Nodes : Publish(queues, m, S, msg)[a][b] =
              IF a = m /\ b \in S THEN Append(queues[a][b], msg) ELSE queues[a][b]
<1> DEFINE row == [n \in Nodes |-> IF n \in S THEN Append(queues[m][n], msg) ELSE queues[m][n]]
<1>1. queues[m] \in [Nodes -> Seq(M)]
  BY DEF LinksOf
<1>2. \A n \in Nodes : queues[m][n] \in Seq(M) /\ Append(queues[m][n], msg) \in Seq(M)
  BY <1>1
<1>3. row \in [Nodes -> Seq(M)]
  BY <1>2
<1>4. Publish(queues, m, S, msg) = [queues EXCEPT ![m] = row]
  BY DEF Publish
<1> HIDE DEF row
<1>5. [queues EXCEPT ![m] = row] \in LinksOf(M)
  BY <1>3 DEF LinksOf
<1>6. \A a, b \in Nodes : [queues EXCEPT ![m] = row][a][b] = IF a = m THEN row[b] ELSE queues[a][b]
  BY DEF LinksOf
<1>7. \A b \in Nodes : row[b] = IF b \in S THEN Append(queues[m][b], msg) ELSE queues[m][b]
  BY DEF row
<1> QED
  BY <1>4, <1>5, <1>6, <1>7

\* Consuming drops the oldest message of one queue.
LEMMA ConsumeLinks ==
  ASSUME NEW M, NEW queues \in LinksOf(M), NEW m \in Nodes, NEW n \in Nodes,
         queues[m][n] # <<>>
  PROVE  /\ Consume(queues, m, n) \in LinksOf(M)
         /\ Head(queues[m][n]) \in M
         /\ \A a, b \in Nodes : Consume(queues, m, n)[a][b] =
              IF a = m /\ b = n THEN Tail(queues[a][b]) ELSE queues[a][b]
<1>1. queues[m][n] \in Seq(M)
  BY DEF LinksOf
<1>2. Tail(queues[m][n]) \in Seq(M) /\ Head(queues[m][n]) \in M
  BY <1>1
<1> QED
  BY <1>2 DEF Consume, LinksOf

\* When two nodes part, each one's queue to the other is the farewell alone.
LEMMA SeverLinks ==
  ASSUME NEW M, NEW queues \in LinksOf(M), NEW m \in Nodes, NEW n \in Nodes,
         m # n, NEW left \in M
  PROVE  /\ Sever(queues, m, n, left) \in LinksOf(M)
         /\ \A a, b \in Nodes : Sever(queues, m, n, left)[a][b] =
              IF (a = m /\ b = n) \/ (a = n /\ b = m) THEN <<left>> ELSE queues[a][b]
<1>1. <<left>> \in Seq(M)
  OBVIOUS
<1> QED
  BY <1>1 DEF Sever, LinksOf

\* When two nodes join, each one's object is the last message to the other.
LEMMA ExchangeLinks ==
  ASSUME NEW M, NEW queues \in LinksOf(M), NEW m \in Nodes, NEW n \in Nodes,
         m # n, NEW ofM \in M, NEW ofN \in M
  PROVE  /\ Exchange(queues, m, n, ofM, ofN) \in LinksOf(M)
         /\ \A a, b \in Nodes : Exchange(queues, m, n, ofM, ofN)[a][b] =
              IF a = m /\ b = n THEN Append(queues[a][b], ofM)
              ELSE IF a = n /\ b = m THEN Append(queues[a][b], ofN)
              ELSE queues[a][b]
<1> DEFINE toN == Append(queues[m][n], ofM)
           toM == Append(queues[n][m], ofN)
<1>1. queues[m][n] \in Seq(M) /\ queues[n][m] \in Seq(M)
  BY DEF LinksOf
<1>2. toN \in Seq(M) /\ toM \in Seq(M)
  BY <1>1
<1>3. Exchange(queues, m, n, ofM, ofN) = [queues EXCEPT ![m][n] = toN, ![n][m] = toM]
  BY DEF Exchange
<1>4. \A a, b \in Nodes :
        /\ a = m /\ b = n => toN = Append(queues[a][b], ofM)
        /\ a = n /\ b = m => toM = Append(queues[a][b], ofN)
  OBVIOUS
<1> HIDE DEF toN, toM
<1>5. [queues EXCEPT ![m][n] = toN, ![n][m] = toM] \in LinksOf(M)
  BY <1>2 DEF LinksOf
<1>6. \A a, b \in Nodes : [queues EXCEPT ![m][n] = toN, ![n][m] = toM][a][b] =
        IF a = m /\ b = n THEN toN ELSE IF a = n /\ b = m THEN toM ELSE queues[a][b]
  BY SMTT(30) DEF LinksOf
<1> QED
  BY ZenonT(30), <1>3, <1>4, <1>5, <1>6

\* Parting and joining concern the two nodes only, and both of them.
LEMMA JoinedNodes ==
  ASSUME NEW reach \in [Nodes -> SUBSET Nodes], NEW m \in Nodes, NEW n \in Nodes,
         m # n
  PROVE  /\ Part(reach, m, n) \in [Nodes -> SUBSET Nodes]
         /\ Join(reach, m, n) \in [Nodes -> SUBSET Nodes]
         /\ \A a, b \in Nodes :
              /\ b \in Part(reach, m, n)[a] <=>
                   b \in reach[a] /\ ~ (a = m /\ b = n) /\ ~ (a = n /\ b = m)
              /\ b \in Join(reach, m, n)[a] <=>
                   b \in reach[a] \/ (a = m /\ b = n) \/ (a = n /\ b = m)
  BY DEF Part, Join

-----------------------------------------------------------------------------
\* A handler that is under way is about a room.
AboutARoom == \A s \in Sessions : step[s] # "none" => room[s] \in Rooms

Typed == TypeOK /\ AboutARoom /\ NoLoop(updates, joined) /\ NoLoop(casts, joined)

\* The messages the actions send are of the declared kinds.
LEMMA MessageKinds ==
  /\ \A r \in Rooms, u \in UserIds :
       /\ [type |-> "add", room |-> r, user |-> u] \in Updates
       /\ [type |-> "remove", room |-> r, user |-> u] \in Updates
       /\ [action |-> "join", room |-> r, user |-> u] \in Casts
       /\ [action |-> "leave", room |-> r, user |-> u] \in Casts
  /\ \A R \in SUBSET Rooms, P \in [Rooms -> SUBSET UserIds], pull \in BOOLEAN :
       [type |-> "object", rooms |-> R, parts |-> P, pull |-> pull] \in Updates
  /\ [type |-> "found"] \in Updates
  /\ [type |-> "left"] \in Updates
  BY DEF Updates, Casts

\* What an update leaves of a part is a set of users.
LEMMA AppliedType ==
  ASSUME NEW msg \in Updates, NEW r \in Rooms, NEW S \in SUBSET UserIds
  PROVE  Applied(msg, r, S) \in SUBSET UserIds
<1>1. CASE msg \in [type : {"add", "remove"}, room : Rooms, user : UserIds]
  BY <1>1 DEF Applied
<1>2. CASE msg \in [type : {"object"}, rooms : SUBSET Rooms,
                    parts : [Rooms -> SUBSET UserIds], pull : BOOLEAN]
  BY <1>2 DEF Applied
<1>3. CASE msg \in [type : {"found", "left"}]
  BY <1>3 DEF Applied
<1> QED
  BY <1>1, <1>2, <1>3 DEF Updates

\* What a list update makes of the part it is for.
Updated(type, S, u) == IF type = "add" THEN S \cup {u} ELSE S \ {u}

\* Adding or removing the user of a session keeps the tables typed, and
\* changes the part of that session's node in the list of that room alone.
LEMMA UpdateType ==
  ASSUME Typed, NEW s \in Sessions, NEW r \in Rooms, NEW type \in {"add", "remove"},
         Update(s, type, r)
  PROVE  /\ copies' \in [Nodes -> [Nodes -> [Rooms -> SUBSET UserIds]]]
         /\ updates' \in LinksOf(Updates)
         /\ \A n \in Nodes : updates'[n][n] = updates[n][n]
         /\ \A n, k \in Nodes, q \in Rooms :
              copies'[n][k][q] =
                IF n = NodeOf[s] /\ k = n /\ q = r /\ r \in lists[n]
                THEN Updated(type, copies[n][k][q], UserOf[s])
                ELSE copies[n][k][q]
<1> DEFINE n == NodeOf[s]
           u == UserOf[s]
           msg == [type |-> type, room |-> r, user |-> u]
           S == Updated(type, copies[n][n][r], u)
<1>0. /\ copies \in [Nodes -> [Nodes -> [Rooms -> SUBSET UserIds]]]
      /\ updates \in LinksOf(Updates)
      /\ n \in Nodes /\ u \in UserIds
  BY RoomMembersAssumption DEF Typed, TypeOK, LinksOf
<1>1. CASE r \in lists[n]
  <2>1. msg \in Updates
    <3>1. CASE type = "add"
      BY <1>0, <3>1, MessageKinds
    <3>2. CASE type = "remove"
      BY <1>0, <3>2, MessageKinds
    <3> QED
      BY <3>1, <3>2
  <2>2. S \in SUBSET UserIds
    BY <1>0 DEF Updated
  <2>3. copies' = [copies EXCEPT ![n][n][r] = S] /\ updates' = Publish(updates, n, joined[n], msg)
    BY <1>1 DEF Update, Updated
  <2>4. n \notin joined[n]
    BY <1>0 DEF Typed, NoLoop
  <2> HIDE DEF msg
  <2>5. updates' \in LinksOf(Updates) /\ \A k \in Nodes : updates'[k][k] = updates[k][k]
    BY <1>0, <2>1, <2>3, <2>4, PublishLinks
  <2> DEFINE row == [copies[n][n] EXCEPT ![r] = S]
  <2>6. /\ row \in [Rooms -> SUBSET UserIds]
        /\ \A q \in Rooms : row[q] = IF q = r THEN S ELSE copies[n][n][q]
    BY <1>0, <2>2
  <2>7. copies' = [copies EXCEPT ![n][n] = row]
    BY <2>3
  <2> HIDE DEF row
  <2>8. /\ copies' \in [Nodes -> [Nodes -> [Rooms -> SUBSET UserIds]]]
        /\ \A a, b \in Nodes : copies'[a][b] = IF a = n /\ b = n THEN row ELSE copies[a][b]
    BY <1>0, <2>6, <2>7, TableUpdate
  <2>9. \A a, k \in Nodes, q \in Rooms :
          copies'[a][k][q] = IF a = n /\ k = n /\ q = r THEN S ELSE copies[a][k][q]
    BY <1>0, <2>6, <2>8
  <2> QED
    BY <1>1, <2>5, <2>8, <2>9
<1>2. CASE r \notin lists[n]
  BY <1>0, <1>2 DEF Update
<1> QED
  BY <1>1, <1>2

\* Broadcasting appends one message to the queues of the other nodes.
LEMMA BroadcastType ==
  ASSUME Typed, NEW s \in Sessions, NEW r \in Rooms, NEW action \in {"join", "leave"},
         Broadcast(s, action, r)
  PROVE  /\ casts' \in LinksOf(Casts)
         /\ \A n \in Nodes : casts'[n][n] = casts[n][n]
<1> DEFINE n == NodeOf[s]
           msg == [action |-> action, room |-> r, user |-> UserOf[s]]
<1>0. casts \in LinksOf(Casts) /\ n \in Nodes /\ UserOf[s] \in UserIds
  BY RoomMembersAssumption DEF Typed, TypeOK, LinksOf
<1>1. msg \in Casts
  <2>1. CASE action = "join"
    BY <1>0, <2>1, MessageKinds
  <2>2. CASE action = "leave"
    BY <1>0, <2>2, MessageKinds
  <2> QED
    BY <2>1, <2>2
<1>2. n \notin joined[n]
  BY <1>0 DEF Typed, NoLoop
<1>3. casts' = Publish(casts, n, joined[n], msg)
  BY DEF Broadcast
<1> HIDE DEF msg
<1> QED
  BY <1>0, <1>1, <1>2, <1>3, PublishLinks

\* What clients hear keeps their rosters typed.
LEMMA HeardType ==
  ASSUME roster \in [Sessions -> [Rooms -> SUBSET UserIds]],
         NEW n, NEW action, NEW r \in Rooms, NEW u \in UserIds
  PROVE  Heard(n, action, r, u) \in [Sessions -> [Rooms -> SUBSET UserIds]]
<1>1. ASSUME NEW s \in Sessions
      PROVE  [roster[s] EXCEPT ![r] = IF action = "join" THEN @ \cup {u} ELSE @ \ {u}]
               \in [Rooms -> SUBSET UserIds]
  OBVIOUS
<1> QED
  BY <1>1 DEF Heard

LEMMA TellType ==
  ASSUME TypeOK, NEW n \in Nodes, NEW action, NEW r \in Rooms, NEW u \in UserIds,
         Tell(n, action, r, u)
  PROVE  /\ roster' \in [Sessions -> [Rooms -> SUBSET UserIds]]
         /\ mistold' \in SUBSET (Nodes \X Rooms \X UserIds)
<1>1. roster' \in [Sessions -> [Rooms -> SUBSET UserIds]]
  BY HeardType DEF Tell, TypeOK
<1>2. mistold \in SUBSET (Nodes \X Rooms \X UserIds)
  BY DEF TypeOK
<1>3. mistold' = mistold \cup {<<n, r, u>>} \/ mistold' = mistold \ {<<n, r, u>>}
  BY DEF Tell
<1> QED
  BY <1>1, <1>2, <1>3

LEMMA TookOutType ==
  ASSUME TypeOK, NEW s \in Sessions, NEW r \in Rooms, TookOut(s, r)
  PROVE  late' \in SUBSET (Sessions \X Rooms) /\ ousted' \in SUBSET (Sessions \X Rooms)
<1>1. late \in SUBSET (Sessions \X Rooms) /\ ousted \in SUBSET (Sessions \X Rooms)
  BY DEF TypeOK
<1>2. SameUser(s) \in SUBSET Sessions
  BY DEF SameUser
<1> QED
  BY <1>1, <1>2 DEF TookOut

-----------------------------------------------------------------------------
\* Type correctness, action by action.

\* The threads of a session move on and nothing between nodes changes.
LEMMA ThreadStep ==
  ASSUME Typed, NEW s \in Sessions,
         \/ Connect(s) \/ Close(s) \/ Closed(s)
         \/ MergeMembers(s) \/ DeliverMembers(s)
         \/ JoinFailed(s) \/ NothingToLeave(s)
         \/ \E r \in Rooms : JoinRoom(s, r) \/ LeaveRoom(s, r)
  PROVE  Typed'
<1> USE RoomMembersAssumption
<1>1. /\ TypeOK /\ AboutARoom
      /\ NodeOf[s] \in Nodes
      /\ UNCHANGED nodes
      /\ UNCHANGED casts
  BY DEF Typed, Connect, Close, Closed, MergeMembers, DeliverMembers, JoinFailed,
         NothingToLeave, JoinRoom, LeaveRoom, server, nodes
<1>b. UNCHANGED history
  BY DEF Connect, Close, Closed, MergeMembers, DeliverMembers, JoinFailed, NothingToLeave,
         JoinRoom, LeaveRoom
<1>a. /\ step \in [Sessions -> {"none", "add", "joined", "merge", "deliver", "remove", "left"}]
      /\ room \in [Sessions -> Rooms \cup {NoRoom}]
      /\ merged \in [Sessions -> SUBSET UserIds]
      /\ subs \in [Sessions -> SUBSET Rooms]
      /\ requests \in Nat /\ requests <= MaxRequests
  BY <1>1 DEF TypeOK
<1>2. NoLoop(updates, joined)' /\ NoLoop(casts, joined)'
  BY <1>1 DEF Typed, NoLoop, nodes
<1>3. ASSUME Connect(s) \/ Closed(s)
      PROVE  TypeOK' /\ AboutARoom'
  BY <1>1, <1>b, <1>3
  DEF TypeOK, AboutARoom, Connect, Closed, server, nodes, client, handler, history
<1>4. ASSUME Close(s)
      PROVE  TypeOK' /\ AboutARoom'
  BY <1>1, <1>b, <1>4
  DEF TypeOK, AboutARoom, Close, server, nodes, handler, NoMembers, history
<1>5. ASSUME MergeMembers(s)
      PROVE  TypeOK' /\ AboutARoom'
  <2>1. Members(NodeOf[s], room[s]) \in SUBSET UserIds
    BY <1>1, <1>5 DEF MergeMembers, TypeOK, AboutARoom, Members
  <2>2. /\ merged' \in [Sessions -> SUBSET UserIds]
        /\ step' \in [Sessions -> {"none", "add", "joined", "merge", "deliver", "remove", "left"}]
        /\ room' \in [Sessions -> Rooms \cup {NoRoom}]
        /\ AboutARoom'
    <3>1. CASE room[s] \in lists[NodeOf[s]]
      BY <1>1, <1>a, <1>5, <2>1, <3>1 DEF AboutARoom, MergeMembers
    <3>2. CASE room[s] \notin lists[NodeOf[s]]
      BY <1>1, <1>a, <1>5, <2>1, <3>2 DEF AboutARoom, MergeMembers
    <3> QED
      BY <3>1, <3>2
  <2> QED
    BY <1>1, <1>b, <1>5, <2>2 DEF TypeOK, MergeMembers, server, nodes, client, removal, history
<1>6. ASSUME DeliverMembers(s)
      PROVE  TypeOK' /\ AboutARoom'
  <2>1. roster' \in [Sessions -> [Rooms -> SUBSET UserIds]]
    <3>1. room[s] \in Rooms /\ roster[s][room[s]] \in SUBSET UserIds /\ merged[s] \in SUBSET UserIds
      BY <1>1, <1>6 DEF DeliverMembers, TypeOK, AboutARoom
    <3> QED
      BY <1>1, <1>6, <3>1 DEF DeliverMembers, TypeOK
  <2> QED
    BY <1>1, <1>b, <1>6, <2>1
    DEF TypeOK, AboutARoom, DeliverMembers, server, nodes, removal, history
<1>7. ASSUME JoinFailed(s)
      PROVE  TypeOK' /\ AboutARoom'
  BY <1>1, <1>b, <1>7
  DEF TypeOK, AboutARoom, JoinFailed, server, nodes, client, removal, history
<1>8. ASSUME NothingToLeave(s)
      PROVE  TypeOK' /\ AboutARoom'
  <2>1. room[s] \in Rooms
    BY <1>1, <1>8 DEF NothingToLeave, AboutARoom
  <2> QED
    BY <1>1, <1>b, <1>8, <2>1
    DEF TypeOK, AboutARoom, NothingToLeave, server, nodes, removal, history
<1>9. ASSUME NEW r \in Rooms, JoinRoom(s, r) \/ LeaveRoom(s, r)
      PROVE  TypeOK' /\ AboutARoom'
  <2>1. requests' \in 0 .. MaxRequests
    <3>1. requests < MaxRequests /\ requests' = requests + 1
      BY <1>9 DEF JoinRoom, LeaveRoom
    <3> QED
      BY <1>a, <3>1
  <2>2. subs' \in [Sessions -> SUBSET Rooms]
    <3>1. \/ subs' = [subs EXCEPT ![s] = subs[s] \ {r}]
          \/ subs' = [subs EXCEPT ![s] = subs[s] \cup {r}]
      BY <1>9 DEF JoinRoom, LeaveRoom
    <3>2. subs[s] \cup {r} \in SUBSET Rooms /\ subs[s] \ {r} \in SUBSET Rooms
      BY <1>a
    <3> QED
      BY <1>a, <3>1, <3>2
  <2>3. /\ step' \in [Sessions -> {"none", "add", "joined", "merge", "deliver", "remove", "left"}]
        /\ room' \in [Sessions -> Rooms \cup {NoRoom}]
        /\ AboutARoom'
    <3>1. CASE step' = step /\ room' = room
      BY <1>1, <1>a, <3>1 DEF AboutARoom
    <3>2. CASE \E next \in {"add", "remove"} : /\ step' = [step EXCEPT ![s] = next]
                                             /\ room' = [room EXCEPT ![s] = r]
      BY <1>1, <1>a, <3>2 DEF AboutARoom
    <3> QED
      BY <1>9, <3>1, <3>2 DEF JoinRoom, LeaveRoom
  <2>4. UNCHANGED <<inRoom, merged, life, todo, leaving>>
    BY <1>9 DEF JoinRoom, LeaveRoom, removal
  <2>5. roster' \in [Sessions -> [Rooms -> SUBSET UserIds]]
    <3>1. roster \in [Sessions -> [Rooms -> SUBSET UserIds]]
      BY <1>1 DEF TypeOK
    <3>2. roster' = roster \/ roster' = [roster EXCEPT ![s][r] = {}]
      BY <1>9 DEF JoinRoom, LeaveRoom
    <3> QED
      BY <3>1, <3>2
  <2> QED
    BY <1>1, <1>b, <2>1, <2>2, <2>3, <2>4, <2>5 DEF TypeOK, nodes, history
<1> QED
  BY <1>2, <1>3, <1>4, <1>5, <1>6, <1>7, <1>8, <1>9 DEF Typed

\* A thread adds or removes a member.
LEMMA UpdateStep ==
  ASSUME Typed, NEW s \in Sessions,
         AddMember(s) \/ RemoveMember(s) \/ \E r \in Rooms : RemoveFrom(s, r)
  PROVE  Typed'
<1>1. PICK r \in Rooms, type \in {"add", "remove"} : Update(s, type, r)
  BY DEF Typed, AboutARoom, AddMember, RemoveMember, RemoveFrom
<1>2. /\ copies' \in [Nodes -> [Nodes -> [Rooms -> SUBSET UserIds]]]
      /\ updates' \in LinksOf(Updates)
      /\ \A n \in Nodes : updates'[n][n] = updates[n][n]
  BY <1>1, UpdateType
<1>3. UNCHANGED <<lists, joined, requests, partings, casts, subs, roster, inRoom, merged, room>>
  BY DEF AddMember, RemoveMember, RemoveFrom, client, handler
<1>4. /\ step' \in [Sessions -> {"none", "add", "joined", "merge", "deliver", "remove", "left"}]
      /\ \A t \in Sessions : step'[t] # "none" => step[t] # "none"
      /\ life' = life
      /\ todo' \in [Sessions -> SUBSET Rooms]
      /\ leaving' \in [Sessions -> Rooms \cup {NoRoom}]
  <2>1. CASE AddMember(s)
    BY <2>1 DEF Typed, TypeOK, AddMember, removal
  <2>2. CASE RemoveMember(s)
    BY <2>2 DEF Typed, TypeOK, RemoveMember, removal
  <2>3. ASSUME NEW q \in Rooms, RemoveFrom(s, q)
        PROVE  /\ step' = step
               /\ life' = life
               /\ todo' \in [Sessions -> SUBSET Rooms]
               /\ leaving' \in [Sessions -> Rooms \cup {NoRoom}]
    BY <2>3 DEF Typed, TypeOK, RemoveFrom, handler
  <2> QED
    BY <2>1, <2>2, <2>3 DEF Typed, TypeOK
<1>6. /\ late' \in SUBSET (Sessions \X Rooms)
      /\ ousted' \in SUBSET (Sessions \X Rooms)
      /\ mistold' = mistold
  <2>0. /\ late \in SUBSET (Sessions \X Rooms)
        /\ ousted \in SUBSET (Sessions \X Rooms)
        /\ step[s] # "none" => room[s] \in Rooms
    BY DEF Typed, TypeOK, AboutARoom
  <2>1. CASE AddMember(s)
    <3>1. room[s] \in Rooms
      BY <2>0, <2>1 DEF AddMember
    <3>2. late' = late \/ late' = late \cup {<<s, room[s]>>}
      BY <2>1 DEF AddMember
    <3>3. ousted' \subseteq ousted /\ mistold' = mistold
      BY <2>1 DEF AddMember
    <3> QED
      BY <2>0, <3>1, <3>2, <3>3
  <2>2. CASE RemoveMember(s)
    BY <2>0, <2>2, TookOutType DEF RemoveMember, Typed
  <2>3. ASSUME NEW q \in Rooms, RemoveFrom(s, q)
        PROVE  /\ late' \in SUBSET (Sessions \X Rooms)
               /\ ousted' \in SUBSET (Sessions \X Rooms)
               /\ mistold' = mistold
    BY <2>3, TookOutType DEF RemoveFrom, Typed
  <2> QED
    BY <2>1, <2>2, <2>3
<1>5. TypeOK'
  BY <1>2, <1>3, <1>4, <1>6 DEF Typed, TypeOK, LinksOf
<1> QED
  BY <1>2, <1>3, <1>4, <1>5 DEF Typed, AboutARoom, NoLoop

\* A thread broadcasts a change.
LEMMA BroadcastStep ==
  ASSUME Typed, NEW s \in Sessions,
         BroadcastJoin(s) \/ BroadcastLeave(s) \/ BroadcastRemoval(s)
  PROVE  Typed'
<1> USE RoomMembersAssumption
<1>0. /\ TypeOK /\ AboutARoom /\ UserOf[s] \in UserIds /\ NodeOf[s] \in Nodes
      /\ UNCHANGED server
  BY DEF Typed, BroadcastJoin, BroadcastLeave, BroadcastRemoval
<1>1. PICK r \in Rooms, action \in {"join", "leave"} : Broadcast(s, action, r)
  BY <1>0 DEF TypeOK, AboutARoom, BroadcastJoin, BroadcastLeave, BroadcastRemoval
<1>2. casts' \in LinksOf(Casts) /\ \A n \in Nodes : casts'[n][n] = casts[n][n]
  BY <1>1, BroadcastType
<1>3. ASSUME NEW q \in Rooms, NEW a, Tell(NodeOf[s], a, q, UserOf[s])
      PROVE  /\ roster' \in [Sessions -> [Rooms -> SUBSET UserIds]]
             /\ mistold' \in SUBSET (Nodes \X Rooms \X UserIds)
  BY <1>0, <1>3, TellType
<1>4. ASSUME BroadcastJoin(s)
      PROVE  TypeOK' /\ AboutARoom'
  <2>1. room[s] \in Rooms
    BY <1>0, <1>4 DEF BroadcastJoin, AboutARoom
  <2>2. /\ roster' \in [Sessions -> [Rooms -> SUBSET UserIds]]
        /\ mistold' \in SUBSET (Nodes \X Rooms \X UserIds)
    BY <1>3, <1>4, <2>1 DEF BroadcastJoin
  <2> QED
    BY <1>0, <1>2, <1>4, <2>1, <2>2
    DEF TypeOK, AboutARoom, BroadcastJoin, server, nodes, removal, LinksOf
<1>5. ASSUME BroadcastLeave(s)
      PROVE  TypeOK' /\ AboutARoom'
  <2>1. room[s] \in Rooms
    BY <1>0, <1>5 DEF BroadcastLeave, AboutARoom
  <2>2. /\ roster' \in [Sessions -> [Rooms -> SUBSET UserIds]]
        /\ mistold' \in SUBSET (Nodes \X Rooms \X UserIds)
    BY <1>3, <1>5, <2>1 DEF BroadcastLeave
  <2> QED
    BY <1>0, <1>2, <1>5, <2>1, <2>2
    DEF TypeOK, AboutARoom, BroadcastLeave, server, nodes, removal, LinksOf
<1>6. ASSUME BroadcastRemoval(s)
      PROVE  TypeOK' /\ AboutARoom'
  <2>1. leaving[s] \in Rooms
    BY <1>0, <1>6 DEF BroadcastRemoval, TypeOK
  <2>2. /\ roster' \in [Sessions -> [Rooms -> SUBSET UserIds]]
        /\ mistold' \in SUBSET (Nodes \X Rooms \X UserIds)
    BY <1>3, <1>6, <2>1 DEF BroadcastRemoval
  <2> QED
    BY <1>0, <1>2, <1>6, <2>1, <2>2
    DEF TypeOK, AboutARoom, BroadcastRemoval, server, nodes, handler, LinksOf
<1>7. NoLoop(updates, joined)' /\ NoLoop(casts, joined)'
  BY <1>0, <1>2 DEF Typed, NoLoop, server, nodes
<1> QED
  BY <1>4, <1>5, <1>6, <1>7 DEF Typed

\* A node processes what another one sent.
LEMMA ReceiveUpdateStep ==
  ASSUME Typed, NEW m \in Nodes, NEW n \in Nodes, ReceiveUpdate(m, n)
  PROVE  Typed'
<1> DEFINE msg == Head(updates[m][n])
           rest == Consume(updates, m, n)
           kept == lists[n] \ Destroyed(msg, m, n)
           created == Created(msg, m, n)
<1>0. /\ TypeOK
      /\ updates \in LinksOf(Updates)
      /\ NoLoop(updates, joined)
  BY DEF Typed, TypeOK, LinksOf
<1>1. m # n /\ updates[m][n] # <<>>
  BY <1>0 DEF ReceiveUpdate, NoLoop
<1>2. /\ msg \in Updates
      /\ rest \in LinksOf(Updates)
      /\ \A a \in Nodes : rest[a][a] = updates[a][a]
  BY <1>0, <1>1, ConsumeLinks
<1>3. kept \in SUBSET Rooms /\ created \in SUBSET Rooms
  BY <1>0 DEF TypeOK, Created, Destroyed
<1>4. lists' \in [Nodes -> SUBSET Rooms]
  BY <1>0, <1>3 DEF TypeOK, ReceiveUpdate
<1>5. copies' \in [Nodes -> [Nodes -> [Rooms -> SUBSET UserIds]]]
  <2> DEFINE New(k, r) == IF r \notin kept THEN {}
                          ELSE IF k = m THEN Applied(msg, r, copies[n][k][r])
                          ELSE copies[n][k][r]
  <2>1. ASSUME NEW k \in Nodes, NEW r \in Rooms
        PROVE  New(k, r) \in SUBSET UserIds
    <3>1. copies[n][k][r] \in SUBSET UserIds
      BY <1>0 DEF TypeOK
    <3>2. Applied(msg, r, copies[n][k][r]) \in SUBSET UserIds
      BY <1>2, <3>1, AppliedType
    <3> QED
      BY <3>1, <3>2
  <2>2. copies' = [copies EXCEPT ![n] = [k \in Nodes |-> [r \in Rooms |-> New(k, r)]]]
    BY DEF ReceiveUpdate
  <2> HIDE DEF New
  <2> QED
    BY <1>0, <2>1, <2>2 DEF TypeOK
<1>6. /\ updates' \in LinksOf(Updates)
      /\ \A a \in Nodes : updates'[a][a] = updates[a][a]
  <2>1. n \notin joined[n] /\ NoMembers \in [Rooms -> SUBSET UserIds]
    BY <1>0 DEF NoLoop, NoMembers
  <2> DEFINE pulling == [type |-> "object", rooms |-> created, parts |-> NoMembers, pull |-> TRUE]
             answer == Parts(n, msg.rooms \cap lists[n], FALSE)
  <2>2. CASE created # {}
    <3>1. pulling \in Updates
      BY <1>3, <2>1, MessageKinds
    <3>2. updates' = Publish(rest, n, joined[n], pulling)
      BY <2>2 DEF ReceiveUpdate
    <3> HIDE DEF pulling, rest
    <3> QED
      BY <1>2, <2>1, <3>1, <3>2, PublishLinks
  <2>3. CASE created = {} /\ msg.type = "object" /\ msg.pull
    <3>1. answer \in Updates
      <4> DEFINE R == msg.rooms \cap lists[n]
                 P == [r \in Rooms |-> IF r \in R THEN Own(n, r) ELSE {}]
      <4>1. R \in SUBSET Rooms
        BY <1>0 DEF TypeOK
      <4>2. P \in [Rooms -> SUBSET UserIds]
        BY <1>0 DEF TypeOK, Own
      <4>3. answer = [type |-> "object", rooms |-> R, parts |-> P, pull |-> FALSE]
        BY DEF Parts
      <4> HIDE DEF R, P, answer
      <4> QED
        BY <4>1, <4>2, <4>3, MessageKinds
    <3>2. updates' = Publish(rest, n, joined[n] \cap {m}, answer)
      BY <2>3 DEF ReceiveUpdate
    <3> HIDE DEF answer, rest
    <3> QED
      BY <1>2, <2>1, <3>1, <3>2, PublishLinks
  <2>4. CASE created = {} /\ ~ (msg.type = "object" /\ msg.pull)
    <3>1. updates' = rest
      BY <2>4 DEF ReceiveUpdate
    <3> QED
      BY <1>2, <3>1
  <2> QED
    BY <2>2, <2>3, <2>4
<1>7. UNCHANGED <<joined, requests, partings, life, todo, leaving, step, room, merged,
                  casts, subs, roster, inRoom, mistold>>
  BY DEF ReceiveUpdate, removal, handler, client
<1>9. late' \in SUBSET (Sessions \X Rooms) /\ ousted' \in SUBSET (Sessions \X Rooms)
  <2> DEFINE emptied == {s \in Sessions : NodeOf[s] = n} \X Destroyed(msg, m, n)
  <2>1. late' = late \ emptied /\ ousted' = ousted \cup emptied
    BY DEF ReceiveUpdate
  <2>2. Destroyed(msg, m, n) \in SUBSET Rooms
    BY <1>0 DEF Destroyed, TypeOK
  <2>3. emptied \in SUBSET (Sessions \X Rooms)
    BY <2>2
  <2> HIDE DEF emptied
  <2> QED
    BY <1>0, <2>1, <2>3 DEF TypeOK
<1>8. TypeOK'
  BY <1>0, <1>4, <1>5, <1>6, <1>7, <1>9 DEF TypeOK, LinksOf
<1> QED
  BY <1>6, <1>7, <1>8 DEF Typed, AboutARoom, NoLoop

LEMMA LinkStep ==
  ASSUME Typed, NEW m \in Nodes, NEW n \in Nodes,
         ReceiveCast(m, n) \/ NodesPart(m, n) \/ NodesJoin(m, n)
  PROVE  Typed'
<1>0. /\ TypeOK /\ AboutARoom
      /\ updates \in LinksOf(Updates) /\ casts \in LinksOf(Casts)
      /\ joined \in [Nodes -> SUBSET Nodes]
      /\ NoLoop(updates, joined) /\ NoLoop(casts, joined)
  BY DEF Typed, TypeOK, LinksOf
<1>1. CASE ReceiveCast(m, n)
  <2>1. casts[m][n] # <<>> /\ m # n
    BY <1>0, <1>1 DEF ReceiveCast, NoLoop
  <2>2. /\ casts' \in LinksOf(Casts) /\ Head(casts[m][n]) \in Casts
        /\ \A a \in Nodes : casts'[a][a] = casts[a][a]
    BY <1>0, <1>1, <2>1, ConsumeLinks DEF ReceiveCast
  <2>3. /\ roster' \in [Sessions -> [Rooms -> SUBSET UserIds]]
        /\ mistold' \in SUBSET (Nodes \X Rooms \X UserIds)
    <3>1. Head(casts[m][n]).room \in Rooms /\ Head(casts[m][n]).user \in UserIds
      BY <2>2 DEF Casts
    <3> QED
      BY <1>0, <1>1, <3>1, TellType DEF ReceiveCast
  <2>4. UNCHANGED <<life, todo, leaving, step, room, merged, lists, copies, updates, joined,
                    partings, requests, subs, inRoom, late, ousted>>
    BY <1>1 DEF ReceiveCast, removal, handler, server, nodes
  <2> QED
    BY <1>0, <2>2, <2>3, <2>4 DEF Typed, TypeOK, AboutARoom, NoLoop, LinksOf
<1>2. CASE NodesPart(m, n)
  <2> DEFINE left == [type |-> "left"]
  <2>1. /\ m # n /\ left \in Updates
        /\ updates' = Sever(updates, m, n, left)
        /\ joined' = Part(joined, m, n)
        /\ casts' = [casts EXCEPT ![m][n] = <<>>, ![n][m] = <<>>]
        /\ partings' \in 0 .. MaxPartings
    BY <1>0, <1>2, MessageKinds, RoomMembersAssumption DEF NodesPart, NoLoop, TypeOK
  <2>2. UNCHANGED <<life, todo, leaving, step, room, merged, lists, copies, requests,
                    subs, roster, inRoom, late, ousted, mistold>>
    BY <1>2 DEF NodesPart, removal, handler, client, history
  <2>3. casts' \in LinksOf(Casts) /\ \A a \in Nodes : casts[a][a] = <<>> => casts'[a][a] = <<>>
    <3>1. <<>> \in Seq(Casts)
      OBVIOUS
    <3>2. casts' = [casts EXCEPT ![m][n] = <<>>, ![n][m] = <<>>]
      BY <2>1
    <3>3. casts \in [Nodes -> [Nodes -> Seq(Casts)]]
      BY <1>0 DEF LinksOf
    <3>4. casts' \in [Nodes -> [Nodes -> Seq(Casts)]]
      BY <3>1, <3>2, <3>3
    <3>5. \A a \in Nodes : casts'[a][a] = casts[a][a]
      BY <2>1, <3>2, <3>3
    <3> QED
      BY <3>4, <3>5 DEF LinksOf
  <2> HIDE DEF left
  <2>4. updates' \in LinksOf(Updates)
    BY <1>0, <2>1, SeverLinks
  <2>5. ASSUME NEW a \in Nodes
        PROVE  updates'[a][a] = updates[a][a]
    <3>1. updates'[a][a] = IF (a = m /\ a = n) \/ (a = n /\ a = m) THEN <<left>> ELSE updates[a][a]
      BY <1>0, <2>1, SeverLinks
    <3> QED
      BY <2>1, <3>1
  <2>6. /\ joined' \in [Nodes -> SUBSET Nodes]
        /\ \A a \in Nodes : a \in joined'[a] <=> a \in joined[a]
    BY <1>0, <2>1, JoinedNodes
  <2>7. TypeOK'
    BY <1>0, <2>1, <2>2, <2>3, <2>4, <2>6 DEF TypeOK, LinksOf
  <2> QED
    BY <1>0, <2>2, <2>3, <2>5, <2>6, <2>7 DEF Typed, AboutARoom, NoLoop
<1>3. CASE NodesJoin(m, n)
  <2> DEFINE found == [type |-> "found"]
             ofM == Parts(m, lists[m], FALSE)
             ofN == Parts(n, lists[n], FALSE)
             links == Exchange(updates, m, n, found, found)
  <2>1. /\ m # n /\ found \in Updates
        /\ updates' = Exchange(links, m, n, ofM, ofN)
        /\ joined' = Join(joined, m, n)
    BY <1>3, MessageKinds DEF NodesJoin
  <2>2. UNCHANGED <<life, todo, leaving, step, room, merged, lists, copies, requests, casts,
                    subs, roster, inRoom, partings, late, ousted, mistold>>
    BY <1>3 DEF NodesJoin, removal, handler, client, history
  <2>3. \A k \in Nodes : Parts(k, lists[k], FALSE) \in Updates
    <3> SUFFICES ASSUME NEW k \in Nodes
                 PROVE  Parts(k, lists[k], FALSE) \in Updates
      OBVIOUS
    <3> DEFINE P == [r \in Rooms |-> IF r \in lists[k] THEN Own(k, r) ELSE {}]
    <3>1. lists[k] \in SUBSET Rooms
      BY <1>0 DEF TypeOK
    <3>3. copies[k][k] \in [Rooms -> SUBSET UserIds]
      BY <1>0 DEF TypeOK
    <3>4. P \in [Rooms -> SUBSET UserIds]
      BY <3>3 DEF Own
    <3>2. Parts(k, lists[k], FALSE)
            = [type |-> "object", rooms |-> lists[k], parts |-> P, pull |-> FALSE]
      BY DEF Parts
    <3> HIDE DEF P
    <3> QED
      BY <3>1, <3>2, <3>4, MessageKinds
  <2>4. ofM \in Updates /\ ofN \in Updates
    BY <2>3
  <2> HIDE DEF ofM, ofN, found
  <2>5. links \in LinksOf(Updates) /\ \A a \in Nodes : links[a][a] = updates[a][a]
    BY <1>0, <2>1, ExchangeLinks
  <2> HIDE DEF links
  <2>6. updates' \in LinksOf(Updates) /\ \A a \in Nodes : updates'[a][a] = updates[a][a]
    BY SMTT(30), <2>1, <2>4, <2>5, ExchangeLinks
  <2>7. /\ joined' \in [Nodes -> SUBSET Nodes]
        /\ \A a \in Nodes : a \in joined'[a] <=> a \in joined[a]
    BY <1>0, <2>1, JoinedNodes
  <2> QED
    BY <1>0, <2>2, <2>6, <2>7 DEF Typed, TypeOK, AboutARoom, NoLoop, LinksOf
<1> QED
  BY <1>1, <1>2, <1>3

LEMMA TypedStep == Typed /\ [Next]_vars => Typed'
<1>1. ASSUME Typed, UNCHANGED vars
      PROVE  Typed'
  BY <1>1 DEF Typed, TypeOK, AboutARoom, NoLoop, vars
<1> QED
  BY <1>1, ThreadStep, UpdateStep, BroadcastStep, ReceiveUpdateStep, LinkStep DEF Next, Step

LEMMA TypedAlways == Spec => []Typed
<1>1. ASSUME Init
      PROVE  Typed
  <2>1. /\ updates \in LinksOf(Updates) /\ casts \in LinksOf(Casts)
        /\ joined \in [Nodes -> SUBSET Nodes]
        /\ NoLoop(updates, joined) /\ NoLoop(casts, joined)
    BY <1>1, InitialLinks DEF Init
  <2>2. NoMembers \in [Rooms -> SUBSET UserIds]
    BY DEF NoMembers
  <2>3. TypeOK
    BY <1>1, <2>1, <2>2, RoomMembersAssumption DEF Init, TypeOK, LinksOf
  <2> QED
    BY <1>1, <2>1, <2>3 DEF Init, Typed, AboutARoom
<1> QED
  BY <1>1, TypedStep, PTL DEF Spec

\* Every state of the members lists is well typed.
THEOREM TypeCorrect == Spec => []TypeOK
  BY TypedAlways, PTL DEF Typed

-----------------------------------------------------------------------------
\* No ghosts but those of a late join.  A list that is not there is empty, so
\* the rooms sessionRemoved looks at are all that matter.
NoListNoMembers ==
  \A n, k \in Nodes, r \in Rooms : r \notin lists[n] => copies[n][k][r] = {}

GhostInv == Typed /\ NoListNoMembers /\ GhostsJoinedLate

\* The steps that touch neither the lists nor the lives of the sessions.
LEMMA GhostIdle ==
  ASSUME GhostInv, UNCHANGED <<life, todo, lists, copies, late>>
  PROVE  NoListNoMembers' /\ GhostsJoinedLate'
  BY DEF GhostInv, NoListNoMembers, GhostsJoinedLate, Own, RemovalAhead

\* A session accounts for the entry of user u in the part of node n.
Backs(t, n, r, u) ==
  NodeOf[t] = n /\ UserOf[t] = u /\ (RemovalAhead(t, r) \/ <<t, r>> \in late)

LEMMA GhostLives ==
  ASSUME GhostInv, NEW s \in Sessions, Connect(s) \/ Close(s) \/ Closed(s)
  PROVE  NoListNoMembers' /\ GhostsJoinedLate'
<1>0. /\ life \in [Sessions -> {"new", "open", "closing", "gone"}]
      /\ todo \in [Sessions -> SUBSET Rooms]
      /\ UNCHANGED <<lists, copies, late>>
  BY DEF GhostInv, Typed, TypeOK, Connect, Close, Closed, server, nodes, history
<1>1. NoListNoMembers'
  BY <1>0 DEF GhostInv, NoListNoMembers
<1>2. ASSUME NEW n \in Nodes, NEW r \in Rooms, NEW u \in Own(n, r)
      PROVE  \E t \in Sessions : Backs(t, n, r, u)'
  <2>1. PICK t \in Sessions : Backs(t, n, r, u)
    BY DEF GhostInv, GhostsJoinedLate, Backs
  <2>2. r \in lists[n]
    BY DEF GhostInv, NoListNoMembers, Own
  <2>3. CASE t # s
    BY <1>0, <2>1, <2>3 DEF Backs, RemovalAhead, Connect, Close, Closed
  <2>4. CASE t = s /\ <<t, r>> \notin late
    <3>1. Close(s)
      BY <2>1, <2>4 DEF Backs, RemovalAhead, Connect, Closed
    <3> QED
      BY <1>0, <2>1, <2>2, <2>4, <3>1 DEF Backs, RemovalAhead, Close
  <2>5. CASE <<t, r>> \in late
    BY <1>0, <2>1, <2>5 DEF Backs
  <2> QED
    BY <2>3, <2>4, <2>5
<1> QED
  BY <1>0, <1>1, <1>2 DEF GhostsJoinedLate, Own, Backs

LEMMA GhostUpdates ==
  ASSUME GhostInv, NEW s \in Sessions,
         AddMember(s) \/ RemoveMember(s) \/ \E r \in Rooms : RemoveFrom(s, r)
  PROVE  NoListNoMembers' /\ GhostsJoinedLate'
<1>0. /\ Typed /\ lists' = lists /\ life' = life
      /\ todo \in [Sessions -> SUBSET Rooms]
      /\ NodeOf[s] \in Nodes
  BY RoomMembersAssumption DEF GhostInv, Typed, TypeOK, AddMember, RemoveMember, RemoveFrom,
                               removal
<1>1. PICK r \in Rooms, type \in {"add", "remove"} :
        /\ Update(s, type, r)
        /\ \/ /\ type = "add" /\ todo' = todo
              /\ late' = IF RemovalAhead(s, r) THEN late ELSE late \cup {<<s, r>>}
           \/ /\ type = "remove" /\ TookOut(s, r)
              /\ todo' = todo \/ todo' = [todo EXCEPT ![s] = @ \ {r}]
  <2>0. step[s] # "none" => room[s] \in Rooms
    BY <1>0 DEF Typed, AboutARoom
  <2>1. CASE AddMember(s)
    <3>1. /\ Update(s, "add", room[s]) /\ todo' = todo /\ step[s] = "add"
          /\ late' = IF RemovalAhead(s, room[s]) THEN late ELSE late \cup {<<s, room[s]>>}
      BY <2>1 DEF AddMember, removal
    <3>2. room[s] \in Rooms
      BY <2>0, <3>1
    <3> QED
      BY <3>1, <3>2
  <2>2. CASE RemoveMember(s)
    <3>1. /\ Update(s, "remove", room[s]) /\ todo' = todo /\ step[s] = "remove"
          /\ TookOut(s, room[s])
      BY <2>2 DEF RemoveMember, removal
    <3>2. room[s] \in Rooms
      BY <2>0, <3>1
    <3> QED
      BY <3>1, <3>2
  <2>3. ASSUME NEW q \in Rooms, RemoveFrom(s, q)
        PROVE  /\ Update(s, "remove", q) /\ todo' = [todo EXCEPT ![s] = @ \ {q}]
               /\ TookOut(s, q)
    BY <2>3 DEF RemoveFrom
  <2> QED
    BY <2>1, <2>2, <2>3
<1>2. \A n, k \in Nodes, q \in Rooms :
        copies'[n][k][q] =
          IF n = NodeOf[s] /\ k = n /\ q = r /\ r \in lists[n]
          THEN Updated(type, copies[n][k][q], UserOf[s])
          ELSE copies[n][k][q]
  BY <1>0, <1>1, UpdateType
<1>3. NoListNoMembers'
  <2> SUFFICES ASSUME NEW n \in Nodes, NEW k \in Nodes, NEW q \in Rooms, q \notin lists'[n]
               PROVE  copies'[n][k][q] = {}
    BY DEF NoListNoMembers
  <2>1. q \notin lists[n] /\ copies[n][k][q] = {}
    BY <1>0 DEF GhostInv, NoListNoMembers
  <2> QED
    BY <1>2, <2>1
<1>4. ASSUME NEW n \in Nodes, NEW q \in Rooms, NEW u \in Own(n, q)'
      PROVE  \E t \in Sessions : Backs(t, n, q, u)'
  <2>1. CASE type = "add" /\ n = NodeOf[s] /\ u = UserOf[s] /\ q = r
    <3>1. RemovalAhead(s, r)' <=> RemovalAhead(s, r)
      BY <1>0, <1>1, <2>1 DEF RemovalAhead
    <3>2. RemovalAhead(s, r)' \/ <<s, r>> \in late'
      BY <1>1, <2>1, <3>1
    <3> QED
      BY <2>1, <3>2 DEF Backs
  <2>2. CASE ~ (type = "add" /\ n = NodeOf[s] /\ u = UserOf[s] /\ q = r)
    <3>1. u \in Own(n, q)
      BY ZenonT(30), <1>2, <2>2 DEF Own, Updated
    <3>2. PICK t \in Sessions : Backs(t, n, q, u)
      BY <3>1 DEF GhostInv, GhostsJoinedLate, Backs
    <3>3. q \in lists[n]
      BY <3>1 DEF GhostInv, NoListNoMembers, Own
    <3>4. ~ (type = "remove" /\ q = r /\ n = NodeOf[s] /\ u = UserOf[s])
      BY <1>2, <3>2, <3>3 DEF Own, Updated
    <3>5. RemovalAhead(t, q) => RemovalAhead(t, q)'
      <4>1. CASE todo' = todo
        BY <1>0, <4>1 DEF RemovalAhead
      <4>2. CASE type = "remove" /\ todo' = [todo EXCEPT ![s] = @ \ {r}]
        <5>1. ~ (t = s /\ q = r)
          BY <3>2, <3>4, <4>2 DEF Backs
        <5> QED
          BY <1>0, <4>2, <5>1 DEF RemovalAhead
      <4> QED
        BY <1>1, <4>1, <4>2
    <3>6. <<t, q>> \in late => <<t, q>> \in late'
      <4>1. CASE type = "add"
        BY <1>1, <4>1
      <4>2. CASE type = "remove"
        <5>1. ~ (t \in SameUser(s) /\ q = r)
          BY <3>2, <3>4, <4>2 DEF Backs, SameUser
        <5> QED
          BY <1>1, <4>2, <5>1 DEF TookOut
      <4> QED
        BY <4>1, <4>2
    <3> QED
      BY <3>2, <3>5, <3>6 DEF Backs
  <2> QED
    BY <2>1, <2>2
<1> QED
  BY <1>3, <1>4 DEF GhostsJoinedLate, Backs

LEMMA GhostReceive ==
  ASSUME GhostInv, NEW m \in Nodes, NEW n \in Nodes, ReceiveUpdate(m, n)
  PROVE  NoListNoMembers' /\ GhostsJoinedLate'
<1> DEFINE msg == Head(updates[m][n])
           kept == lists[n] \ Destroyed(msg, m, n)
           created == Created(msg, m, n)
<1>0. /\ copies \in [Nodes -> [Nodes -> [Rooms -> SUBSET UserIds]]]
      /\ lists \in [Nodes -> SUBSET Rooms]
      /\ m # n
      /\ UNCHANGED <<life, todo>>
  BY DEF GhostInv, Typed, TypeOK, NoLoop, ReceiveUpdate, removal
<1>1. lists' = [lists EXCEPT ![n] = kept \cup created]
  BY DEF ReceiveUpdate
<1>2. \A a, k \in Nodes, r \in Rooms :
        copies'[a][k][r] = IF a # n THEN copies[a][k][r]
                           ELSE IF r \notin kept THEN {}
                           ELSE IF k = m THEN Applied(msg, r, copies[a][k][r])
                           ELSE copies[a][k][r]
  BY <1>0 DEF ReceiveUpdate
<1>6. late' = late \ ({t \in Sessions : NodeOf[t] = n} \X Destroyed(msg, m, n))
  BY DEF ReceiveUpdate
<1>7. \A r \in Rooms : r \in Destroyed(msg, m, n) => r \notin kept
  OBVIOUS
<1> HIDE DEF msg, kept, created
<1>3. NoListNoMembers'
  BY <1>0, <1>1, <1>2 DEF GhostInv, NoListNoMembers
<1>4. \A a \in Nodes, r \in Rooms : Own(a, r)' \subseteq Own(a, r)
  <2> SUFFICES ASSUME NEW a \in Nodes, NEW r \in Rooms
               PROVE  copies'[a][a][r] \subseteq copies[a][a][r]
    BY DEF Own
  <2>1. copies'[a][a][r] = copies[a][a][r] \/ copies'[a][a][r] = {}
    <3>1. CASE a # n
      BY <1>2, <3>1
    <3>2. CASE a = n /\ r \notin kept
      BY <1>2, <3>2
    <3>3. CASE a = n /\ r \in kept
      BY <1>0, <1>2, <3>3
    <3> QED
      BY <3>1, <3>2, <3>3
  <2> QED
    BY <2>1
<1>5. ASSUME NEW a \in Nodes, NEW r \in Rooms, NEW u \in Own(a, r)'
      PROVE  \E t \in Sessions : Backs(t, a, r, u)'
  <2>0. u \in Own(a, r)
    BY <1>4
  <2>1. PICK t \in Sessions : Backs(t, a, r, u)
    BY <2>0 DEF GhostInv, GhostsJoinedLate, Backs
  <2>2. <<t, r>> \in late => <<t, r>> \in late'
    <3>1. ~ (a = n /\ r \in Destroyed(msg, m, n))
      BY <1>2, <1>7 DEF Own
    <3> QED
      BY <1>6, <2>1, <3>1 DEF Backs
  <2> QED
    BY <1>0, <2>1, <2>2 DEF Backs, RemovalAhead
<1> QED
  BY <1>3, <1>5 DEF GhostsJoinedLate, Backs

LEMMA GhostStep ==
  ASSUME GhostInv, [Next]_vars
  PROVE  NoListNoMembers' /\ GhostsJoinedLate'
<1>1. ASSUME NEW s \in Sessions,
             \/ BroadcastJoin(s) \/ MergeMembers(s) \/ DeliverMembers(s)
             \/ BroadcastLeave(s) \/ BroadcastRemoval(s)
             \/ JoinFailed(s) \/ NothingToLeave(s)
             \/ \E r \in Rooms : JoinRoom(s, r) \/ LeaveRoom(s, r)
      PROVE  UNCHANGED <<life, todo, lists, copies, late>>
  BY <1>1 DEF BroadcastJoin, MergeMembers, DeliverMembers, BroadcastLeave, BroadcastRemoval,
              JoinFailed, NothingToLeave, JoinRoom, LeaveRoom, removal, server, nodes, history
<1>2. ASSUME NEW m \in Nodes, NEW n \in Nodes,
             ReceiveCast(m, n) \/ NodesPart(m, n) \/ NodesJoin(m, n)
      PROVE  UNCHANGED <<life, todo, lists, copies, late>>
  BY <1>2 DEF ReceiveCast, NodesPart, NodesJoin, removal, server, nodes, history
<1>3. UNCHANGED vars => UNCHANGED <<life, todo, lists, copies, late>>
  BY DEF vars
<1> QED
  BY <1>1, <1>2, <1>3, GhostIdle, GhostLives, GhostUpdates, GhostReceive DEF Next, Step

\* Whoever is a member of a room has a session that is there or is being
\* removed from that very room, or was added by a join that was late.
THEOREM NoOtherGhosts == Spec => []GhostsJoinedLate
<1>1. Init => NoListNoMembers /\ GhostsJoinedLate
  BY DEF Init, NoListNoMembers, GhostsJoinedLate, Own, NoMembers
<1>2. Typed /\ NoListNoMembers /\ GhostsJoinedLate /\ [Next]_vars
        => NoListNoMembers' /\ GhostsJoinedLate'
  BY GhostStep DEF GhostInv
<1> QED
  BY <1>1, <1>2, TypedAlways, PTL DEF Spec

-----------------------------------------------------------------------------
\* What the steps do to the queues between nodes.

Message(type, s, r) == [type |-> type, room |-> r, user |-> UserOf[s]]

LEMMA UpdateEffect ==
  ASSUME Typed, NEW s \in Sessions, NEW r \in Rooms, NEW type \in {"add", "remove"},
         Update(s, type, r)
  PROVE  /\ Message(type, s, r) \in Updates
         /\ \A a, b \in Nodes : updates'[a][b] =
              IF a = NodeOf[s] /\ b \in joined[a] /\ r \in lists[a]
              THEN Append(updates[a][b], Message(type, s, r)) ELSE updates[a][b]
<1> DEFINE n == NodeOf[s]
           msg == Message(type, s, r)
<1>1. updates \in LinksOf(Updates) /\ n \in Nodes
  BY RoomMembersAssumption DEF Typed, TypeOK, LinksOf
<1>2. msg \in Updates
  BY RoomMembersAssumption DEF Updates, Message
<1>3. CASE r \in lists[n]
  <2>1. updates' = Publish(updates, n, joined[n], msg)
    BY <1>3 DEF Update, Message
  <2> HIDE DEF msg, n
  <2>2. \A a, b \in Nodes : Publish(updates, n, joined[n], msg)[a][b] =
          IF a = n /\ b \in joined[n] THEN Append(updates[a][b], msg) ELSE updates[a][b]
    BY <1>1, <1>2, PublishLinks
  <2>3. \A a, b \in Nodes : updates'[a][b] =
          IF a = n /\ b \in joined[a] /\ r \in lists[a]
          THEN Append(updates[a][b], msg) ELSE updates[a][b]
    BY <1>3, <2>1, <2>2
  <2> QED
    BY <1>2, <2>3 DEF msg, n
<1>4. CASE r \notin lists[n]
  <2>1. updates' = updates
    BY <1>4 DEF Update
  <2> QED
    BY <1>2, <1>4, <2>1
<1> QED
  BY <1>3, <1>4

Kept(msg, m, n) == lists[n] \ Destroyed(msg, m, n)

Pulling(R) == [type |-> "object", rooms |-> R, parts |-> NoMembers, pull |-> TRUE]

Answer(n, msg) == Parts(n, msg.rooms \cap lists[n], FALSE)

\* A node n takes the message msg of m: it asks everybody for the lists that it
\* creates, answers the sender or is silent.
Received(msg, m, n) ==
  /\ m # n /\ updates[m][n] # <<>> /\ updates[m][n] \in Seq(Updates)
  /\ msg \in Updates
  /\ Created(msg, m, n) \in SUBSET Rooms /\ Pulling(Created(msg, m, n)) \in Updates
  /\ \A a \in Nodes :
       lists'[a] = IF a = n THEN Kept(msg, m, n) \cup Created(msg, m, n) ELSE lists[a]
  /\ \A a, k \in Nodes, r \in Rooms :
       copies'[a][k][r] = IF a # n THEN copies[a][k][r]
                          ELSE IF r \notin Kept(msg, m, n) THEN {}
                          ELSE IF k = m THEN Applied(msg, r, copies[a][k][r])
                          ELSE copies[a][k][r]
  /\ \A a, b \in Nodes : a # n => updates'[a][b] =
       IF a = m /\ b = n THEN Tail(updates[a][b]) ELSE updates[a][b]
  /\ IF Created(msg, m, n) # {}
     THEN \A b \in Nodes : updates'[n][b] =
            IF b \in joined[n] THEN Append(updates[n][b], Pulling(Created(msg, m, n)))
            ELSE updates[n][b]
     ELSE IF msg.type = "object" /\ msg.pull
     THEN /\ Answer(n, msg) \in Updates
          /\ \A b \in Nodes : updates'[n][b] =
               IF b = m /\ b \in joined[n] THEN Append(updates[n][b], Answer(n, msg))
               ELSE updates[n][b]
     ELSE \A b \in Nodes : updates'[n][b] = updates[n][b]

LEMMA ReceiveEffect ==
  ASSUME Typed, NEW m \in Nodes, NEW n \in Nodes, ReceiveUpdate(m, n)
  PROVE  Received(Head(updates[m][n]), m, n)
<1> DEFINE msg == Head(updates[m][n])
           created == Created(msg, m, n)
           answer == Answer(n, msg)
           rest == Consume(updates, m, n)
           pulling == Pulling(created)
<1>0. /\ updates \in LinksOf(Updates) /\ NoLoop(updates, joined)
      /\ copies \in [Nodes -> [Nodes -> [Rooms -> SUBSET UserIds]]]
      /\ lists \in [Nodes -> SUBSET Rooms]
  BY DEF Typed, TypeOK, LinksOf
<1>1. m # n /\ updates[m][n] # <<>> /\ updates[m][n] \in Seq(Updates)
  BY <1>0 DEF ReceiveUpdate, NoLoop, LinksOf
<1>2. /\ msg \in Updates /\ rest \in LinksOf(Updates)
      /\ \A a, b \in Nodes : rest[a][b] =
           IF a = m /\ b = n THEN Tail(updates[a][b]) ELSE updates[a][b]
  BY <1>0, <1>1, ConsumeLinks
<1>3. created \in SUBSET Rooms
  BY DEF Created
<1>4. pulling \in Updates
  <2>1. NoMembers \in [Rooms -> SUBSET UserIds]
    BY DEF NoMembers
  <2> HIDE DEF created
  <2> QED
    BY <1>3, <2>1, MessageKinds DEF Pulling
<1>5. answer \in Updates
  <2> DEFINE R == msg.rooms \cap lists[n]
             P == [r \in Rooms |-> IF r \in R THEN Own(n, r) ELSE {}]
  <2>1. R \in SUBSET Rooms
    BY <1>0
  <2>2. P \in [Rooms -> SUBSET UserIds]
    BY <1>0 DEF Own
  <2>3. answer = [type |-> "object", rooms |-> R, parts |-> P, pull |-> FALSE]
    BY DEF Parts, Answer
  <2> HIDE DEF R, P, answer
  <2> QED
    BY <2>1, <2>2, <2>3, MessageKinds
<1>6. \A a \in Nodes : lists'[a] = IF a = n THEN Kept(msg, m, n) \cup created ELSE lists[a]
  BY <1>0 DEF ReceiveUpdate, Kept
<1>7. \A a, k \in Nodes, r \in Rooms :
        copies'[a][k][r] = IF a # n THEN copies[a][k][r]
                           ELSE IF r \notin Kept(msg, m, n) THEN {}
                           ELSE IF k = m THEN Applied(msg, r, copies[a][k][r])
                           ELSE copies[a][k][r]
  BY <1>0 DEF ReceiveUpdate, Kept
<1>8. updates' = IF created # {} THEN Publish(rest, n, joined[n], pulling)
                 ELSE IF msg.type = "object" /\ msg.pull
                 THEN Publish(rest, n, joined[n] \cap {m}, answer)
                 ELSE rest
  BY DEF ReceiveUpdate, Pulling, Answer
<1> DEFINE asker == joined[n] \cap {m}
<1>9. \A b : b \in asker <=> b = m /\ b \in joined[n]
  OBVIOUS
<1> HIDE DEF msg, created, answer, rest, pulling, asker
<1>10. \A a, b \in Nodes : Publish(rest, n, joined[n], pulling)[a][b] =
         IF a = n /\ b \in joined[n] THEN Append(rest[a][b], pulling) ELSE rest[a][b]
  BY <1>2, <1>4, PublishLinks
<1>11. \A a, b \in Nodes : Publish(rest, n, asker, answer)[a][b] =
         IF a = n /\ b \in asker THEN Append(rest[a][b], answer) ELSE rest[a][b]
  BY <1>2, <1>5, PublishLinks
<1>a. updates' = IF created # {} THEN Publish(rest, n, joined[n], pulling)
                 ELSE IF msg.type = "object" /\ msg.pull
                 THEN Publish(rest, n, asker, answer)
                 ELSE rest
  BY <1>8 DEF asker
<1>12. \A a, b \in Nodes : a # n => updates'[a][b] =
         IF a = m /\ b = n THEN Tail(updates[a][b]) ELSE updates[a][b]
  BY <1>2, <1>a, <1>10, <1>11
<1>13. \A b \in Nodes : rest[n][b] = updates[n][b]
  BY <1>1, <1>2
<1>14. IF created # {}
       THEN \A b \in Nodes : updates'[n][b] =
              IF b \in joined[n] THEN Append(updates[n][b], pulling) ELSE updates[n][b]
       ELSE IF msg.type = "object" /\ msg.pull
       THEN /\ answer \in Updates
            /\ \A b \in Nodes : updates'[n][b] =
                 IF b = m /\ b \in joined[n] THEN Append(updates[n][b], answer)
                 ELSE updates[n][b]
       ELSE \A b \in Nodes : updates'[n][b] = updates[n][b]
  <2>1. CASE created # {}
    BY <1>a, <1>10, <1>13, <2>1
  <2>2. CASE created = {} /\ msg.type = "object" /\ msg.pull
    BY <1>5, <1>9, <1>a, <1>11, <1>13, <2>2
  <2>3. CASE created = {} /\ ~ (msg.type = "object" /\ msg.pull)
    BY <1>a, <1>13, <2>3
  <2> QED
    BY <2>1, <2>2, <2>3
<1>15. Received(msg, m, n)
  BY <1>1, <1>2, <1>3, <1>4, <1>6, <1>7, <1>12, <1>14 DEF Received, created, answer, pulling
<1> QED
  BY <1>15 DEF msg

-----------------------------------------------------------------------------
\* A client is in a room only while its session is open.
InOpen == \A s \in Sessions : inRoom[s] # {} => life[s] = "open"

LEMMA OpenStep ==
  ASSUME Typed, InOpen, [Next]_vars
  PROVE  InOpen'
<1>0. /\ life \in [Sessions -> {"new", "open", "closing", "gone"}]
      /\ inRoom \in [Sessions -> SUBSET Rooms]
  BY DEF Typed, TypeOK
<1>1. ASSUME NEW s \in Sessions, Connect(s) \/ Close(s) \/ Closed(s)
      PROVE  InOpen'
  BY <1>0, <1>1 DEF InOpen, Connect, Close, Closed, client
<1>2. ASSUME life' = life,
             \A t \in Sessions : inRoom'[t] \subseteq inRoom[t] \/ life[t] = "open"
      PROVE  InOpen'
  BY <1>2 DEF InOpen
<1>3. ASSUME NEW s \in Sessions, NEW r \in Rooms, JoinRoom(s, r) \/ LeaveRoom(s, r)
      PROVE  InOpen'
  BY <1>2, <1>3 DEF JoinRoom, LeaveRoom, removal, client
<1>4. ASSUME NEW s \in Sessions,
             \/ AddMember(s) \/ MergeMembers(s) \/ DeliverMembers(s)
             \/ RemoveMember(s) \/ JoinFailed(s)
      PROVE  InOpen'
  BY <1>2, <1>4 DEF AddMember, MergeMembers, DeliverMembers, RemoveMember, JoinFailed,
                    removal, client
<1>5. ASSUME NEW s \in Sessions, BroadcastJoin(s) \/ BroadcastLeave(s) \/ NothingToLeave(s)
      PROVE  InOpen'
  <2>1. \A t \in Sessions : inRoom'[t] \subseteq inRoom[t] \/ life[t] = "open"
    BY <1>0, <1>5 DEF BroadcastJoin, BroadcastLeave, NothingToLeave
  <2> QED
    BY <1>2, <1>5, <2>1 DEF BroadcastJoin, BroadcastLeave, NothingToLeave, removal
<1>6. ASSUME NEW s \in Sessions, (\E r \in Rooms : RemoveFrom(s, r)) \/ BroadcastRemoval(s)
      PROVE  InOpen'
  BY <1>0, <1>6 DEF InOpen, RemoveFrom, BroadcastRemoval, client
<1>7. ASSUME NEW m \in Nodes, NEW n \in Nodes,
             \/ ReceiveUpdate(m, n) \/ ReceiveCast(m, n)
             \/ NodesPart(m, n) \/ NodesJoin(m, n)
      PROVE  InOpen'
  BY <1>2, <1>7 DEF ReceiveUpdate, ReceiveCast, NodesPart, NodesJoin, removal, client
<1>8. CASE UNCHANGED vars
  BY <1>2, <1>8 DEF vars
<1> QED
  BY <1>1, <1>3, <1>4, <1>5, <1>6, <1>7, <1>8 DEF Next, Step

-----------------------------------------------------------------------------
\* Who comes into and out of the part of a list that a node owns.

\* Nobody becomes a member but by AddMember.
LEMMA OwnGrows ==
  ASSUME Typed, [Next]_vars, NEW n \in Nodes, NEW r \in Rooms, NEW u \in Own(n, r)'
  PROVE  \/ u \in Own(n, r)
         \/ \E s \in Sessions : /\ AddMember(s) /\ room[s] = r
                                /\ NodeOf[s] = n /\ UserOf[s] = u
<1>0. AboutARoom /\ copies \in [Nodes -> [Nodes -> [Rooms -> SUBSET UserIds]]]
  BY DEF Typed, TypeOK
<1>1. ASSUME NEW s \in Sessions, AddMember(s)
      PROVE  u \in Own(n, r) \/ (room[s] = r /\ NodeOf[s] = n /\ UserOf[s] = u)
  <2>1. Update(s, "add", room[s]) /\ room[s] \in Rooms
    BY <1>0, <1>1 DEF AddMember, AboutARoom
  <2>2. copies'[n][n][r] = IF n = NodeOf[s] /\ n = n /\ r = room[s] /\ room[s] \in lists[n]
                           THEN Updated("add", copies[n][n][r], UserOf[s])
                           ELSE copies[n][n][r]
    BY <2>1, UpdateType
  <2> QED
    BY <2>2 DEF Own, Updated
<1>2. ASSUME NEW s \in Sessions, NEW q \in Rooms, Update(s, "remove", q)
      PROVE  u \in Own(n, r)
  <2>1. copies'[n][n][r] = IF n = NodeOf[s] /\ n = n /\ r = q /\ q \in lists[n]
                           THEN Updated("remove", copies[n][n][r], UserOf[s])
                           ELSE copies[n][n][r]
    BY <1>2, UpdateType
  <2> QED
    BY <2>1 DEF Own, Updated
<1>3. ASSUME NEW s \in Sessions, RemoveMember(s) \/ \E q \in Rooms : RemoveFrom(s, q)
      PROVE  u \in Own(n, r)
  BY <1>0, <1>2, <1>3 DEF RemoveMember, RemoveFrom, AboutARoom
<1>4. ASSUME NEW a \in Nodes, NEW b \in Nodes, ReceiveUpdate(a, b)
      PROVE  u \in Own(n, r)
  <2>0. PICK msg : Received(msg, a, b)
    BY <1>4, ReceiveEffect
  <2>1. /\ a # b
        /\ copies'[n][n][r] =
             IF n # b THEN copies[n][n][r]
             ELSE IF r \notin Kept(msg, a, b) THEN {}
             ELSE IF n = a THEN Applied(msg, r, copies[n][n][r])
             ELSE copies[n][n][r]
    BY <2>0 DEF Received
  <2> QED
    BY <2>1 DEF Own
<1>5. copies' = copies => u \in Own(n, r)
  BY DEF Own
<1>6. ASSUME NEW s \in Sessions,
             \/ Connect(s) \/ Close(s) \/ Closed(s) \/ BroadcastJoin(s) \/ MergeMembers(s)
             \/ DeliverMembers(s) \/ BroadcastLeave(s) \/ BroadcastRemoval(s)
             \/ JoinFailed(s) \/ NothingToLeave(s)
             \/ \E q \in Rooms : JoinRoom(s, q) \/ LeaveRoom(s, q)
      PROVE  u \in Own(n, r)
  BY <1>5, <1>6 DEF Connect, Close, Closed, BroadcastJoin, MergeMembers, DeliverMembers,
                    BroadcastLeave, BroadcastRemoval, JoinFailed, NothingToLeave, JoinRoom,
                    LeaveRoom, server, nodes
<1>7. ASSUME NEW a \in Nodes, NEW b \in Nodes,
             ReceiveCast(a, b) \/ NodesPart(a, b) \/ NodesJoin(a, b)
      PROVE  u \in Own(n, r)
  BY <1>5, <1>7 DEF ReceiveCast, NodesPart, NodesJoin, server, nodes
<1>8. CASE UNCHANGED vars
  BY <1>5, <1>8 DEF vars
<1> QED
  BY <1>1, <1>3, <1>4, <1>6, <1>7, <1>8 DEF Next, Step

\* Nobody goes out of a list that stays but by RemoveMember and RemoveFrom.
LEMMA OwnShrinks ==
  ASSUME Typed, [Next]_vars, NEW n \in Nodes, NEW r \in Rooms, r \in lists[n], r \in lists'[n],
         NEW u \in Own(n, r)
  PROVE  \/ u \in Own(n, r)'
         \/ \E s \in Sessions : /\ (RemoveMember(s) /\ room[s] = r) \/ RemoveFrom(s, r)
                                /\ NodeOf[s] = n /\ UserOf[s] = u
<1>0. AboutARoom /\ copies \in [Nodes -> [Nodes -> [Rooms -> SUBSET UserIds]]]
  BY DEF Typed, TypeOK
<1>1. ASSUME NEW s \in Sessions, AddMember(s)
      PROVE  u \in Own(n, r)'
  <2>1. Update(s, "add", room[s]) /\ room[s] \in Rooms
    BY <1>0, <1>1 DEF AddMember, AboutARoom
  <2>2. copies'[n][n][r] = IF n = NodeOf[s] /\ n = n /\ r = room[s] /\ room[s] \in lists[n]
                           THEN Updated("add", copies[n][n][r], UserOf[s])
                           ELSE copies[n][n][r]
    BY <2>1, UpdateType
  <2> QED
    BY <2>2 DEF Own, Updated
<1>2. ASSUME NEW s \in Sessions, NEW q \in Rooms, Update(s, "remove", q)
      PROVE  u \in Own(n, r)' \/ (q = r /\ NodeOf[s] = n /\ UserOf[s] = u)
  <2>1. copies'[n][n][r] = IF n = NodeOf[s] /\ n = n /\ r = q /\ q \in lists[n]
                           THEN Updated("remove", copies[n][n][r], UserOf[s])
                           ELSE copies[n][n][r]
    BY <1>2, UpdateType
  <2> QED
    BY <2>1 DEF Own, Updated
<1>3. ASSUME NEW s \in Sessions, RemoveMember(s)
      PROVE  u \in Own(n, r)' \/ (room[s] = r /\ NodeOf[s] = n /\ UserOf[s] = u)
  BY <1>0, <1>2, <1>3 DEF RemoveMember, AboutARoom
<1>4. ASSUME NEW s \in Sessions, NEW q \in Rooms, RemoveFrom(s, q)
      PROVE  u \in Own(n, r)' \/ (q = r /\ NodeOf[s] = n /\ UserOf[s] = u)
  BY <1>2, <1>4 DEF RemoveFrom
<1>5. ASSUME NEW a \in Nodes, NEW b \in Nodes, ReceiveUpdate(a, b)
      PROVE  u \in Own(n, r)'
  <2>0. PICK msg : Received(msg, a, b)
    BY <1>5, ReceiveEffect
  <2>1. /\ a # b
        /\ copies'[n][n][r] =
             IF n # b THEN copies[n][n][r]
             ELSE IF r \notin Kept(msg, a, b) THEN {}
             ELSE IF n = a THEN Applied(msg, r, copies[n][n][r])
             ELSE copies[n][n][r]
        /\ n = b => lists'[n] = Kept(msg, a, b) \cup Created(msg, a, b)
    BY <2>0 DEF Received
  <2>2. n = b => r \in Kept(msg, a, b)
    BY <2>1 DEF Created
  <2> QED
    BY <2>1, <2>2 DEF Own
<1>6. copies' = copies => u \in Own(n, r)'
  BY DEF Own
<1>7. ASSUME NEW s \in Sessions,
             \/ Connect(s) \/ Close(s) \/ Closed(s) \/ BroadcastJoin(s) \/ MergeMembers(s)
             \/ DeliverMembers(s) \/ BroadcastLeave(s) \/ BroadcastRemoval(s)
             \/ JoinFailed(s) \/ NothingToLeave(s)
             \/ \E q \in Rooms : JoinRoom(s, q) \/ LeaveRoom(s, q)
      PROVE  u \in Own(n, r)'
  BY <1>6, <1>7 DEF Connect, Close, Closed, BroadcastJoin, MergeMembers, DeliverMembers,
                    BroadcastLeave, BroadcastRemoval, JoinFailed, NothingToLeave, JoinRoom,
                    LeaveRoom, server, nodes
<1>8. ASSUME NEW a \in Nodes, NEW b \in Nodes,
             ReceiveCast(a, b) \/ NodesPart(a, b) \/ NodesJoin(a, b)
      PROVE  u \in Own(n, r)'
  BY <1>6, <1>8 DEF ReceiveCast, NodesPart, NodesJoin, server, nodes
<1>9. CASE UNCHANGED vars
  BY <1>6, <1>9 DEF vars
<1> QED
  BY <1>1, <1>3, <1>4, <1>5, <1>7, <1>8, <1>9 DEF Next, Step

-----------------------------------------------------------------------------
\* What a session does.

\* What is recorded of a session is changed by the session's own steps alone.
Still(t) ==
  /\ life'[t] = life[t] /\ step'[t] = step[t] /\ room'[t] = room[t] /\ merged'[t] = merged[t]
  /\ leaving'[t] = leaving[t] /\ subs'[t] = subs[t] /\ inRoom'[t] = inRoom[t]

Moves(t) ==
  \/ Connect(t) \/ Close(t) \/ Step(t)
  \/ \E r \in Rooms : JoinRoom(t, r) \/ LeaveRoom(t, r)

LEMMA StillOrMoves ==
  ASSUME Typed, [Next]_vars, NEW t \in Sessions
  PROVE  Still(t) \/ Moves(t)
<1>0. /\ life \in [Sessions -> {"new", "open", "closing", "gone"}]
      /\ step \in [Sessions -> {"none", "add", "joined", "merge", "deliver", "remove", "left"}]
      /\ room \in [Sessions -> Rooms \cup {NoRoom}]
      /\ merged \in [Sessions -> SUBSET UserIds]
      /\ leaving \in [Sessions -> Rooms \cup {NoRoom}]
      /\ subs \in [Sessions -> SUBSET Rooms]
      /\ inRoom \in [Sessions -> SUBSET Rooms]
  BY DEF Typed, TypeOK
<1>1. ASSUME NEW s \in Sessions, Connect(s) \/ Close(s) \/ Closed(s), s # t
      PROVE  Still(t)
  BY <1>0, <1>1 DEF Still, Connect, Close, Closed, handler, client
<1>2. ASSUME NEW s \in Sessions, NEW r \in Rooms, JoinRoom(s, r) \/ LeaveRoom(s, r), s # t
      PROVE  Still(t)
  BY <1>0, <1>2 DEF Still, JoinRoom, LeaveRoom, removal, client
<1>3. ASSUME NEW s \in Sessions,
             AddMember(s) \/ RemoveMember(s) \/ \E r \in Rooms : RemoveFrom(s, r), s # t
      PROVE  Still(t)
  BY <1>0, <1>3 DEF Still, AddMember, RemoveMember, RemoveFrom, removal, handler, client
<1>4. ASSUME NEW s \in Sessions,
             BroadcastJoin(s) \/ BroadcastLeave(s) \/ BroadcastRemoval(s), s # t
      PROVE  Still(t)
  BY <1>0, <1>4 DEF Still, BroadcastJoin, BroadcastLeave, BroadcastRemoval, removal, handler
<1>5. ASSUME NEW s \in Sessions,
             MergeMembers(s) \/ DeliverMembers(s) \/ JoinFailed(s) \/ NothingToLeave(s), s # t
      PROVE  Still(t)
  BY <1>0, <1>5 DEF Still, MergeMembers, DeliverMembers, JoinFailed, NothingToLeave, removal,
                    client
<1>6. ASSUME NEW m \in Nodes, NEW n \in Nodes,
             \/ ReceiveUpdate(m, n) \/ ReceiveCast(m, n)
             \/ NodesPart(m, n) \/ NodesJoin(m, n)
      PROVE  Still(t)
  BY <1>6 DEF Still, ReceiveUpdate, ReceiveCast, NodesPart, NodesJoin, removal, handler, client
<1>7. CASE UNCHANGED vars
  BY <1>7 DEF vars, Still
<1>8. ASSUME NEW s \in Sessions, Connect(s) \/ Close(s) \/ Step(s)
      PROVE  Still(t) \/ Moves(t)
  <2>1. CASE s = t
    BY <1>8, <2>1 DEF Moves
  <2>2. CASE s # t
    BY <1>1, <1>3, <1>4, <1>5, <1>8, <2>2 DEF Step
  <2> QED
    BY <2>1, <2>2
<1>9. ASSUME NEW s \in Sessions, NEW r \in Rooms, JoinRoom(s, r) \/ LeaveRoom(s, r)
      PROVE  Still(t) \/ Moves(t)
  <2>1. CASE s = t
    BY <1>9, <2>1 DEF Moves
  <2>2. CASE s # t
    BY <1>2, <1>9, <2>2
  <2> QED
    BY <2>1, <2>2
<1> QED
  BY <1>6, <1>7, <1>8, <1>9 DEF Next

\* The handler of a session moves by its own steps only.
LEMMA HandlerStays ==
  ASSUME Typed, [Next]_vars, NEW t \in Sessions
  PROVE  \/ step'[t] = step[t] /\ room'[t] = room[t] /\ merged'[t] = merged[t]
         \/ \E q \in Rooms : JoinRoom(t, q) \/ LeaveRoom(t, q)
         \/ AddMember(t) \/ JoinFailed(t) \/ BroadcastJoin(t)
         \/ MergeMembers(t) \/ DeliverMembers(t)
         \/ RemoveMember(t) \/ NothingToLeave(t) \/ BroadcastLeave(t)
<1>1. CASE Still(t)
  BY <1>1 DEF Still
<1>2. ASSUME \/ Connect(t) \/ Close(t) \/ Closed(t) \/ BroadcastRemoval(t)
             \/ \E q \in Rooms : RemoveFrom(t, q)
      PROVE  step'[t] = step[t] /\ room'[t] = room[t] /\ merged'[t] = merged[t]
  BY <1>2 DEF Connect, Close, Closed, BroadcastRemoval, RemoveFrom, handler
<1> QED
  BY <1>1, <1>2, StillOrMoves DEF Moves, Step

-----------------------------------------------------------------------------
\* Members.  Whoever was told that it joined, or is about to be told, is a
\* member, or was ousted.

In(s, r) == <<s, r>> \in ousted \/ UserOf[s] \in Own(NodeOf[s], r)

Joins(s, r) ==
  /\ life[s] \in {"new", "open"}
  /\ r \in inRoom[s] \/ (step[s] = "joined" /\ room[s] = r)

JoinedIn ==
  \A s \in Sessions, r \in Rooms :
    Joins(s, r) => (step[s] = "left" /\ room[s] = r) \/ In(s, r)

\* Only an addition of the same user undoes an ousting.
LEMMA OustedStays ==
  ASSUME Typed, [Next]_vars, NEW s \in Sessions, NEW r \in Rooms, <<s, r>> \in ousted
  PROVE  In(s, r)'
<1>1. ASSUME NEW t \in Sessions, AddMember(t)
      PROVE  In(s, r)'
  <2>0. /\ room[t] \in Rooms /\ NodeOf[s] \in Nodes /\ NodeOf[t] = NodeOf[t]'
        /\ Update(t, "add", room[t])
    BY <1>1, RoomMembersAssumption DEF AddMember, Typed, AboutARoom
  <2>1. CASE s \in SameUser(t) /\ room[t] = r
    <3>1. /\ NodeOf[s] = NodeOf[t] /\ UserOf[s] = UserOf[t] /\ r \in lists[NodeOf[s]]
      BY <1>1, <2>1 DEF SameUser, AddMember
    <3>2. copies'[NodeOf[s]][NodeOf[s]][r] =
            IF NodeOf[s] = NodeOf[t] /\ NodeOf[s] = NodeOf[s] /\ r = room[t]
               /\ room[t] \in lists[NodeOf[s]]
            THEN Updated("add", copies[NodeOf[s]][NodeOf[s]][r], UserOf[t])
            ELSE copies[NodeOf[s]][NodeOf[s]][r]
      BY <2>0, UpdateType
    <3> QED
      BY <2>1, <3>1, <3>2 DEF In, Own, Updated
  <2>2. CASE ~ (s \in SameUser(t) /\ room[t] = r)
    BY <1>1, <2>2 DEF AddMember, In
  <2> QED
    BY <2>1, <2>2
<1>2. ASSUME ousted \subseteq ousted'
      PROVE  In(s, r)'
  BY <1>2 DEF In
<1>3. ASSUME NEW t \in Sessions, RemoveMember(t) \/ \E q \in Rooms : RemoveFrom(t, q)
      PROVE  In(s, r)'
  BY <1>2, <1>3 DEF RemoveMember, RemoveFrom, TookOut
<1>4. ASSUME NEW m \in Nodes, NEW n \in Nodes, ReceiveUpdate(m, n)
      PROVE  In(s, r)'
  BY <1>2, <1>4 DEF ReceiveUpdate
<1>5. ASSUME NEW t \in Sessions,
             \/ Connect(t) \/ Close(t) \/ Closed(t) \/ BroadcastJoin(t) \/ MergeMembers(t)
             \/ DeliverMembers(t) \/ BroadcastLeave(t) \/ BroadcastRemoval(t)
             \/ JoinFailed(t) \/ NothingToLeave(t)
             \/ \E q \in Rooms : JoinRoom(t, q) \/ LeaveRoom(t, q)
      PROVE  In(s, r)'
  <2>1. ousted' = ousted
    BY <1>5 DEF Connect, Close, Closed, BroadcastJoin, MergeMembers, DeliverMembers,
                BroadcastLeave, BroadcastRemoval, JoinFailed, NothingToLeave, JoinRoom,
                LeaveRoom, history
  <2> QED
    BY <1>2, <2>1
<1>6. ASSUME NEW m \in Nodes, NEW n \in Nodes,
             ReceiveCast(m, n) \/ NodesPart(m, n) \/ NodesJoin(m, n)
      PROVE  In(s, r)'
  BY <1>2, <1>6 DEF ReceiveCast, NodesPart, NodesJoin, history
<1>7. CASE UNCHANGED vars
  BY <1>2, <1>7 DEF vars
<1> QED
  BY <1>1, <1>3, <1>4, <1>5, <1>6, <1>7 DEF Next, Step

\* A list that goes away ousts the sessions of its node.
LEMMA ListsStay ==
  ASSUME Typed, [Next]_vars, NEW s \in Sessions, NEW r \in Rooms, r \in lists[NodeOf[s]]
  PROVE  r \in lists'[NodeOf[s]] \/ <<s, r>> \in ousted'
<1>0. NodeOf[s] \in Nodes
  BY RoomMembersAssumption
<1>1. lists' = lists \/ \E m, n \in Nodes : ReceiveUpdate(m, n)
  <2>1. ASSUME NEW t \in Sessions, Connect(t) \/ Close(t) \/ Step(t)
        PROVE  lists' = lists
    BY <2>1 DEF Step, Connect, Close, Closed, AddMember, RemoveMember, RemoveFrom, BroadcastJoin,
                MergeMembers, DeliverMembers, BroadcastLeave, BroadcastRemoval, JoinFailed,
                NothingToLeave, server, nodes
  <2>2. ASSUME NEW t \in Sessions, NEW q \in Rooms, JoinRoom(t, q) \/ LeaveRoom(t, q)
        PROVE  lists' = lists
    BY <2>2 DEF JoinRoom, LeaveRoom, nodes
  <2>3. ASSUME NEW m \in Nodes, NEW n \in Nodes,
               ReceiveCast(m, n) \/ NodesPart(m, n) \/ NodesJoin(m, n)
        PROVE  lists' = lists
    BY <2>3 DEF ReceiveCast, NodesPart, NodesJoin, server, nodes
  <2>4. UNCHANGED vars => lists' = lists
    BY DEF vars
  <2> QED
    BY <2>1, <2>2, <2>3, <2>4 DEF Next
<1>2. ASSUME NEW m \in Nodes, NEW n \in Nodes, ReceiveUpdate(m, n)
      PROVE  r \in lists'[NodeOf[s]] \/ <<s, r>> \in ousted'
  <2> DEFINE msg == Head(updates[m][n])
             gone == Destroyed(msg, m, n)
  <2>1. /\ lists' = [lists EXCEPT ![n] = (lists[n] \ gone) \cup Created(msg, m, n)]
        /\ ousted' = ousted \cup ({t \in Sessions : NodeOf[t] = n} \X gone)
    BY <1>2 DEF ReceiveUpdate
  <2>2. lists \in [Nodes -> SUBSET Rooms]
    BY DEF Typed, TypeOK
  <2> HIDE DEF gone, msg
  <2>3. CASE NodeOf[s] = n /\ r \in gone
    BY <2>1, <2>3
  <2>4. CASE ~ (NodeOf[s] = n /\ r \in gone)
    BY <1>0, <2>1, <2>2, <2>4
  <2> QED
    BY <2>3, <2>4
<1> QED
  BY <1>1, <1>2

LEMMA InStays ==
  ASSUME Typed, NoListNoMembers, [Next]_vars, NEW s \in Sessions, NEW r \in Rooms, In(s, r)
  PROVE  \/ In(s, r)'
         \/ RemoveMember(s) /\ room[s] = r
         \/ RemoveFrom(s, r)
<1>1. CASE <<s, r>> \in ousted
  BY <1>1, OustedStays
<1>2. CASE UserOf[s] \in Own(NodeOf[s], r)
  <2>0. NodeOf[s] \in Nodes
    BY RoomMembersAssumption
  <2>1. r \in lists[NodeOf[s]]
    BY <1>2, <2>0 DEF NoListNoMembers, Own
  <2>2. CASE r \in lists'[NodeOf[s]]
    <3>1. CASE UserOf[s] \in Own(NodeOf[s], r)'
      BY <3>1 DEF In
    <3>2. ASSUME NEW t \in Sessions, (RemoveMember(t) /\ room[t] = r) \/ RemoveFrom(t, r),
                 NodeOf[t] = NodeOf[s], UserOf[t] = UserOf[s], t # s
          PROVE  In(s, r)'
      <4>1. TookOut(t, r)
        BY <3>2 DEF RemoveMember, RemoveFrom
      <4>2. s \in SameUser(t) \ {t}
        BY <3>2 DEF SameUser
      <4> QED
        BY <4>1, <4>2 DEF TookOut, In
    <3> QED
      BY <1>2, <2>0, <2>1, <2>2, <3>1, <3>2, OwnShrinks
  <2>3. CASE r \notin lists'[NodeOf[s]]
    BY <2>1, <2>3, ListsStay DEF In
  <2> QED
    BY <2>2, <2>3
<1> QED
  BY <1>1, <1>2 DEF In

LEMMA JoinedInStep ==
  ASSUME Typed, NoListNoMembers, InOpen, JoinedIn, [Next]_vars
  PROVE  JoinedIn'
<1> SUFFICES ASSUME NEW s \in Sessions, NEW r \in Rooms, Joins(s, r)'
             PROVE  (step'[s] = "left" /\ room'[s] = r) \/ In(s, r)'
  BY DEF JoinedIn
<1>0. /\ life \in [Sessions -> {"new", "open", "closing", "gone"}]
      /\ step \in [Sessions -> {"none", "add", "joined", "merge", "deliver", "remove", "left"}]
      /\ room \in [Sessions -> Rooms \cup {NoRoom}]
      /\ inRoom \in [Sessions -> SUBSET Rooms]
      /\ NodeOf[s] \in Nodes
  BY RoomMembersAssumption DEF Typed, TypeOK
\* The user has just been added.
<1>1. ASSUME AddMember(s), room[s] = r
      PROVE  In(s, r)'
  <2>1. Update(s, "add", r) /\ r \in lists[NodeOf[s]]
    BY <1>1 DEF AddMember
  <2>2. copies'[NodeOf[s]][NodeOf[s]][r] =
          IF NodeOf[s] = NodeOf[s] /\ NodeOf[s] = NodeOf[s] /\ r = r /\ r \in lists[NodeOf[s]]
          THEN Updated("add", copies[NodeOf[s]][NodeOf[s]][r], UserOf[s])
          ELSE copies[NodeOf[s]][NodeOf[s]][r]
    BY <1>0, <2>1, UpdateType
  <2> QED
    BY <2>1, <2>2 DEF In, Own, Updated
\* Nothing else makes it join.
<1>2. ASSUME ~ (AddMember(s) /\ room[s] = r)
      PROVE  Joins(s, r)
  <2>1. CASE Still(s)
    BY <2>1 DEF Still, Joins
  <2>2. CASE Connect(s) \/ Close(s) \/ Closed(s)
    BY <1>0, <2>2 DEF Joins, Connect, Close, Closed, handler, client
  <2>3. CASE \E q \in Rooms : JoinRoom(s, q) \/ LeaveRoom(s, q)
    BY <1>0, <2>3 DEF Joins, JoinRoom, LeaveRoom, removal
  <2>4. CASE AddMember(s) \/ RemoveMember(s)
    BY <1>0, <1>2, <2>4 DEF Joins, AddMember, RemoveMember, removal, client
  <2>5. CASE BroadcastRemoval(s) \/ \E q \in Rooms : RemoveFrom(s, q)
    BY <1>0, <2>5 DEF Joins, BroadcastRemoval, RemoveFrom, handler, client
  <2>6. CASE \/ JoinFailed(s) \/ MergeMembers(s) \/ DeliverMembers(s) \/ NothingToLeave(s)
             \/ BroadcastLeave(s)
    BY <1>0, <2>6 DEF Joins, JoinFailed, MergeMembers, DeliverMembers, NothingToLeave,
                      BroadcastLeave, removal, client
  <2>7. CASE BroadcastJoin(s)
    BY <1>0, <2>7 DEF Joins, BroadcastJoin, removal
  <2> QED
    BY <2>1, <2>2, <2>3, <2>4, <2>5, <2>6, <2>7, StillOrMoves DEF Moves, Step
\* It was about to be told that it left.
<1>3. ASSUME step[s] = "left", room[s] = r
      PROVE  step'[s] = "left" /\ room'[s] = r
  <2>1. ~ BroadcastLeave(s)
    <3>1. ASSUME BroadcastLeave(s)
          PROVE  FALSE
      BY <1>0, <1>3, <3>1 DEF BroadcastLeave, Joins
    <3> QED
      BY <3>1
  <2>2. ~ \E q \in Rooms : JoinRoom(s, q) \/ LeaveRoom(s, q)
    BY <1>3 DEF JoinRoom, LeaveRoom
  <2>3. /\ ~ AddMember(s) /\ ~ JoinFailed(s) /\ ~ BroadcastJoin(s) /\ ~ MergeMembers(s)
        /\ ~ DeliverMembers(s) /\ ~ RemoveMember(s) /\ ~ NothingToLeave(s)
    BY <1>3 DEF AddMember, JoinFailed, BroadcastJoin, MergeMembers, DeliverMembers, RemoveMember,
                NothingToLeave
  <2> QED
    BY <1>3, <2>1, <2>2, <2>3, HandlerStays
<1>4. ASSUME In(s, r)
      PROVE  (step'[s] = "left" /\ room'[s] = r) \/ In(s, r)'
  <2>1. ASSUME RemoveMember(s), room[s] = r
        PROVE  step'[s] = "left" /\ room'[s] = r
    BY <1>0, <2>1 DEF RemoveMember
  <2>2. ~ RemoveFrom(s, r)
    BY DEF RemoveFrom, Joins
  <2> QED
    BY <1>4, <2>1, <2>2, InStays
<1> QED
  BY <1>1, <1>2, <1>3, <1>4 DEF JoinedIn

\* A client that was told it joined a room, on any node, is a member of it
\* until it leaves, or the list is destroyed, or another session of its user
\* takes the user out.
THEOREM JoinedAreMembers == Spec => []JoinedIsMember
<1> DEFINE Rest == NoListNoMembers /\ GhostsJoinedLate /\ InOpen /\ JoinedIn
<1>1. ASSUME Init
      PROVE  Rest
  BY <1>1 DEF Init, NoListNoMembers, GhostsJoinedLate, Own, NoMembers, InOpen, JoinedIn, Joins
<1>2. ASSUME Typed, Rest, [Next]_vars
      PROVE  Rest'
  BY <1>2, GhostStep, OpenStep, JoinedInStep DEF GhostInv
<1>3. ASSUME Typed, Rest
      PROVE  JoinedIsMember
  <2>1. \A s \in Sessions : inRoom[s] \subseteq Rooms
    BY <1>3 DEF Typed, TypeOK
  <2> QED
    BY <1>3, <2>1 DEF JoinedIsMember, InOpen, JoinedIn, Joins, In
<1> HIDE DEF Rest
<1> QED
  BY <1>1, <1>2, <1>3, TypedAlways, PTL DEF Spec

-----------------------------------------------------------------------------
\* Rosters.  A client in a room that it listens to knows of every member on
\* its node, or is about to be told, or was told of a leave that was overtaken.

\* The handler of s has still to read the members of r.
Awaits(s, r) == room[s] = r /\ step[s] \in {"add", "joined", "merge"}

\* The clients of the node of s know of u, or its leave was told in spite of it.
Told(s, r, u) == u \in roster[s][r] \/ <<NodeOf[s], r, u>> \in mistold

Known(s, r, u) ==
  \/ Told(s, r, u)
  \/ Awaits(s, r)
  \/ room[s] = r /\ step[s] = "deliver" /\ u \in merged[s]
  \/ \E t \in Sessions : /\ NodeOf[t] = NodeOf[s] /\ UserOf[t] = u
                         /\ step[t] = "joined" /\ room[t] = r

Covered ==
  \A s \in Sessions : \A r \in inRoom[s] \cap subs[s] :
    \A u \in Own(NodeOf[s], r) : Known(s, r, u)

\* Only a room whose level allows it is joined.
Allowed ==
  \A s \in Sessions :
    /\ \A r \in inRoom[s] : Implies(Level[r], Level[UserOf[s]])
    /\ step[s] \in {"add", "joined"} => Implies(Level[room[s]], Level[UserOf[s]])

RosterInv == Typed /\ NoListNoMembers /\ InOpen /\ Allowed /\ Covered

LEMMA RosterTypes ==
  ASSUME RosterInv
  PROVE  /\ Typed /\ TypeOK /\ AboutARoom /\ NoListNoMembers /\ InOpen /\ Allowed /\ Covered
         /\ life \in [Sessions -> {"new", "open", "closing", "gone"}]
         /\ step \in [Sessions -> {"none", "add", "joined", "merge", "deliver", "remove", "left"}]
         /\ room \in [Sessions -> Rooms \cup {NoRoom}]
         /\ merged \in [Sessions -> SUBSET UserIds]
         /\ leaving \in [Sessions -> Rooms \cup {NoRoom}]
         /\ lists \in [Nodes -> SUBSET Rooms]
         /\ copies \in [Nodes -> [Nodes -> [Rooms -> SUBSET UserIds]]]
         /\ casts \in [Nodes -> [Nodes -> Seq(Casts)]]
         /\ subs \in [Sessions -> SUBSET Rooms]
         /\ roster \in [Sessions -> [Rooms -> SUBSET UserIds]]
         /\ inRoom \in [Sessions -> SUBSET Rooms]
         /\ NodeOf \in [Sessions -> Nodes] /\ UserOf \in [Sessions -> UserIds]
         /\ NoRoom \notin Rooms
  BY RoomMembersAssumption DEF RosterInv, Typed, TypeOK

LEMMA AllowedStep ==
  ASSUME RosterInv, [Next]_vars
  PROVE  Allowed'
<1> DEFINE May(t) ==
      /\ \A r \in inRoom[t] : Implies(Level[r], Level[UserOf[t]])
      /\ step[t] \in {"add", "joined"} => Implies(Level[room[t]], Level[UserOf[t]])
<1> SUFFICES ASSUME NEW t \in Sessions
             PROVE  May(t)'
  BY DEF Allowed
<1> USE RosterTypes
<1>0. May(t)
  BY DEF Allowed
<1>1. CASE Still(t)
  BY <1>0, <1>1 DEF Still
<1>2. CASE Connect(t) \/ Close(t) \/ Closed(t)
  BY <1>0, <1>2 DEF Connect, Close, Closed, handler, client
<1>3. ASSUME NEW q \in Rooms, JoinRoom(t, q) \/ LeaveRoom(t, q)
      PROVE  May(t)'
  <2>1. inRoom' = inRoom
    BY <1>3 DEF JoinRoom, LeaveRoom
  <2>2. CASE JoinRoom(t, q)
    BY <1>0, <2>1, <2>2 DEF JoinRoom
  <2>3. CASE LeaveRoom(t, q)
    BY <1>0, <2>1, <2>3 DEF LeaveRoom
  <2> QED
    BY <1>3, <2>2, <2>3
<1>4. CASE AddMember(t) \/ RemoveMember(t)
  BY <1>0, <1>4 DEF AddMember, RemoveMember, client
<1>5. CASE BroadcastRemoval(t) \/ \E q \in Rooms : RemoveFrom(t, q)
  BY <1>0, <1>5 DEF BroadcastRemoval, RemoveFrom, handler, client
<1>6. CASE JoinFailed(t) \/ MergeMembers(t) \/ DeliverMembers(t) \/ NothingToLeave(t)
           \/ BroadcastLeave(t)
  BY <1>0, <1>6 DEF JoinFailed, MergeMembers, DeliverMembers, NothingToLeave, BroadcastLeave,
                    client
<1>7. CASE BroadcastJoin(t)
  BY <1>0, <1>7 DEF BroadcastJoin
<1> QED
  BY <1>1, <1>2, <1>3, <1>4, <1>5, <1>6, <1>7, StillOrMoves DEF Moves, Step

\* A client comes to be in a room that it listens to when it is told that it
\* joined, or listens again to a room that it is in.
LEMMA Enters ==
  ASSUME RosterInv, [Next]_vars, NEW s \in Sessions, NEW r \in inRoom'[s] \cap subs'[s]
  PROVE  \/ r \in inRoom[s] /\ r \in subs[s]
         \/ BroadcastJoin(s) /\ room[s] = r
         \/ JoinRoom(s, r) /\ r \in inRoom[s]
<1> USE RosterTypes
<1>1. CASE Still(s)
  BY <1>1 DEF Still
<1>2. CASE Connect(s) \/ Close(s) \/ Closed(s)
  BY <1>2 DEF Connect, Close, Closed, client
<1>3. ASSUME NEW q \in Rooms, JoinRoom(s, q)
      PROVE  (r \in inRoom[s] /\ r \in subs[s]) \/ (JoinRoom(s, r) /\ r \in inRoom[s])
  <2>1. inRoom' = inRoom /\ subs'[s] = subs[s] \cup {q}
    BY <1>3 DEF JoinRoom
  <2> QED
    BY <1>3, <2>1
<1>4. ASSUME NEW q \in Rooms, LeaveRoom(s, q)
      PROVE  r \in inRoom[s] /\ r \in subs[s]
  BY <1>4 DEF LeaveRoom
<1>5. CASE AddMember(s) \/ RemoveMember(s) \/ \E q \in Rooms : RemoveFrom(s, q)
  BY <1>5 DEF AddMember, RemoveMember, RemoveFrom, client
<1>6. CASE \/ JoinFailed(s) \/ MergeMembers(s) \/ DeliverMembers(s) \/ NothingToLeave(s)
           \/ BroadcastLeave(s) \/ BroadcastRemoval(s)
  BY <1>6 DEF JoinFailed, MergeMembers, DeliverMembers, NothingToLeave, BroadcastLeave,
              BroadcastRemoval, client
<1>7. CASE BroadcastJoin(s)
  BY <1>7 DEF BroadcastJoin
<1> QED
  BY <1>1, <1>2, <1>3, <1>4, <1>5, <1>6, <1>7, StillOrMoves DEF Moves, Step

\* A change that the clients of a node are told of.
LEMMA TellKeeps ==
  ASSUME RosterInv, NEW n \in Nodes, NEW action \in {"join", "leave"}, NEW q \in Rooms, NEW v,
         Tell(n, action, q, v),
         NEW s \in Sessions, NEW r \in Rooms, r \in subs[s], NEW u \in Own(NodeOf[s], r)
  PROVE  /\ Told(s, r, u) => Told(s, r, u)'
         /\ n = NodeOf[s] /\ action = "join" /\ q = r /\ v = u => Told(s, r, u)'
<1> USE RosterTypes
<1>0. roster[s] \in [Rooms -> SUBSET UserIds] /\ roster' = Heard(n, action, q, v)
  BY DEF Tell
<1>1. CASE NodeOf[s] = n /\ q = r /\ v = u
  <2>1. roster'[s] = [roster[s] EXCEPT ![r] = IF action = "join" THEN @ \cup {u} ELSE @ \ {u}]
    BY <1>0, <1>1 DEF Heard
  <2>2. action = "join" => u \in roster'[s][r]
    BY <1>0, <2>1
  <2>3. action = "leave" => <<n, q, v>> \in mistold'
    BY <1>1 DEF Tell
  <2> QED
    BY <1>1, <2>2, <2>3 DEF Told
<1>2. CASE ~ (NodeOf[s] = n /\ q = r /\ v = u)
  <2>1. <<NodeOf[s], r, u>> \in mistold => <<NodeOf[s], r, u>> \in mistold'
    BY <1>2 DEF Tell
  <2>2. u \in roster[s][r] => u \in roster'[s][r]
    <3>1. CASE NodeOf[s] = n /\ q \in subs[s]
      <4>1. roster'[s] = [roster[s] EXCEPT ![q] = IF action = "join" THEN @ \cup {v} ELSE @ \ {v}]
        BY <1>0, <3>1 DEF Heard
      <4>2. CASE q = r
        BY <1>0, <1>2, <3>1, <4>1, <4>2
      <4>3. CASE q # r
        BY <1>0, <4>1, <4>3
      <4> QED
        BY <4>2, <4>3
    <3>2. CASE ~ (NodeOf[s] = n /\ q \in subs[s])
      BY <1>0, <3>2 DEF Heard
    <3> QED
      BY <3>1, <3>2
  <2> QED
    BY <1>2, <2>1, <2>2 DEF Told
<1> QED
  BY <1>1, <1>2

\* What a client was told of a member it keeps as long as it listens.
LEMMA ToldKeeps ==
  ASSUME RosterInv, [Next]_vars, NEW s \in Sessions, NEW r \in Rooms, r \in subs[s],
         r \in inRoom'[s], r \in subs'[s], NEW u \in Own(NodeOf[s], r), Told(s, r, u)
  PROVE  Told(s, r, u)'
<1> USE RosterTypes
<1>0. roster[s] \in [Rooms -> SUBSET UserIds] /\ NodeOf[s] \in Nodes
  OBVIOUS
<1>1. roster'[s][r] = roster[s][r] /\ mistold' = mistold => Told(s, r, u)'
  BY DEF Told
<1>2. ASSUME NEW t \in Sessions, BroadcastJoin(t) \/ BroadcastLeave(t) \/ BroadcastRemoval(t)
      PROVE  Told(s, r, u)'
  <2>1. CASE BroadcastJoin(t)
    <3>1. room[t] \in Rooms /\ Tell(NodeOf[t], "join", room[t], UserOf[t])
      BY <2>1 DEF BroadcastJoin, AboutARoom
    <3> QED
      BY <3>1, TellKeeps
  <2>2. CASE BroadcastLeave(t)
    <3>1. room[t] \in Rooms /\ Tell(NodeOf[t], "leave", room[t], UserOf[t])
      BY <2>2 DEF BroadcastLeave, AboutARoom
    <3> QED
      BY <3>1, TellKeeps
  <2>3. CASE BroadcastRemoval(t)
    <3>1. leaving[t] \in Rooms /\ Tell(NodeOf[t], "leave", leaving[t], UserOf[t])
      BY <2>3 DEF BroadcastRemoval
    <3> QED
      BY <3>1, TellKeeps
  <2> QED
    BY <1>2, <2>1, <2>2, <2>3
<1>3. ASSUME NEW m \in Nodes, NEW n \in Nodes, ReceiveCast(m, n)
      PROVE  Told(s, r, u)'
  <2> DEFINE msg == Head(casts[m][n])
  <2>1. casts[m][n] # <<>> /\ casts[m][n] \in Seq(Casts)
        /\ Tell(n, msg.action, msg.room, msg.user)
    BY <1>3 DEF ReceiveCast
  <2>2. msg \in Casts
    BY <2>1
  <2> HIDE DEF msg
  <2>3. msg.action \in {"join", "leave"} /\ msg.room \in Rooms
    BY <2>2 DEF Casts
  <2> QED
    BY <2>1, <2>3, TellKeeps
<1>4. ASSUME NEW t \in Sessions, Close(t)
      PROVE  Told(s, r, u)'
  <2>1. t # s
    BY <1>4 DEF Close
  <2> QED
    BY <1>1, <1>4, <2>1 DEF Close, history
<1>5. ASSUME NEW t \in Sessions, NEW q \in Rooms, LeaveRoom(t, q)
      PROVE  Told(s, r, u)'
  <2>1. ~ (t = s /\ q = r)
    BY <1>5 DEF LeaveRoom
  <2>2. roster' = [roster EXCEPT ![t][q] = {}] /\ mistold' = mistold
    BY <1>5 DEF LeaveRoom, history
  <2>3. roster'[s][r] = roster[s][r]
    BY <2>1, <2>2
  <2> QED
    BY <1>1, <2>2, <2>3
<1>6. ASSUME NEW t \in Sessions, DeliverMembers(t)
      PROVE  Told(s, r, u)'
  <2>1. room[t] \in Rooms
    BY <1>6 DEF DeliverMembers, AboutARoom
  <2>2. roster[s][r] \subseteq roster'[s][r] /\ mistold' = mistold
    BY <1>6, <2>1 DEF DeliverMembers, history
  <2> QED
    BY <2>2 DEF Told
<1>7. ASSUME NEW t \in Sessions,
             \/ Connect(t) \/ Closed(t) \/ AddMember(t) \/ RemoveMember(t)
             \/ MergeMembers(t) \/ JoinFailed(t) \/ NothingToLeave(t)
             \/ \E q \in Rooms : JoinRoom(t, q) \/ RemoveFrom(t, q)
      PROVE  Told(s, r, u)'
  <2>1. roster' = roster /\ mistold' = mistold
    BY <1>7 DEF Connect, Closed, AddMember, RemoveMember, MergeMembers, JoinFailed,
                NothingToLeave, JoinRoom, RemoveFrom, client, history
  <2> QED
    BY <1>1, <2>1
<1>8. ASSUME NEW m \in Nodes, NEW n \in Nodes,
             ReceiveUpdate(m, n) \/ NodesPart(m, n) \/ NodesJoin(m, n)
      PROVE  Told(s, r, u)'
  BY <1>1, <1>8 DEF ReceiveUpdate, NodesPart, NodesJoin, client, history
<1>9. CASE UNCHANGED vars
  BY <1>1, <1>9 DEF vars
<1> QED
  BY <1>2, <1>3, <1>4, <1>5, <1>6, <1>7, <1>8, <1>9 DEF Next, Step

\* A client whose handler has still to read or to deliver the members.
LEMMA AwaitedComes ==
  ASSUME RosterInv, [Next]_vars, NEW s \in Sessions, NEW r \in Rooms, r \in subs[s],
         NEW u \in Own(NodeOf[s], r),
         Awaits(s, r) \/ (room[s] = r /\ step[s] = "deliver" /\ u \in merged[s])
  PROVE  Known(s, r, u)'
<1> USE RosterTypes
<1>0. NodeOf[s] \in Nodes /\ r \in lists[NodeOf[s]] /\ room[s] = r
  BY DEF NoListNoMembers, Own, Awaits
<1>1. CASE step'[s] = step[s] /\ room'[s] = room[s] /\ merged'[s] = merged[s]
  BY <1>1 DEF Known, Awaits
<1>2. CASE AddMember(s)
  BY <1>0, <1>2 DEF AddMember, Known, Awaits
<1>3. CASE BroadcastJoin(s)
  BY <1>0, <1>3 DEF BroadcastJoin, Known, Awaits
<1>4. CASE MergeMembers(s)
  <2>1. u \in Members(NodeOf[s], r)
    BY <1>0 DEF Members, Own
  <2>2. step'[s] = "deliver" /\ room'[s] = r /\ merged'[s] = Members(NodeOf[s], r)
    BY <1>0, <1>4 DEF MergeMembers
  <2> QED
    BY <2>1, <2>2 DEF Known
<1>5. CASE DeliverMembers(s)
  <2>1. u \in merged[s]
    BY <1>5 DEF DeliverMembers, Awaits
  <2>2. roster[s] \in [Rooms -> SUBSET UserIds]
    OBVIOUS
  <2>3. roster'[s][r] = roster[s][r] \cup merged[s]
    BY <1>0, <1>5, <2>2 DEF DeliverMembers
  <2> QED
    BY <2>1, <2>3 DEF Known, Told
<1>6. ~ \E q \in Rooms : JoinRoom(s, q) \/ LeaveRoom(s, q)
  BY DEF JoinRoom, LeaveRoom, Awaits
<1>7. ~ JoinFailed(s) /\ ~ RemoveMember(s) /\ ~ NothingToLeave(s) /\ ~ BroadcastLeave(s)
  BY <1>0 DEF JoinFailed, RemoveMember, NothingToLeave, BroadcastLeave, Awaits
<1> QED
  BY <1>1, <1>2, <1>3, <1>4, <1>5, <1>6, <1>7, HandlerStays

\* A member whose join has still to be broadcast.
LEMMA JoinComes ==
  ASSUME RosterInv, [Next]_vars, NEW s \in Sessions, NEW r \in Rooms, r \in subs[s],
         NEW t \in Sessions, NodeOf[t] = NodeOf[s], UserOf[t] \in Own(NodeOf[s], r),
         step[t] = "joined", room[t] = r
  PROVE  Known(s, r, UserOf[t])'
<1> USE RosterTypes
<1>1. CASE step'[t] = step[t] /\ room'[t] = room[t]
  BY <1>1 DEF Known
<1>2. CASE BroadcastJoin(t)
  <2>1. Tell(NodeOf[t], "join", r, UserOf[t]) /\ NodeOf[t] \in Nodes
    BY <1>2 DEF BroadcastJoin
  <2>2. Told(s, r, UserOf[t])'
    BY <2>1, TellKeeps
  <2> QED
    BY <2>2 DEF Known
<1>3. ~ \E q \in Rooms : JoinRoom(t, q) \/ LeaveRoom(t, q)
  BY DEF JoinRoom, LeaveRoom
<1>4. /\ ~ AddMember(t) /\ ~ JoinFailed(t) /\ ~ MergeMembers(t) /\ ~ DeliverMembers(t)
      /\ ~ RemoveMember(t) /\ ~ NothingToLeave(t) /\ ~ BroadcastLeave(t)
  BY DEF AddMember, JoinFailed, MergeMembers, DeliverMembers, RemoveMember, NothingToLeave,
         BroadcastLeave
<1> QED
  BY <1>1, <1>2, <1>3, <1>4, HandlerStays

LEMMA CoveredStep ==
  ASSUME RosterInv, [Next]_vars
  PROVE  Covered'
<1> SUFFICES ASSUME NEW s \in Sessions, NEW r \in inRoom'[s] \cap subs'[s],
                    NEW u \in Own(NodeOf[s], r)'
             PROVE  Known(s, r, u)'
  BY DEF Covered
<1> USE RosterTypes
<1>0. NodeOf[s] \in Nodes /\ (r \in inRoom[s] => r \in Rooms)
  OBVIOUS
\* The client is told that it joined: it will merge the members.
<1>1. ASSUME BroadcastJoin(s), room[s] = r
      PROVE  Known(s, r, u)'
  BY <1>1 DEF BroadcastJoin, Known, Awaits
\* It listens again to a room that it is in, and joins it anew.
<1>2. ASSUME JoinRoom(s, r), r \in inRoom[s]
      PROVE  Known(s, r, u)'
  <2>1. Implies(Level[r], Level[UserOf[s]])
    BY <1>2 DEF Allowed
  <2>2. u \in copies[NodeOf[s]][NodeOf[s]][r]
    BY <1>2 DEF JoinRoom, nodes, Own
  <2>3. r \in lists[NodeOf[s]]
    BY <1>0, <1>2, <2>2 DEF NoListNoMembers
  <2>4. step'[s] = "add" /\ room'[s] = r
    BY <1>2, <2>1, <2>3 DEF JoinRoom
  <2> QED
    BY <2>4 DEF Known, Awaits
\* A user becomes a member: its join is to be broadcast.
<1>3. ASSUME NEW t \in Sessions, AddMember(t), room[t] = r, NodeOf[t] = NodeOf[s], UserOf[t] = u
      PROVE  Known(s, r, u)'
  <2>1. step'[t] = "joined" /\ room'[t] = r
    BY <1>3 DEF AddMember
  <2> QED
    BY <1>3, <2>1 DEF Known
<1>4. ASSUME r \in inRoom[s], r \in subs[s], u \in Own(NodeOf[s], r)
      PROVE  Known(s, r, u)'
  <2>0. r \in Rooms
    BY <1>0, <1>4
  <2>1. Known(s, r, u)
    BY <1>4 DEF Covered
  <2>2. CASE Told(s, r, u)
    <3>1. Told(s, r, u)'
      BY <1>4, <2>0, <2>2, ToldKeeps
    <3> QED
      BY <3>1 DEF Known
  <2>3. CASE Awaits(s, r) \/ (room[s] = r /\ step[s] = "deliver" /\ u \in merged[s])
    BY <1>4, <2>0, <2>3, AwaitedComes
  <2>4. ASSUME NEW t \in Sessions, NodeOf[t] = NodeOf[s], UserOf[t] = u, step[t] = "joined",
               room[t] = r
        PROVE  Known(s, r, u)'
    BY <1>4, <2>0, <2>4, JoinComes
  <2> QED
    BY <2>1, <2>2, <2>3, <2>4 DEF Known
<1>5. r \in inRoom[s] =>
        \/ u \in Own(NodeOf[s], r)
        \/ \E t \in Sessions : /\ AddMember(t) /\ room[t] = r
                               /\ NodeOf[t] = NodeOf[s] /\ UserOf[t] = u
  BY <1>0, OwnGrows
<1> QED
  BY <1>1, <1>2, <1>3, <1>4, <1>5, Enters

\* A client in a room that it listens to knows of every member on its node as
\* soon as nothing is under way, but for the users mistold.
THEOREM RostersMissNobody == Spec => []RosterMissesNobody
<1> DEFINE Rest == NoListNoMembers /\ GhostsJoinedLate /\ InOpen /\ Allowed /\ Covered
<1>1. ASSUME Init
      PROVE  Rest
  BY <1>1 DEF Init, NoListNoMembers, GhostsJoinedLate, Own, NoMembers, InOpen, Allowed, Covered
<1>2. ASSUME Typed, Rest, [Next]_vars
      PROVE  Rest'
  <2>1. RosterInv /\ GhostInv
    BY <1>2 DEF RosterInv, GhostInv
  <2> QED
    BY <1>2, <2>1, GhostStep, OpenStep, AllowedStep, CoveredStep
<1>3. ASSUME Rest
      PROVE  RosterMissesNobody
  BY <1>3 DEF RosterMissesNobody, AtRest, Covered, Known, Told, Awaits
<1> HIDE DEF Rest
<1> QED
  BY <1>1, <1>2, <1>3, TypedAlways, PTL DEF Spec

-----------------------------------------------------------------------------
\* Agreement between nodes.

\* Nothing in q says farewell.
NoneLeft(q) == \A i \in 1 .. Len(q) : q[i].type # "left"

LEMMA NoneLeftKept ==
  ASSUME NEW q \in Seq(Updates), NoneLeft(q)
  PROVE  /\ q # <<>> => NoneLeft(Tail(q)) /\ Head(q).type # "left"
         /\ \A msg \in Updates : msg.type # "left" => NoneLeft(Append(q, msg))
<1>1. ASSUME q # <<>>
      PROVE  NoneLeft(Tail(q)) /\ Head(q).type # "left"
  BY <1>1 DEF NoneLeft
<1>2. ASSUME NEW msg \in Updates, msg.type # "left"
      PROVE  NoneLeft(Append(q, msg))
  <2> SUFFICES ASSUME NEW i \in 1 .. Len(Append(q, msg))
               PROVE  Append(q, msg)[i].type # "left"
    BY DEF NoneLeft
  <2>1. CASE i = Len(q) + 1
    BY <1>2, <2>1
  <2>2. CASE i \in 1 .. Len(q)
    BY <2>2 DEF NoneLeft
  <2> QED
    BY <2>1, <2>2
<1> QED
  BY <1>1, <1>2

\* The updates in q, the oldest one first, make T of a part S of the list of
\* room r: h[j] is what the part is after the first j updates, from the
\* beginning on or from an update on that gives the part anew.
Leads(q, r, S, T) ==
  \E i \in 0 .. Len(q), h \in [0 .. Len(q) -> SUBSET UserIds] :
    /\ \/ i = 0 /\ h[0] = S
       \/ i > 0 /\ q[i].type = "object" /\ r \in q[i].rooms /\ h[i] = q[i].parts[r]
    /\ \A j \in i + 1 .. Len(q) : h[j] = Applied(q[j], r, h[j - 1])
    /\ h[Len(q)] = T

LEMMA LeadsNowhere ==
  ASSUME NEW r \in Rooms, NEW S \in SUBSET UserIds
  PROVE  /\ Leads(<<>>, r, S, S)
         /\ \A T : Leads(<<>>, r, S, T) => T = S
<1>1. Leads(<<>>, r, S, S)
  <2> DEFINE h == [j \in 0 .. 0 |-> S]
  <2>1. h \in [0 .. 0 -> SUBSET UserIds] /\ h[0] = S
    OBVIOUS
  <2>2. Len(<<>>) = 0
    OBVIOUS
  <2> HIDE DEF h
  <2> QED
    BY <2>1, <2>2 DEF Leads
<1>2. ASSUME NEW T, Leads(<<>>, r, S, T)
      PROVE  T = S
  BY <1>2 DEF Leads
<1> QED
  BY <1>1, <1>2

\* The receiver applies the oldest update.
LEMMA LeadsTail ==
  ASSUME NEW q \in Seq(Updates), q # <<>>, NEW r \in Rooms, NEW S \in SUBSET UserIds, NEW T,
         Leads(q, r, S, T)
  PROVE  Leads(Tail(q), r, Applied(Head(q), r, S), T)
<1>1. PICK i \in 0 .. Len(q), h \in [0 .. Len(q) -> SUBSET UserIds] :
        /\ \/ i = 0 /\ h[0] = S
           \/ i > 0 /\ q[i].type = "object" /\ r \in q[i].rooms /\ h[i] = q[i].parts[r]
        /\ \A j \in i + 1 .. Len(q) : h[j] = Applied(q[j], r, h[j - 1])
        /\ h[Len(q)] = T
  BY DEF Leads
<1> DEFINE p == Tail(q)
           g == [j \in 0 .. Len(p) |-> h[j + 1]]
           k == IF i = 0 THEN 0 ELSE i - 1
<1>2. /\ Len(p) = Len(q) - 1 /\ Len(q) \in Nat /\ Len(q) > 0
      /\ \A j \in 1 .. Len(p) : p[j] = q[j + 1]
      /\ Head(q) = q[1]
  OBVIOUS
<1>3. g \in [0 .. Len(p) -> SUBSET UserIds] /\ \A j \in 0 .. Len(p) : g[j] = h[j + 1]
  BY <1>2
<1>4. k \in 0 .. Len(p)
  BY <1>2
<1> HIDE DEF p, g
<1>5. g[Len(p)] = T
  BY <1>1, <1>2, <1>3
<1>6. ASSUME NEW j \in k + 1 .. Len(p)
      PROVE  g[j] = Applied(p[j], r, g[j - 1])
  <2>1. j \in 1 .. Len(p) /\ j - 1 \in 0 .. Len(p) /\ j + 1 \in i + 1 .. Len(q) /\ j \in 0 .. Len(p)
    BY <1>2, <1>4
  <2>2. h[j + 1] = Applied(q[j + 1], r, h[(j + 1) - 1])
    BY <1>1, <2>1
  <2>3. g[j] = h[j + 1] /\ p[j] = q[j + 1] /\ g[j - 1] = h[(j - 1) + 1]
    BY <1>2, <1>3, <2>1
  <2>4. (j - 1) + 1 = (j + 1) - 1
    BY <2>1
  <2> QED
    BY <2>2, <2>3, <2>4
<1>7. \/ k = 0 /\ g[0] = Applied(Head(q), r, S)
      \/ k > 0 /\ p[k].type = "object" /\ r \in p[k].rooms /\ g[k] = p[k].parts[r]
  <2>1. CASE i = 0
    <3>1. h[1] = Applied(q[1], r, h[1 - 1]) /\ h[0] = S
      BY <1>1, <1>2, <2>1
    <3> QED
      BY <1>2, <1>3, <2>1, <3>1
  <2>2. CASE i = 1
    <3>1. q[1].type = "object" /\ r \in q[1].rooms /\ h[1] = q[1].parts[r]
      BY <1>1, <2>2
    <3>2. q[1] \in Updates
      BY <1>2
    <3>3. Applied(q[1], r, S) = q[1].parts[r]
      BY <3>1, <3>2 DEF Applied
    <3> QED
      BY <1>2, <1>3, <2>2, <3>1, <3>3
  <2>3. CASE i > 1
    <3>1. k = i - 1 /\ k > 0 /\ k \in 1 .. Len(p) /\ k + 1 = i
      BY <1>2, <2>3
    <3>2. p[k] = q[i] /\ g[k] = h[i]
      BY <1>2, <1>3, <3>1
    <3>3. q[i].type = "object" /\ r \in q[i].rooms /\ h[i] = q[i].parts[r]
      BY <1>1, <2>3
    <3> QED
      BY <3>1, <3>2, <3>3
  <2> QED
    BY <2>1, <2>2, <2>3
<1> HIDE DEF k
<1>8. Leads(p, r, Applied(Head(q), r, S), T)
  BY <1>3, <1>4, <1>5, <1>6, <1>7 DEF Leads
<1> QED
  BY <1>8 DEF p

\* The owner of the part applies an update and sends it.
LEMMA LeadsAppend ==
  ASSUME NEW q \in Seq(Updates), NEW r \in Rooms, NEW S, NEW T \in SUBSET UserIds,
         NEW msg \in Updates, Leads(q, r, S, T)
  PROVE  Leads(Append(q, msg), r, S, Applied(msg, r, T))
<1>1. PICK i \in 0 .. Len(q), h \in [0 .. Len(q) -> SUBSET UserIds] :
        /\ \/ i = 0 /\ h[0] = S
           \/ i > 0 /\ q[i].type = "object" /\ r \in q[i].rooms /\ h[i] = q[i].parts[r]
        /\ \A j \in i + 1 .. Len(q) : h[j] = Applied(q[j], r, h[j - 1])
        /\ h[Len(q)] = T
  BY DEF Leads
<1> DEFINE p == Append(q, msg)
           U == Applied(msg, r, T)
           g == [j \in 0 .. Len(q) + 1 |-> IF j = Len(q) + 1 THEN U ELSE h[j]]
<1>2. /\ Len(p) = Len(q) + 1 /\ Len(q) \in Nat
      /\ \A j \in 1 .. Len(q) : p[j] = q[j]
      /\ p[Len(q) + 1] = msg
  OBVIOUS
<1>3. U \in SUBSET UserIds
  BY AppliedType
<1> HIDE DEF p, U
<1>4. /\ g \in [0 .. Len(p) -> SUBSET UserIds]
      /\ g[Len(p)] = U
      /\ \A j \in 0 .. Len(q) : g[j] = h[j]
  BY <1>2, <1>3
<1> HIDE DEF g
<1>5. i \in 0 .. Len(p)
  BY <1>2
<1>6. \/ i = 0 /\ g[0] = S
      \/ i > 0 /\ p[i].type = "object" /\ r \in p[i].rooms /\ g[i] = p[i].parts[r]
  BY <1>1, <1>2, <1>4
<1>7. ASSUME NEW j \in i + 1 .. Len(p)
      PROVE  g[j] = Applied(p[j], r, g[j - 1])
  <2>1. CASE j = Len(q) + 1
    <3>1. g[j] = U /\ p[j] = msg /\ j - 1 = Len(q)
      BY <1>2, <1>4, <2>1
    <3>2. g[j - 1] = T
      BY <1>1, <1>2, <1>4, <3>1
    <3> QED
      BY <3>1, <3>2 DEF U
  <2>2. CASE j # Len(q) + 1
    <3>1. j \in i + 1 .. Len(q) /\ j - 1 \in 0 .. Len(q) /\ j \in 0 .. Len(q) /\ j \in 1 .. Len(q)
      BY <1>2, <2>2
    <3>2. h[j] = Applied(q[j], r, h[j - 1])
      BY <1>1, <3>1
    <3>3. g[j] = h[j] /\ g[j - 1] = h[j - 1] /\ p[j] = q[j]
      BY <1>2, <1>4, <3>1
    <3> QED
      BY <3>2, <3>3
  <2> QED
    BY <2>1, <2>2
<1>8. Leads(p, r, S, U)
  BY <1>4, <1>5, <1>6, <1>7 DEF Leads
<1> QED
  BY <1>8 DEF p, U

\* The owner sends its part anew.
LEMMA LeadsReset ==
  ASSUME NEW q \in Seq(Updates), NEW r \in Rooms, NEW S,
         NEW msg \in Updates, msg.type = "object", r \in msg.rooms
  PROVE  Leads(Append(q, msg), r, S, msg.parts[r])
<1> DEFINE p == Append(q, msg)
           T == msg.parts[r]
           g == [j \in 0 .. Len(p) |-> T]
<1>1. T \in SUBSET UserIds
  BY DEF Updates
<1>2. Len(p) = Len(q) + 1 /\ Len(q) \in Nat /\ p[Len(q) + 1] = msg
  OBVIOUS
<1> HIDE DEF p, T
<1>3. g \in [0 .. Len(p) -> SUBSET UserIds] /\ g[Len(p)] = T
  BY <1>1, <1>2
<1> HIDE DEF g
<1>4. /\ Len(p) \in 0 .. Len(p) /\ Len(p) > 0
      /\ p[Len(p)].type = "object" /\ r \in p[Len(p)].rooms /\ g[Len(p)] = p[Len(p)].parts[r]
      /\ \A j \in Len(p) + 1 .. Len(p) : g[j] = Applied(p[j], r, g[j - 1])
  BY <1>2, <1>3 DEF T
<1>5. Leads(p, r, S, T)
  BY <1>3, <1>4 DEF Leads
<1> QED
  BY <1>5 DEF p, T

\* Asking for the part of a room, and telling of the sender's rooms.
Pull(msg, r) == msg.type = "object" /\ msg.pull /\ r \in msg.rooms

Pulls(q, r) == \E i \in 1 .. Len(q) : Pull(q[i], r)

LEMMA PullsKept ==
  ASSUME NEW q \in Seq(Updates), NEW r
  PROVE  /\ q # <<>> => (Pulls(q, r) <=> Pull(Head(q), r) \/ Pulls(Tail(q), r))
         /\ \A msg \in Updates : Pulls(Append(q, msg), r) <=> Pulls(q, r) \/ Pull(msg, r)
<1>1. ASSUME q # <<>>
      PROVE  Pulls(q, r) <=> Pull(Head(q), r) \/ Pulls(Tail(q), r)
  <2>1. /\ Head(q) = q[1] /\ 1 \in 1 .. Len(q)
        /\ \A i \in 1 .. Len(Tail(q)) : Tail(q)[i] = q[i + 1] /\ i + 1 \in 1 .. Len(q)
        /\ \A i \in 1 .. Len(q) : i = 1 \/ (i - 1 \in 1 .. Len(Tail(q)) /\ Tail(q)[i - 1] = q[i])
    BY <1>1
  <2> QED
    BY <2>1 DEF Pulls
<1>2. ASSUME NEW msg \in Updates
      PROVE  Pulls(Append(q, msg), r) <=> Pulls(q, r) \/ Pull(msg, r)
  <2> DEFINE p == Append(q, msg)
  <2>1. /\ p[Len(q) + 1] = msg /\ Len(q) + 1 \in 1 .. Len(p)
        /\ \A i \in 1 .. Len(q) : p[i] = q[i] /\ i \in 1 .. Len(p)
        /\ \A i \in 1 .. Len(p) : i = Len(q) + 1 \/ i \in 1 .. Len(q)
    OBVIOUS
  <2> HIDE DEF p
  <2>2. Pulls(p, r) <=> Pulls(q, r) \/ Pull(msg, r)
    BY <2>1 DEF Pulls
  <2> QED
    BY <2>2 DEF p
<1> QED
  BY <1>1, <1>2

Announces(q) ==
  \E i \in 1 .. Len(q) : /\ q[i].type = "found"
                         /\ \A j \in i + 1 .. Len(q) : q[j].type # "left"

LEMMA AnnouncesKept ==
  ASSUME NEW q \in Seq(Updates)
  PROVE  /\ Announces(q) /\ q # <<>> =>
              Announces(Tail(q)) \/ (Head(q).type = "found" /\ NoneLeft(Tail(q)))
         /\ \A msg \in Updates :
              /\ msg.type = "found" => Announces(Append(q, msg))
              /\ Announces(q) /\ msg.type # "left" => Announces(Append(q, msg))
<1>1. ASSUME Announces(q), q # <<>>
      PROVE  Announces(Tail(q)) \/ (Head(q).type = "found" /\ NoneLeft(Tail(q)))
  <2> DEFINE p == Tail(q)
  <2>1. /\ Head(q) = q[1] /\ Len(p) = Len(q) - 1 /\ Len(q) \in Nat
        /\ \A i \in 1 .. Len(p) : p[i] = q[i + 1]
    BY <1>1
  <2> HIDE DEF p
  <2>2. PICK i \in 1 .. Len(q) : /\ q[i].type = "found"
                                 /\ \A j \in i + 1 .. Len(q) : q[j].type # "left"
    BY <1>1 DEF Announces
  <2>3. CASE i = 1
    <3>1. ASSUME NEW j \in 1 .. Len(p)
          PROVE  p[j].type # "left"
      <4>1. j + 1 \in i + 1 .. Len(q) /\ p[j] = q[j + 1]
        BY <2>1, <2>3
      <4> QED
        BY <2>2, <4>1
    <3> QED
      BY <2>1, <2>2, <2>3, <3>1 DEF NoneLeft, p
  <2>4. CASE i # 1
    <3>1. i - 1 \in 1 .. Len(p) /\ p[i - 1] = q[i]
      BY <2>1, <2>2, <2>4
    <3>2. ASSUME NEW j \in (i - 1) + 1 .. Len(p)
          PROVE  p[j].type # "left"
      <4>1. j + 1 \in i + 1 .. Len(q) /\ p[j] = q[j + 1]
        BY <2>1, <2>4
      <4> QED
        BY <2>2, <4>1
    <3>3. Announces(p)
      BY <2>2, <3>1, <3>2 DEF Announces
    <3> QED
      BY <3>3 DEF p
  <2> QED
    BY <2>3, <2>4
<1>2. ASSUME NEW msg \in Updates
      PROVE  /\ msg.type = "found" => Announces(Append(q, msg))
             /\ Announces(q) /\ msg.type # "left" => Announces(Append(q, msg))
  <2> DEFINE p == Append(q, msg)
  <2>1. /\ Len(p) = Len(q) + 1 /\ Len(q) \in Nat
        /\ p[Len(q) + 1] = msg
        /\ \A i \in 1 .. Len(q) : p[i] = q[i]
    OBVIOUS
  <2> HIDE DEF p
  <2>2. msg.type = "found" => Announces(p)
    BY <2>1 DEF Announces
  <2>3. ASSUME Announces(q), msg.type # "left"
        PROVE  Announces(p)
    <3>1. PICK i \in 1 .. Len(q) : /\ q[i].type = "found"
                                   /\ \A j \in i + 1 .. Len(q) : q[j].type # "left"
      BY <2>3 DEF Announces
    <3>2. i \in 1 .. Len(p) /\ p[i].type = "found"
      BY <2>1, <3>1
    <3>3. ASSUME NEW j \in i + 1 .. Len(p)
          PROVE  p[j].type # "left"
      <4>1. CASE j = Len(q) + 1
        BY <2>1, <2>3, <4>1
      <4>2. CASE j # Len(q) + 1
        <5>1. j \in i + 1 .. Len(q) /\ j \in 1 .. Len(q)
          BY <2>1, <4>2
        <5> QED
          BY <2>1, <3>1, <5>1
      <4> QED
        BY <4>1, <4>2
    <3> QED
      BY <3>2, <3>3 DEF Announces
  <2> QED
    BY <2>2, <2>3 DEF p
<1> QED
  BY <1>1, <1>2

\* What parting and joining do to the queues.
LEMMA PartEffect ==
  ASSUME Typed, NEW m \in Nodes, NEW n \in Nodes, NodesPart(m, n)
  PROVE  /\ m # n /\ UNCHANGED <<lists, copies>>
         /\ \A a, b \in Nodes :
              /\ b \in joined'[a] <=> b \in joined[a] /\ ~ (a = m /\ b = n) /\ ~ (a = n /\ b = m)
              /\ updates'[a][b] = IF (a = m /\ b = n) \/ (a = n /\ b = m)
                                  THEN <<[type |-> "left"]>> ELSE updates[a][b]
<1> DEFINE left == [type |-> "left"]
<1>0. /\ updates \in LinksOf(Updates) /\ joined \in [Nodes -> SUBSET Nodes]
      /\ left \in Updates
  BY MessageKinds DEF Typed, TypeOK, LinksOf
<1>1. /\ m # n /\ UNCHANGED <<lists, copies>>
      /\ joined' = Part(joined, m, n) /\ updates' = Sever(updates, m, n, left)
  BY DEF NodesPart, Typed, NoLoop
<1> HIDE DEF left
<1>2. \A a, b \in Nodes : b \in joined'[a] <=>
        b \in joined[a] /\ ~ (a = m /\ b = n) /\ ~ (a = n /\ b = m)
  BY <1>0, <1>1, JoinedNodes
<1>3. \A a, b \in Nodes : updates'[a][b] =
        IF (a = m /\ b = n) \/ (a = n /\ b = m) THEN <<left>> ELSE updates[a][b]
  BY <1>0, <1>1, SeverLinks
<1> QED
  BY <1>1, <1>2, <1>3 DEF left

Whole(n) == Parts(n, lists[n], FALSE)

LEMMA JoinEffect ==
  ASSUME Typed, NEW m \in Nodes, NEW n \in Nodes, NodesJoin(m, n)
  PROVE  /\ m # n /\ UNCHANGED <<lists, copies>>
         /\ Whole(m) \in Updates /\ Whole(n) \in Updates /\ [type |-> "found"] \in Updates
         /\ \A a, b \in Nodes :
              /\ b \in joined'[a] <=> b \in joined[a] \/ (a = m /\ b = n) \/ (a = n /\ b = m)
              /\ updates'[a][b] = IF (a = m /\ b = n) \/ (a = n /\ b = m)
                                  THEN Append(Append(updates[a][b], [type |-> "found"]), Whole(a))
                                  ELSE updates[a][b]
<1> DEFINE found == [type |-> "found"]
           links == Exchange(updates, m, n, found, found)
           ofM == Whole(m)
           ofN == Whole(n)
<1>0. /\ updates \in LinksOf(Updates) /\ joined \in [Nodes -> SUBSET Nodes]
      /\ found \in Updates
  BY MessageKinds DEF Typed, TypeOK, LinksOf
<1>1. /\ m # n /\ UNCHANGED <<lists, copies>>
      /\ joined' = Join(joined, m, n) /\ updates' = Exchange(links, m, n, ofM, ofN)
  BY DEF NodesJoin, Whole
<1>2. \A k \in Nodes : Whole(k) \in Updates
  <2> SUFFICES ASSUME NEW k \in Nodes
               PROVE  Whole(k) \in Updates
    OBVIOUS
  <2> DEFINE P == [r \in Rooms |-> IF r \in lists[k] THEN Own(k, r) ELSE {}]
  <2>0. /\ lists \in [Nodes -> SUBSET Rooms]
        /\ copies \in [Nodes -> [Nodes -> [Rooms -> SUBSET UserIds]]]
    BY DEF Typed, TypeOK
  <2>1. lists[k] \in SUBSET Rooms /\ copies[k][k] \in [Rooms -> SUBSET UserIds]
    BY <2>0
  <2>2. P \in [Rooms -> SUBSET UserIds]
    BY <2>1 DEF Own
  <2>3. Whole(k) = [type |-> "object", rooms |-> lists[k], parts |-> P, pull |-> FALSE]
    BY DEF Whole, Parts
  <2> HIDE DEF P
  <2> QED
    BY <2>1, <2>2, <2>3, MessageKinds
<1>3. ofM \in Updates /\ ofN \in Updates
  BY <1>2
<1> HIDE DEF found, ofM, ofN
<1>4. /\ links \in LinksOf(Updates)
      /\ \A a, b \in Nodes : links[a][b] =
           IF a = m /\ b = n THEN Append(updates[a][b], found)
           ELSE IF a = n /\ b = m THEN Append(updates[a][b], found)
           ELSE updates[a][b]
  BY <1>0, <1>1, ExchangeLinks
<1> HIDE DEF links
<1>5. \A a, b \in Nodes : updates'[a][b] =
        IF a = m /\ b = n THEN Append(links[a][b], ofM)
        ELSE IF a = n /\ b = m THEN Append(links[a][b], ofN)
        ELSE links[a][b]
  BY <1>1, <1>3, <1>4, ExchangeLinks
<1>6. \A a, b \in Nodes : updates'[a][b] =
        IF (a = m /\ b = n) \/ (a = n /\ b = m)
        THEN Append(Append(updates[a][b], found), Whole(a)) ELSE updates[a][b]
  BY <1>1, <1>4, <1>5 DEF ofM, ofN
<1>7. \A a, b \in Nodes : b \in joined'[a] <=>
        b \in joined[a] \/ (a = m /\ b = n) \/ (a = n /\ b = m)
  BY <1>0, <1>1, JoinedNodes
<1> QED
  BY <1>0, <1>1, <1>3, <1>6, <1>7 DEF found, ofM, ofN

Sym == \A m, n \in Nodes : n \in joined[m] <=> m \in joined[n]

\* A node that is joined with m has a list for every room of m, or is about to
\* be told of them.
Presence ==
  \A m, n \in Nodes : n \in joined[m] =>
    \/ Announces(updates[m][n])
    \/ NoneLeft(updates[m][n]) /\ \A r \in Rooms : OwnerOf[r] = m => r \in lists[n]

\* A node that m parted from has nothing of m, or is about to be told.
Parted ==
  \A m, n \in Nodes : m # n /\ n \notin joined[m] =>
    \/ updates[m][n] = <<[type |-> "left"]>>
    \/ /\ updates[m][n] = <<>>
       /\ \A r \in Rooms : copies[n][m][r] = {} /\ (OwnerOf[r] = m => r \notin lists[n])

\* What is under way from m makes n's copy of a part of m equal to the part,
\* unless n has still to be answered.
Content ==
  \A m, n \in Nodes, r \in Rooms :
    n \in joined[m] /\ r \in lists[m] /\ r \in lists[n] /\ ~ Pulls(updates[n][m], r)
      => Leads(updates[m][n], r, copies[n][m][r], Own(m, r))

Agreement == Typed /\ NoListNoMembers /\ Sym /\ Presence /\ Parted /\ Content

LEMMA AgreementTypes ==
  ASSUME Agreement
  PROVE  /\ Typed /\ AboutARoom /\ NoListNoMembers /\ Sym /\ Presence /\ Parted /\ Content
         /\ lists \in [Nodes -> SUBSET Rooms]
         /\ copies \in [Nodes -> [Nodes -> [Rooms -> SUBSET UserIds]]]
         /\ updates \in [Nodes -> [Nodes -> Seq(Updates)]]
         /\ joined \in [Nodes -> SUBSET Nodes]
         /\ \A m \in Nodes : m \notin joined[m]
         /\ \A m, n \in Nodes : updates[m][n] \in Seq(Updates)
         /\ \A m, n \in Nodes, r \in Rooms : copies[n][m][r] \in SUBSET UserIds
  BY SMTT(30) DEF Agreement, Typed, TypeOK, NoLoop

LEMMA AgreementIdle ==
  ASSUME Agreement, UNCHANGED <<lists, copies, updates, joined>>
  PROVE  NoListNoMembers' /\ Sym' /\ Presence' /\ Parted' /\ Content'
  BY DEF Agreement, NoListNoMembers, Sym, Presence, Parted, Content, Own

\* A change of members is applied by its node and sent to the others.
LEMMA AgreementUpdate ==
  ASSUME Agreement, NEW s \in Sessions, NEW q \in Rooms, NEW type \in {"add", "remove"},
         Update(s, type, q), UNCHANGED <<lists, joined>>
  PROVE  NoListNoMembers' /\ Sym' /\ Presence' /\ Parted' /\ Content'
<1> DEFINE msg == Message(type, s, q)
<1> USE AgreementTypes
<1>0. NodeOf[s] \in Nodes /\ UserOf[s] \in UserIds
  BY RoomMembersAssumption
<1>1. \A n, k \in Nodes, r \in Rooms :
        copies'[n][k][r] = IF n = NodeOf[s] /\ k = n /\ r = q /\ q \in lists[n]
                           THEN Updated(type, copies[n][k][r], UserOf[s])
                           ELSE copies[n][k][r]
  BY UpdateType
<1>2. /\ msg \in Updates
      /\ \A a, b \in Nodes : updates'[a][b] =
           IF a = NodeOf[s] /\ b \in joined[a] /\ q \in lists[a]
           THEN Append(updates[a][b], msg) ELSE updates[a][b]
  BY UpdateEffect
<1>3. /\ msg.type # "left" /\ msg.type # "object"
      /\ \A r \in Rooms, S \in SUBSET UserIds :
           Applied(msg, r, S) = IF r = q THEN Updated(type, S, UserOf[s]) ELSE S
  BY DEF Message, Applied, Updated
<1> HIDE DEF msg
<1>4. NoListNoMembers'
  <2> SUFFICES ASSUME NEW n \in Nodes, NEW k \in Nodes, NEW r \in Rooms, r \notin lists'[n]
               PROVE  copies'[n][k][r] = {}
    BY DEF NoListNoMembers
  <2>1. r \notin lists[n] /\ copies[n][k][r] = {}
    BY DEF NoListNoMembers
  <2>2. copies'[n][k][r] = IF n = NodeOf[s] /\ k = n /\ r = q /\ q \in lists[n]
                           THEN Updated(type, copies[n][k][r], UserOf[s])
                           ELSE copies[n][k][r]
    BY <1>1
  <2> QED
    BY <2>1, <2>2
<1>5. Sym'
  BY DEF Sym
<1>6. Presence'
  <2> SUFFICES ASSUME NEW m \in Nodes, NEW n \in Nodes, n \in joined'[m]
               PROVE  \/ Announces(updates'[m][n])
                      \/ /\ NoneLeft(updates'[m][n])
                         /\ \A r \in Rooms : OwnerOf[r] = m => r \in lists'[n]
    BY DEF Presence
  <2>1. updates'[m][n] = updates[m][n] \/ updates'[m][n] = Append(updates[m][n], msg)
    BY <1>2
  <2>2. Announces(updates[m][n]) => Announces(updates'[m][n])
    BY <1>2, <1>3, <2>1, AnnouncesKept
  <2>3. NoneLeft(updates[m][n]) => NoneLeft(updates'[m][n])
    BY <1>2, <1>3, <2>1, NoneLeftKept
  <2> QED
    BY <2>2, <2>3 DEF Presence
<1>7. Parted'
  <2> SUFFICES ASSUME NEW m \in Nodes, NEW n \in Nodes, m # n, n \notin joined'[m]
               PROVE  \/ updates'[m][n] = <<[type |-> "left"]>>
                      \/ /\ updates'[m][n] = <<>>
                         /\ \A r \in Rooms : /\ copies'[n][m][r] = {}
                                             /\ OwnerOf[r] = m => r \notin lists'[n]
    BY DEF Parted
  <2>1. updates'[m][n] = updates[m][n] /\ \A r \in Rooms : copies'[n][m][r] = copies[n][m][r]
    BY <1>1, <1>2
  <2> QED
    BY <2>1 DEF Parted
<1>8. Content'
  <2> SUFFICES ASSUME NEW m \in Nodes, NEW n \in Nodes, NEW r \in Rooms,
                      n \in joined'[m], r \in lists'[m], r \in lists'[n],
                      ~ Pulls(updates'[n][m], r)
               PROVE  Leads(updates'[m][n], r, copies'[n][m][r], copies'[m][m][r])
    BY DEF Content, Own
  <2>1. m # n
    OBVIOUS
  <2>2. ~ Pulls(updates[n][m], r)
    <3>1. updates'[n][m] = updates[n][m] \/ updates'[n][m] = Append(updates[n][m], msg)
      BY <1>2
    <3> QED
      BY <1>2, <3>1, PullsKept
  <2>3. Leads(updates[m][n], r, copies[n][m][r], copies[m][m][r])
    BY <2>2 DEF Content, Own
  <2>4. copies'[n][m][r] = copies[n][m][r]
    BY <1>1, <2>1
  <2>5. CASE m = NodeOf[s] /\ q \in lists[m]
    <3>1. updates'[m][n] = Append(updates[m][n], msg)
      BY <1>2, <2>5
    <3>2. copies'[m][m][r] = Applied(msg, r, copies[m][m][r])
      <4>1. Applied(msg, r, copies[m][m][r]) =
              IF r = q THEN Updated(type, copies[m][m][r], UserOf[s]) ELSE copies[m][m][r]
        BY <1>3
      <4>2. copies'[m][m][r] = IF m = NodeOf[s] /\ m = m /\ r = q /\ q \in lists[m]
                               THEN Updated(type, copies[m][m][r], UserOf[s])
                               ELSE copies[m][m][r]
        BY <1>1
      <4> QED
        BY <2>5, <4>1, <4>2
    <3>3. Leads(Append(updates[m][n], msg), r, copies[n][m][r],
                Applied(msg, r, copies[m][m][r]))
      BY <1>2, <2>3, LeadsAppend
    <3> QED
      BY <2>4, <3>1, <3>2, <3>3
  <2>6. CASE ~ (m = NodeOf[s] /\ q \in lists[m])
    <3>1. updates'[m][n] = updates[m][n] /\ copies'[m][m][r] = copies[m][m][r]
      BY <1>1, <1>2, <2>6
    <3> QED
      BY <2>3, <2>4, <3>1
  <2> QED
    BY <2>5, <2>6
<1> QED
  BY <1>4, <1>5, <1>6, <1>7, <1>8

\* What a node that takes a message sends, to whom, and what stays as it is.
LEMMA ReceivedQueues ==
  ASSUME Agreement, NEW m \in Nodes, NEW n \in Nodes, NEW msg, Received(msg, m, n)
  PROVE  \A a, b \in Nodes :
           /\ a = m /\ b = n => updates'[a][b] = Tail(updates[a][b])
           /\ a # n /\ ~ (a = m /\ b = n) => updates'[a][b] = updates[a][b]
           /\ a = n => \/ updates'[a][b] = updates[a][b]
                       \/ /\ b \in joined[a]
                          /\ \E new \in Updates : /\ new.type = "object"
                                                  /\ updates'[a][b] = Append(updates[a][b], new)
<1> DEFINE asking == Pulling(Created(msg, m, n))
           answer == Answer(n, msg)
<1>1. /\ asking \in Updates /\ m # n
      /\ \A a, b \in Nodes : a # n => updates'[a][b] =
           IF a = m /\ b = n THEN Tail(updates[a][b]) ELSE updates[a][b]
      /\ IF Created(msg, m, n) # {}
         THEN \A b \in Nodes : updates'[n][b] =
                IF b \in joined[n] THEN Append(updates[n][b], asking) ELSE updates[n][b]
         ELSE IF msg.type = "object" /\ msg.pull
         THEN /\ answer \in Updates
              /\ \A b \in Nodes : updates'[n][b] =
                   IF b = m /\ b \in joined[n] THEN Append(updates[n][b], answer)
                   ELSE updates[n][b]
         ELSE \A b \in Nodes : updates'[n][b] = updates[n][b]
  BY DEF Received
<1>2. asking.type = "object" /\ answer.type = "object"
  BY DEF Pulling, Answer, Parts
<1> HIDE DEF asking, answer
<1>3. ASSUME NEW b \in Nodes
      PROVE  \/ updates'[n][b] = updates[n][b]
             \/ /\ b \in joined[n]
                /\ \E new \in Updates : /\ new.type = "object"
                                        /\ updates'[n][b] = Append(updates[n][b], new)
  BY <1>1, <1>2
<1> QED
  BY <1>1, <1>3

LEMMA ReceivedPresence ==
  ASSUME Agreement, NEW m \in Nodes, NEW n \in Nodes, NEW msg, Received(msg, m, n),
         msg = Head(updates[m][n]), joined' = joined
  PROVE  NoListNoMembers' /\ Sym' /\ Presence' /\ Parted'
<1> USE AgreementTypes
<1>1. /\ m # n /\ updates[m][n] # <<>> /\ msg \in Updates
      /\ \A a \in Nodes :
           lists'[a] = IF a = n THEN Kept(msg, m, n) \cup Created(msg, m, n) ELSE lists[a]
      /\ \A a, k \in Nodes, r \in Rooms :
           copies'[a][k][r] = IF a # n THEN copies[a][k][r]
                              ELSE IF r \notin Kept(msg, m, n) THEN {}
                              ELSE IF k = m THEN Applied(msg, r, copies[a][k][r])
                              ELSE copies[a][k][r]
  BY DEF Received
<1>2. \A a, b \in Nodes :
        /\ a = m /\ b = n => updates'[a][b] = Tail(updates[a][b])
        /\ a # n /\ ~ (a = m /\ b = n) => updates'[a][b] = updates[a][b]
        /\ a = n => \/ updates'[a][b] = updates[a][b]
                    \/ /\ b \in joined[a]
                       /\ \E new \in Updates : /\ new.type = "object"
                                               /\ updates'[a][b] = Append(updates[a][b], new)
  BY ReceivedQueues
<1>3. \A r \in Rooms :
        /\ r \in Kept(msg, m, n) <=> r \in lists[n] /\ ~ (msg.type = "left" /\ OwnerOf[r] = m)
        /\ r \in Created(msg, m, n) <=> r \notin lists[n] /\ msg.type = "found" /\ OwnerOf[r] = m
  BY DEF Kept, Destroyed, Created
<1>4. NoListNoMembers'
  <2> SUFFICES ASSUME NEW a \in Nodes, NEW k \in Nodes, NEW r \in Rooms, r \notin lists'[a]
               PROVE  copies'[a][k][r] = {}
    BY DEF NoListNoMembers
  <2>1. CASE a = n
    BY <1>1, <2>1
  <2>2. CASE a # n
    BY SMTT(30), <1>1, <2>2 DEF NoListNoMembers
  <2> QED
    BY <2>1, <2>2
<1>5. Sym'
  BY DEF Sym
<1>6. Presence'
  <2> SUFFICES ASSUME NEW a \in Nodes, NEW b \in Nodes, b \in joined[a]
               PROVE  \/ Announces(updates'[a][b])
                      \/ /\ NoneLeft(updates'[a][b])
                         /\ \A r \in Rooms : OwnerOf[r] = a => r \in lists'[b]
    BY DEF Presence
  <2>1. \/ Announces(updates[a][b])
        \/ NoneLeft(updates[a][b]) /\ \A r \in Rooms : OwnerOf[r] = a => r \in lists[b]
    BY DEF Presence
  <2>2. updates[a][b] \in Seq(Updates) /\ a # b
    OBVIOUS
  <2>3. CASE a = m /\ b = n
    <3>1. updates'[a][b] = Tail(updates[a][b]) /\ updates[a][b] # <<>> /\ msg = Head(updates[a][b])
      BY <1>1, <1>2, <2>3
    <3>2. CASE Announces(updates[a][b])
      <4>1. CASE Announces(Tail(updates[a][b]))
        BY <3>1, <4>1
      <4>2. CASE msg.type = "found" /\ NoneLeft(Tail(updates[a][b]))
        <5>1. \A r \in Rooms : OwnerOf[r] = a => r \in lists'[b]
          BY <1>1, <1>3, <2>3, <4>2
        <5> QED
          BY <3>1, <4>2, <5>1
      <4> QED
        BY <2>2, <3>1, <3>2, <4>1, <4>2, AnnouncesKept
    <3>3. CASE /\ NoneLeft(updates[a][b])
               /\ \A r \in Rooms : OwnerOf[r] = a => r \in lists[b]
      <4>1. NoneLeft(Tail(updates[a][b])) /\ msg.type # "left"
        BY <2>2, <3>1, <3>3, NoneLeftKept
      <4>2. \A r \in Rooms : OwnerOf[r] = a => r \in lists'[b]
        BY <1>1, <1>3, <2>3, <3>3, <4>1
      <4> QED
        BY <3>1, <4>1, <4>2
    <3> QED
      BY <2>1, <3>2, <3>3
  <2>4. CASE a = n
    <3>1. lists'[b] = lists[b]
      BY <1>1, <2>2, <2>4
    <3>2. CASE updates'[a][b] = updates[a][b]
      BY <2>1, <3>1, <3>2
    <3>3. ASSUME NEW new \in Updates, new.type = "object",
                 updates'[a][b] = Append(updates[a][b], new)
          PROVE  \/ Announces(updates'[a][b])
                 \/ /\ NoneLeft(updates'[a][b])
                    /\ \A r \in Rooms : OwnerOf[r] = a => r \in lists'[b]
      <4>1. Announces(updates[a][b]) => Announces(Append(updates[a][b], new))
        BY <2>2, <3>3, AnnouncesKept
      <4>2. NoneLeft(updates[a][b]) => NoneLeft(Append(updates[a][b], new))
        BY <2>2, <3>3, NoneLeftKept
      <4> QED
        BY <2>1, <3>1, <3>3, <4>1, <4>2
    <3>4. \/ updates'[a][b] = updates[a][b]
          \/ \E new \in Updates : /\ new.type = "object"
                                  /\ updates'[a][b] = Append(updates[a][b], new)
      BY <1>2, <2>4
    <3> QED
      BY <3>2, <3>3, <3>4
  <2>5. CASE a # n /\ ~ (a = m /\ b = n)
    <3>1. updates'[a][b] = updates[a][b]
      BY <1>2, <2>5
    <3>2. ASSUME NEW r \in Rooms, OwnerOf[r] = a, r \in lists[b]
          PROVE  r \in lists'[b]
      <4>1. CASE b = n
        BY <1>1, <1>3, <2>5, <3>2, <4>1
      <4>2. CASE b # n
        BY <1>1, <3>2, <4>2
      <4> QED
        BY <4>1, <4>2
    <3> QED
      BY <2>1, <3>1, <3>2
  <2> QED
    BY <2>3, <2>4, <2>5
<1>7. Parted'
  <2> SUFFICES ASSUME NEW a \in Nodes, NEW b \in Nodes, a # b, b \notin joined[a]
               PROVE  \/ updates'[a][b] = <<[type |-> "left"]>>
                      \/ /\ updates'[a][b] = <<>>
                         /\ \A r \in Rooms : /\ copies'[b][a][r] = {}
                                             /\ OwnerOf[r] = a => r \notin lists'[b]
    BY DEF Parted
  <2>1. \/ updates[a][b] = <<[type |-> "left"]>>
        \/ /\ updates[a][b] = <<>>
           /\ \A r \in Rooms : copies[b][a][r] = {} /\ (OwnerOf[r] = a => r \notin lists[b])
    BY DEF Parted
  <2>2. CASE a = m /\ b = n
    <3>1. msg.type = "left" /\ updates'[a][b] = <<>>
      <4>1. updates[a][b] = <<[type |-> "left"]>> /\ updates'[a][b] = Tail(updates[a][b])
        BY <1>1, <1>2, <2>1, <2>2
      <4>2. Head(<<[type |-> "left"]>>) = [type |-> "left"] /\ Tail(<<[type |-> "left"]>>) = <<>>
        OBVIOUS
      <4> QED
        BY <2>2, <4>1, <4>2
    <3>2. ASSUME NEW r \in Rooms
          PROVE  copies'[b][a][r] = {}
      <4>1. Applied(msg, r, copies[b][a][r]) = {}
        BY <3>1 DEF Applied
      <4> QED
        BY <1>1, <2>2, <4>1
    <3>3. \A r \in Rooms : OwnerOf[r] = a => r \notin lists'[b]
      BY <1>1, <1>3, <2>2, <3>1
    <3> QED
      BY <3>1, <3>2, <3>3
  <2>3. CASE ~ (a = m /\ b = n)
    <3>1. updates'[a][b] = updates[a][b]
      BY <1>2, <2>3
    <3>2. ASSUME NEW r \in Rooms, copies[b][a][r] = {}
          PROVE  copies'[b][a][r] = {}
      <4>1. CASE b # n
        BY SMTT(30), <1>1, <3>2, <4>1
      <4>2. CASE b = n
        <5>1. copies'[b][a][r] = IF b # n THEN copies[b][a][r]
                                 ELSE IF r \notin Kept(msg, m, n) THEN {}
                                 ELSE IF a = m THEN Applied(msg, r, copies[b][a][r])
                                 ELSE copies[b][a][r]
          BY <1>1
        <5> QED
          BY <2>3, <3>2, <4>2, <5>1
      <4> QED
        BY <4>1, <4>2
    <3>3. ASSUME NEW r \in Rooms, OwnerOf[r] = a, r \notin lists[b]
          PROVE  r \notin lists'[b]
      <4>1. CASE b # n
        BY <1>1, <3>3, <4>1
      <4>2. CASE b = n
        BY <1>1, <1>3, <2>3, <3>3, <4>2
      <4> QED
        BY <4>1, <4>2
    <3> QED
      BY <2>1, <3>1, <3>2, <3>3
  <2> QED
    BY <2>2, <2>3
<1> QED
  BY <1>4, <1>5, <1>6, <1>7

LEMMA ReceivedContent ==
  ASSUME Agreement, NEW m \in Nodes, NEW n \in Nodes, NEW msg, Received(msg, m, n),
         msg = Head(updates[m][n]), joined' = joined
  PROVE  Content'
<1> DEFINE created == Created(msg, m, n)
           asking == Pulling(created)
           answer == Answer(n, msg)
<1> SUFFICES ASSUME NEW a \in Nodes, NEW b \in Nodes, NEW r \in Rooms,
                    b \in joined[a], r \in lists'[a], r \in lists'[b],
                    ~ Pulls(updates'[b][a], r)
             PROVE  Leads(updates'[a][b], r, copies'[b][a][r], copies'[a][a][r])
  BY DEF Content, Own
<1>0. /\ \A c, d \in Nodes : updates[c][d] \in Seq(Updates)
      /\ a # b /\ a \in joined[b]
      /\ copies[b][a][r] \in SUBSET UserIds /\ copies[a][a][r] \in SUBSET UserIds
      /\ lists \in [Nodes -> SUBSET Rooms]
  BY AgreementTypes DEF Sym
<1>1. /\ m # n /\ updates[m][n] # <<>> /\ msg \in Updates /\ asking \in Updates
      /\ \A c \in Nodes : lists'[c] = IF c = n THEN Kept(msg, m, n) \cup created ELSE lists[c]
      /\ \A c, k \in Nodes, q \in Rooms :
           copies'[c][k][q] = IF c # n THEN copies[c][k][q]
                              ELSE IF q \notin Kept(msg, m, n) THEN {}
                              ELSE IF k = m THEN Applied(msg, q, copies[c][k][q])
                              ELSE copies[c][k][q]
      /\ \A c, d \in Nodes : c # n => updates'[c][d] =
           IF c = m /\ d = n THEN Tail(updates[c][d]) ELSE updates[c][d]
  BY DEF Received
<1>2. IF created # {}
      THEN \A d \in Nodes : updates'[n][d] =
             IF d \in joined[n] THEN Append(updates[n][d], asking) ELSE updates[n][d]
      ELSE IF msg.type = "object" /\ msg.pull
      THEN /\ answer \in Updates
           /\ \A d \in Nodes : updates'[n][d] =
                IF d = m /\ d \in joined[n] THEN Append(updates[n][d], answer)
                ELSE updates[n][d]
      ELSE \A d \in Nodes : updates'[n][d] = updates[n][d]
  BY DEF Received
<1>3. /\ r \in Kept(msg, m, n) => r \in lists[n]
      /\ r \in created => r \notin lists[n] /\ msg.type = "found"
      /\ created # {} => msg.type = "found"
      /\ r \in created => created # {}
  BY DEF Kept, Destroyed, Created
<1>4. /\ asking.type = "object" /\ asking.rooms = created /\ asking.pull
      /\ asking.parts[r] = {}
  BY DEF Pulling, NoMembers
<1>5. /\ answer.type = "object" /\ ~ answer.pull /\ answer.rooms = msg.rooms \cap lists[n]
      /\ r \in answer.rooms => answer.parts[r] = copies[n][n][r]
  BY DEF Answer, Parts, Own
<1>6. Content
  BY AgreementTypes
\* A message that does not give the part of r, or is no pull for it.
<1>7. /\ r \notin created => \A T : Applied(asking, r, T) = T
      /\ r \notin answer.rooms => \A T : Applied(answer, r, T) = T
  BY <1>4, <1>5 DEF Applied
<1> HIDE DEF created, asking, answer
\* The part is one that n sees, then one that n owns, then neither.
<1>8. CASE b = n
  <2>1. a # n
    BY <1>0, <1>8
  <2>2. r \in Kept(msg, m, n)
    <3>1. SUFFICES ASSUME r \in created
                   PROVE  FALSE
      BY <1>1, <1>8
    <3>2. updates'[n][a] = Append(updates[n][a], asking)
      BY <1>0, <1>2, <1>3, <1>8, <3>1
    <3>3. Pulls(Append(updates[n][a], asking), r) <=> Pulls(updates[n][a], r) \/ Pull(asking, r)
      BY <1>0, <1>1, PullsKept
    <3> QED
      BY <1>4, <1>8, <3>1, <3>2, <3>3 DEF Pull
  <2>3. ~ Pulls(updates[n][a], r)
    <3>1. \/ updates'[n][a] = updates[n][a]
          \/ updates'[n][a] = Append(updates[n][a], asking)
          \/ updates'[n][a] = Append(updates[n][a], answer) /\ answer \in Updates
      BY <1>2
    <3>2. \A new \in Updates :
            Pulls(Append(updates[n][a], new), r) <=> Pulls(updates[n][a], r) \/ Pull(new, r)
      BY <1>0, PullsKept
    <3> QED
      BY <1>1, <1>8, <3>1, <3>2
  <2>4. r \in lists[a] /\ r \in lists[n]
    BY <1>1, <1>3, <2>1, <2>2
  <2>5. Leads(updates[a][n], r, copies[n][a][r], copies[a][a][r])
    BY <1>6, <1>8, <2>3, <2>4 DEF Content, Own
  <2>6. copies'[a][a][r] = copies[a][a][r]
    BY <1>1, <2>1
  <2>7. CASE a = m
    <3>1. updates'[a][n] = Tail(updates[a][n])
      BY <1>1, <2>1, <2>7
    <3>2. copies'[n][a][r] = Applied(msg, r, copies[n][a][r])
      BY <1>1, <2>2, <2>7
    <3>3. updates[a][n] # <<>> /\ msg = Head(updates[a][n])
      BY <1>1, <2>7
    <3>4. Leads(Tail(updates[a][n]), r, Applied(Head(updates[a][n]), r, copies[n][a][r]),
                copies[a][a][r])
      BY <1>0, <1>8, <2>5, <3>3, LeadsTail
    <3> QED
      BY <1>8, <2>6, <3>1, <3>2, <3>3, <3>4
  <2>8. CASE a # m
    <3>1. updates'[a][n] = updates[a][n]
      BY <1>1, <2>1, <2>8
    <3>2. copies'[n][a][r] = copies[n][a][r]
      BY <1>1, <2>2, <2>8
    <3> QED
      BY <1>8, <2>5, <2>6, <3>1, <3>2
  <2> QED
    BY <2>7, <2>8
<1>9. CASE a = n
  <2>1. b # n /\ lists'[b] = lists[b] /\ copies'[b][a][r] = copies[b][a][r]
    BY <1>0, <1>1, <1>9
  <2>2. ASSUME r \in created
        PROVE  Leads(updates'[a][b], r, copies'[b][a][r], copies'[a][a][r])
    <3>1. updates'[n][b] = Append(updates[n][b], asking)
      BY <1>2, <1>3, <1>9, <2>2
    <3>2. copies'[n][n][r] = {}
      BY <1>1, <1>3, <2>2
    <3>3. Leads(Append(updates[n][b], asking), r, copies[b][n][r], asking.parts[r])
      BY <1>0, <1>1, <1>4, <2>2, LeadsReset
    <3> QED
      BY <1>4, <1>9, <2>1, <3>1, <3>2, <3>3
  <2>3. ASSUME r \notin created
        PROVE  r \in Kept(msg, m, n) /\ r \in lists[n] /\ copies'[n][n][r] = copies[n][n][r]
    BY <1>1, <1>3, <1>9, <2>3
  \* Unless msg is a pull for r that b sent, b has asked for nothing.
  <2>4. ASSUME r \notin created, ~ (b = m /\ Pull(msg, r))
        PROVE  Leads(updates[a][b], r, copies[b][a][r], copies[a][a][r])
    <3>1. ~ Pulls(updates[b][a], r)
      <4>1. CASE b = m
        <5>1. /\ updates'[b][a] = Tail(updates[b][a]) /\ updates[b][a] # <<>>
              /\ msg = Head(updates[b][a])
          BY <1>1, <1>9, <4>1
        <5>2. Pulls(updates[b][a], r) <=> Pull(msg, r) \/ Pulls(Tail(updates[b][a]), r)
          BY <1>0, <5>1, PullsKept
        <5> QED
          BY <2>4, <4>1, <5>1, <5>2
      <4>2. CASE b # m
        <5>1. updates'[b][a] = updates[b][a]
          BY <1>1, <2>1, <4>2
        <5> QED
          BY <5>1
      <4> QED
        BY <4>1, <4>2
    <3>2. r \in lists[a] /\ r \in lists[b]
      BY <1>9, <2>1, <2>3, <2>4
    <3> QED
      BY <1>6, <3>1, <3>2 DEF Content, Own
  <2>5. ASSUME r \notin created, NEW new \in Updates, new.type = "object", r \notin new.rooms,
               \A T : Applied(new, r, T) = T,
               ~ (b = m /\ Pull(msg, r)), updates'[n][b] = Append(updates[n][b], new)
        PROVE  Leads(updates'[a][b], r, copies'[b][a][r], copies'[a][a][r])
    <3>1. Leads(Append(updates[a][b], new), r, copies[b][a][r], Applied(new, r, copies[a][a][r]))
      BY <1>0, <2>4, <2>5, LeadsAppend
    <3> QED
      BY <1>9, <2>1, <2>3, <2>5, <3>1
  <2>6. CASE created # {} /\ r \notin created
    <3>1. updates'[n][b] = Append(updates[n][b], asking)
      BY <1>2, <1>9, <2>6
    <3>2. ~ Pull(msg, r)
      BY <1>3, <2>6 DEF Pull
    <3> QED
      BY <1>1, <1>4, <1>7, <2>5, <2>6, <3>1, <3>2
  <2>7. CASE created = {} /\ msg.type = "object" /\ msg.pull /\ b = m
    <3>1. updates'[n][b] = Append(updates[n][b], answer) /\ answer \in Updates
      BY <1>2, <1>9, <2>7
    <3>2. r \notin created
      BY <2>7
    <3>3. CASE r \in msg.rooms
      <4>1. r \in answer.rooms
        BY <1>5, <2>3, <3>2, <3>3
      <4>2. Leads(Append(updates[n][b], answer), r, copies[b][n][r], answer.parts[r])
        BY <1>0, <1>5, <3>1, <4>1, LeadsReset
      <4> QED
        BY <1>5, <1>9, <2>1, <2>3, <3>1, <3>2, <4>1, <4>2
    <3>4. CASE r \notin msg.rooms
      <4>1. r \notin answer.rooms /\ ~ Pull(msg, r)
        BY <1>5, <3>4 DEF Pull
      <4> QED
        BY <1>5, <1>7, <2>5, <3>1, <3>2, <4>1
    <3> QED
      BY <3>3, <3>4
  <2>8. CASE created = {} /\ ~ (msg.type = "object" /\ msg.pull /\ b = m)
    <3>1. updates'[n][b] = updates[n][b] /\ r \notin created /\ ~ (b = m /\ Pull(msg, r))
      BY <1>2, <2>8 DEF Pull
    <3> QED
      BY <1>9, <2>1, <2>3, <2>4, <3>1
  <2> QED
    BY <2>2, <2>6, <2>7, <2>8
<1>10. CASE a # n /\ b # n
  <2>1. updates'[a][b] = updates[a][b] /\ updates'[b][a] = updates[b][a]
    BY <1>1, <1>10
  <2>2. /\ copies'[b][a][r] = copies[b][a][r] /\ copies'[a][a][r] = copies[a][a][r]
        /\ r \in lists[a] /\ r \in lists[b]
    BY <1>1, <1>10
  <2>3. Leads(updates[a][b], r, copies[b][a][r], copies[a][a][r])
    BY <1>6, <2>1, <2>2 DEF Content, Own
  <2> QED
    BY <2>1, <2>2, <2>3
<1> QED
  BY <1>8, <1>9, <1>10

LEMMA AgreementPart ==
  ASSUME Agreement, NEW m \in Nodes, NEW n \in Nodes, NodesPart(m, n)
  PROVE  NoListNoMembers' /\ Sym' /\ Presence' /\ Parted' /\ Content'
<1> USE AgreementTypes
<1>1. /\ m # n /\ lists' = lists /\ copies' = copies
      /\ \A a, b \in Nodes :
           /\ b \in joined'[a] <=> b \in joined[a] /\ ~ (a = m /\ b = n) /\ ~ (a = n /\ b = m)
           /\ updates'[a][b] = IF (a = m /\ b = n) \/ (a = n /\ b = m)
                               THEN <<[type |-> "left"]>> ELSE updates[a][b]
  BY PartEffect
<1>2. NoListNoMembers'
  BY <1>1 DEF NoListNoMembers
<1>3. Sym'
  BY SMTT(30), <1>1 DEF Sym
<1>4. Presence'
  <2> SUFFICES ASSUME NEW a \in Nodes, NEW b \in Nodes, b \in joined'[a]
               PROVE  \/ Announces(updates'[a][b])
                      \/ /\ NoneLeft(updates'[a][b])
                         /\ \A r \in Rooms : OwnerOf[r] = a => r \in lists'[b]
    BY DEF Presence
  <2>1. b \in joined[a] /\ updates'[a][b] = updates[a][b] /\ lists'[b] = lists[b]
    BY <1>1
  <2> QED
    BY <2>1 DEF Presence
<1>5. Parted'
  <2> SUFFICES ASSUME NEW a \in Nodes, NEW b \in Nodes, a # b, b \notin joined'[a]
               PROVE  \/ updates'[a][b] = <<[type |-> "left"]>>
                      \/ /\ updates'[a][b] = <<>>
                         /\ \A r \in Rooms : /\ copies'[b][a][r] = {}
                                             /\ OwnerOf[r] = a => r \notin lists'[b]
    BY DEF Parted
  <2>1. CASE (a = m /\ b = n) \/ (a = n /\ b = m)
    BY <1>1, <2>1
  <2>2. CASE ~ ((a = m /\ b = n) \/ (a = n /\ b = m))
    <3>1. /\ b \notin joined[a] /\ updates'[a][b] = updates[a][b]
          /\ lists'[b] = lists[b] /\ copies' = copies
      BY <1>1, <2>2
    <3> QED
      BY <3>1 DEF Parted
  <2> QED
    BY <2>1, <2>2
<1>6. Content'
  <2> SUFFICES ASSUME NEW a \in Nodes, NEW b \in Nodes, NEW r \in Rooms,
                      b \in joined'[a], r \in lists'[a], r \in lists'[b],
                      ~ Pulls(updates'[b][a], r)
               PROVE  Leads(updates'[a][b], r, copies'[b][a][r], copies'[a][a][r])
    BY DEF Content, Own
  <2>1. /\ b \in joined[a] /\ updates'[a][b] = updates[a][b] /\ updates'[b][a] = updates[b][a]
        /\ lists' = lists /\ copies' = copies
    BY ZenonT(30), <1>1
  <2>2. Leads(updates[a][b], r, copies[b][a][r], copies[a][a][r])
    BY <2>1 DEF Content, Own
  <2> QED
    BY <2>1, <2>2
<1> QED
  BY <1>2, <1>3, <1>4, <1>5, <1>6

LEMMA AgreementJoin ==
  ASSUME Agreement, NEW m \in Nodes, NEW n \in Nodes, NodesJoin(m, n)
  PROVE  NoListNoMembers' /\ Sym' /\ Presence' /\ Parted' /\ Content'
<1> DEFINE found == [type |-> "found"]
           Pair(a, b) == (a = m /\ b = n) \/ (a = n /\ b = m)
<1> USE AgreementTypes
<1>1. /\ m # n /\ lists' = lists /\ copies' = copies
      /\ Whole(m) \in Updates /\ Whole(n) \in Updates /\ found \in Updates
      /\ \A a, b \in Nodes :
           /\ b \in joined'[a] <=> b \in joined[a] \/ (a = m /\ b = n) \/ (a = n /\ b = m)
           /\ updates'[a][b] = IF (a = m /\ b = n) \/ (a = n /\ b = m)
                               THEN Append(Append(updates[a][b], found), Whole(a))
                               ELSE updates[a][b]
  BY JoinEffect
<1>2. found.type = "found" /\ \A a \in Nodes : /\ Whole(a).type = "object"
                                               /\ Whole(a).rooms = lists[a]
                                               /\ \A r \in lists[a] :
                                                     Whole(a).parts[r] = copies[a][a][r]
  BY DEF Whole, Parts, Own
<1> HIDE DEF found
<1>3. NoListNoMembers'
  BY <1>1 DEF NoListNoMembers
<1>4. Sym'
  BY <1>1 DEF Sym
<1>5. ASSUME NEW a \in Nodes, NEW b \in Nodes, Pair(a, b)
      PROVE  /\ updates'[a][b] = Append(Append(updates[a][b], found), Whole(a))
             /\ Append(updates[a][b], found) \in Seq(Updates)
             /\ updates[a][b] \in Seq(Updates) /\ Whole(a) \in Updates
  <2>1. updates[a][b] \in Seq(Updates) /\ found \in Updates /\ Whole(a) \in Updates
    BY <1>1, <1>5
  <2>2. updates'[a][b] = Append(Append(updates[a][b], found), Whole(a))
    BY <1>1, <1>5
  <2> QED
    BY <2>1, <2>2
<1>6. ASSUME NEW a \in Nodes, NEW b \in Nodes, ~ Pair(a, b)
      PROVE  updates'[a][b] = updates[a][b] /\ (b \in joined'[a] <=> b \in joined[a])
  BY <1>1, <1>6
<1>7. \A a, b \in Nodes : Pair(a, b) <=> Pair(b, a)
  OBVIOUS
<1>8. \A a, b \in Nodes : Pair(a, b) => b \in joined'[a]
  BY <1>1
<1> HIDE DEF Pair
<1>9. Presence'
  <2> SUFFICES ASSUME NEW a \in Nodes, NEW b \in Nodes, b \in joined'[a]
               PROVE  \/ Announces(updates'[a][b])
                      \/ /\ NoneLeft(updates'[a][b])
                         /\ \A r \in Rooms : OwnerOf[r] = a => r \in lists'[b]
    BY DEF Presence
  <2>1. CASE Pair(a, b)
    <3>1. Announces(Append(updates[a][b], found))
      BY <1>1, <1>2, <1>5, <2>1, AnnouncesKept
    <3>2. Whole(a).type # "left"
      BY <1>2
    <3>3. Announces(Append(Append(updates[a][b], found), Whole(a)))
      BY <1>5, <2>1, <3>1, <3>2, AnnouncesKept
    <3> QED
      BY <1>5, <2>1, <3>3
  <2>2. CASE ~ Pair(a, b)
    <3>1. b \in joined[a] /\ updates'[a][b] = updates[a][b] /\ lists'[b] = lists[b]
      BY SMTT(30), <1>1, <1>6, <2>2
    <3> QED
      BY <3>1 DEF Presence
  <2> QED
    BY <2>1, <2>2
<1>10. Parted'
  <2> SUFFICES ASSUME NEW a \in Nodes, NEW b \in Nodes, a # b, b \notin joined'[a]
               PROVE  \/ updates'[a][b] = <<[type |-> "left"]>>
                      \/ /\ updates'[a][b] = <<>>
                         /\ \A r \in Rooms : /\ copies'[b][a][r] = {}
                                             /\ OwnerOf[r] = a => r \notin lists'[b]
    BY DEF Parted
  <2>1. /\ b \notin joined[a] /\ updates'[a][b] = updates[a][b]
        /\ lists'[b] = lists[b] /\ copies' = copies
    BY <1>1, <1>6, <1>8
  <2> QED
    BY <2>1 DEF Parted
<1>11. Content'
  <2> SUFFICES ASSUME NEW a \in Nodes, NEW b \in Nodes, NEW r \in Rooms,
                      b \in joined'[a], r \in lists'[a], r \in lists'[b],
                      ~ Pulls(updates'[b][a], r)
               PROVE  Leads(updates'[a][b], r, copies'[b][a][r], copies'[a][a][r])
    BY DEF Content, Own
  <2>1. CASE Pair(a, b)
    <3>1. r \in Whole(a).rooms /\ Whole(a).type = "object" /\ Whole(a).parts[r] = copies[a][a][r]
      BY SMTT(30), <1>1, <1>2
    <3>2. Leads(Append(Append(updates[a][b], found), Whole(a)), r, copies[b][a][r],
                Whole(a).parts[r])
      BY <1>5, <2>1, <3>1, LeadsReset
    <3>3. /\ updates'[a][b] = Append(Append(updates[a][b], found), Whole(a))
          /\ copies' = copies
      BY <1>1, <1>5, <2>1
    <3> QED
      BY <3>1, <3>2, <3>3
  <2>2. CASE ~ Pair(a, b)
    <3>1. /\ b \in joined[a] /\ updates'[a][b] = updates[a][b] /\ updates'[b][a] = updates[b][a]
          /\ lists' = lists /\ copies' = copies
      BY SMTT(30), <1>1, <1>6, <1>7, <2>2
    <3>2. Leads(updates[a][b], r, copies[b][a][r], copies[a][a][r])
      BY <3>1 DEF Content, Own
    <3> QED
      BY <3>1, <3>2
  <2> QED
    BY <2>1, <2>2
<1> QED
  BY <1>3, <1>4, <1>9, <1>10, <1>11

LEMMA AgreementStep ==
  ASSUME Agreement, [Next]_vars
  PROVE  NoListNoMembers' /\ Sym' /\ Presence' /\ Parted' /\ Content'
<1>0. Typed /\ AboutARoom
  BY DEF Agreement, Typed
<1> DEFINE Goal == NoListNoMembers' /\ Sym' /\ Presence' /\ Parted' /\ Content'
<1>1. UNCHANGED <<lists, copies, updates, joined>> => Goal
  BY AgreementIdle
<1>2. ASSUME NEW s \in Sessions,
             AddMember(s) \/ RemoveMember(s) \/ \E r \in Rooms : RemoveFrom(s, r)
      PROVE  Goal
  <2>1. PICK r \in Rooms, type \in {"add", "remove"} : Update(s, type, r)
    BY <1>0, <1>2 DEF AboutARoom, AddMember, RemoveMember, RemoveFrom
  <2>2. UNCHANGED <<lists, joined>>
    BY <1>2 DEF AddMember, RemoveMember, RemoveFrom
  <2> QED
    BY <2>1, <2>2, AgreementUpdate
<1>3. ASSUME NEW m \in Nodes, NEW n \in Nodes, ReceiveUpdate(m, n)
      PROVE  Goal
  <2>1. Received(Head(updates[m][n]), m, n)
    BY <1>0, <1>3, ReceiveEffect
  <2>2. PICK msg : msg = Head(updates[m][n]) /\ Received(msg, m, n)
    BY <2>1
  <2>3. joined' = joined
    BY <1>3 DEF ReceiveUpdate
  <2> QED
    BY <2>2, <2>3, ReceivedPresence, ReceivedContent
<1>4. ASSUME NEW m \in Nodes, NEW n \in Nodes, NodesPart(m, n) \/ NodesJoin(m, n)
      PROVE  Goal
  BY <1>4, AgreementPart, AgreementJoin
<1>5. ASSUME NEW s \in Sessions,
             \/ Connect(s) \/ Close(s) \/ Closed(s) \/ BroadcastJoin(s) \/ MergeMembers(s)
             \/ DeliverMembers(s) \/ BroadcastLeave(s) \/ BroadcastRemoval(s)
             \/ JoinFailed(s) \/ NothingToLeave(s)
             \/ \E q \in Rooms : JoinRoom(s, q) \/ LeaveRoom(s, q)
      PROVE  Goal
  BY <1>1, <1>5 DEF Connect, Close, Closed, BroadcastJoin, MergeMembers, DeliverMembers,
                    BroadcastLeave, BroadcastRemoval, JoinFailed, NothingToLeave, JoinRoom,
                    LeaveRoom, server, nodes
<1>6. ASSUME NEW m \in Nodes, NEW n \in Nodes, ReceiveCast(m, n)
      PROVE  Goal
  BY <1>1, <1>6 DEF ReceiveCast, server, nodes
<1>7. CASE UNCHANGED vars
  BY <1>1, <1>7 DEF vars
<1> HIDE DEF Goal
<1>8. CASE \E s \in Sessions : Connect(s) \/ Close(s) \/ Step(s)
  BY <1>2, <1>5, <1>8 DEF Goal, Step
<1>9. CASE \E s \in Sessions, r \in Rooms : JoinRoom(s, r) \/ LeaveRoom(s, r)
  BY <1>5, <1>9 DEF Goal
<1> QED
  BY <1>3, <1>4, <1>6, <1>7, <1>8, <1>9 DEF Goal, Next

\* Whatever parted, joined, was destroyed and created anew: when nothing is
\* under way, joined nodes have a list for each other's rooms and agree on each
\* other's parts, and parted ones have nothing of each other.
THEOREM ListsAgree == Spec => []NodesAgree
<1> DEFINE Rest == NoListNoMembers /\ Sym /\ Presence /\ Parted /\ Content
<1>1. ASSUME Init, Typed
      PROVE  Rest
  <2>1. \A m, n \in Nodes : updates[m][n] = <<>> /\ (n \in joined[m] <=> n # m)
    BY <1>1, InitialLinks DEF Init
  <2>2. \A r \in Rooms : Leads(<<>>, r, {}, {})
    BY LeadsNowhere
  <2>3. /\ \A n, k \in Nodes, r \in Rooms : copies[n][k][r] = {}
        /\ \A n \in Nodes : lists[n] = Rooms
    BY <1>1 DEF Init, NoMembers
  <2>4. NoneLeft(<<>>)
    BY DEF NoneLeft
  <2>5. Content
    <3> SUFFICES ASSUME NEW m \in Nodes, NEW n \in Nodes, NEW r \in Rooms
                 PROVE  Leads(updates[m][n], r, copies[n][m][r], copies[m][m][r])
      BY DEF Content, Own
    <3>1. updates[m][n] = <<>> /\ copies[n][m][r] = {} /\ copies[m][m][r] = {}
      BY <2>1, <2>3
    <3> QED
      BY <2>2, <3>1
  <2>6. Presence
    BY <2>1, <2>3, <2>4 DEF Presence
  <2>7. NoListNoMembers /\ Sym /\ Parted
    BY <2>1, <2>3 DEF NoListNoMembers, Sym, Parted
  <2> QED
    BY <2>5, <2>6, <2>7
<1>2. ASSUME Typed, Rest, [Next]_vars
      PROVE  Rest'
  <2>1. Agreement
    BY <1>2 DEF Agreement
  <2> QED
    BY <1>2, <2>1, AgreementStep
<1>3. ASSUME Typed, Rest
      PROVE  NodesAgree
  <2> SUFFICES ASSUME \A m, n \in Nodes : updates[m][n] = <<>>, NEW m \in Nodes, NEW n \in Nodes,
                      m # n, NEW r \in Rooms
               PROVE  IF n \in joined[m]
                      THEN /\ OwnerOf[r] = m => r \in lists[n]
                           /\ r \in lists[m] \cap lists[n] => copies[n][m][r] = Own(m, r)
                      ELSE /\ OwnerOf[r] = m => r \notin lists[n]
                           /\ copies[n][m][r] = {}
    BY DEF NodesAgree
  <2>0. Agreement
    BY <1>3 DEF Agreement
  <2>1. ~ Announces(<<>>) /\ ~ Pulls(<<>>, r)
    BY DEF Announces, Pulls
  <2>2. CASE n \in joined[m]
    <3>1. OwnerOf[r] = m => r \in lists[n]
      BY <1>3, <2>1, <2>2 DEF Presence
    <3>2. ASSUME r \in lists[m] \cap lists[n]
          PROVE  copies[n][m][r] = Own(m, r)
      <4>1. Leads(<<>>, r, copies[n][m][r], Own(m, r))
        BY <1>3, <2>1, <2>2, <3>2 DEF Content
      <4>2. copies[n][m][r] \in SUBSET UserIds
        BY <2>0, AgreementTypes
      <4> QED
        BY <4>1, <4>2, LeadsNowhere
    <3> QED
      BY <2>2, <3>1, <3>2
  <2>3. CASE n \notin joined[m]
    <3>1. updates[m][n] # <<[type |-> "left"]>>
      OBVIOUS
    <3> QED
      BY <1>3, <2>3, <3>1 DEF Parted
  <2> QED
    BY <2>2, <2>3
<1> HIDE DEF Rest
<1> QED
  BY <1>1, <1>2, <1>3, TypedAlways, PTL DEF Spec
=============================================================================
