---------------------------- MODULE RoomsProofs ----------------------------
(***************************************************************************)
(* Theorems about Rooms, for any nodes, sessions, rooms, names and bounds. *)
(***************************************************************************)
EXTENDS Rooms, TLAPS

-----------------------------------------------------------------------------
\* What the operators of OortLinks do to the queues between nodes, for any set
\* of messages.  No other proof of this module opens them.

\* One entry of a table is replaced and the others stay.
LEMMA TableUpdate ==
  ASSUME NEW S, NEW T, NEW V, NEW f \in [S -> [T -> V]],
         NEW i \in S, NEW j \in T, NEW v \in V
  PROVE  /\ [f EXCEPT ![i][j] = v] \in [S -> [T -> V]]
         /\ \A a \in S, b \in T :
              [f EXCEPT ![i][j] = v][a][b] = IF a = i /\ b = j THEN v ELSE f[a][b]
  OBVIOUS

\* In the beginning nothing is under way and every two nodes are joined.
LEMMA InitialLinks ==
  ASSUME NEW M
  PROVE  /\ NoLinks \in LinksOf(M)
         /\ \A m, n \in Nodes : NoLinks[m][n] = <<>>
         /\ AllJoined \in [Nodes -> SUBSET Nodes]
         /\ \A m, n \in Nodes : n \in AllJoined[m] <=> n # m
         /\ NoLoop(NoLinks, AllJoined)
  BY DEF NoLinks, AllJoined, LinksOf, NoLoop

\* Publishing appends to the queues from the sender to the nodes it reaches.
LEMMA PublishLinks ==
  ASSUME NEW M, NEW queues \in LinksOf(M), NEW m \in Nodes, NEW S, NEW msg \in M
  PROVE  /\ Publish(queues, m, S, msg) \in LinksOf(M)
         /\ \A a, b \in Nodes : Publish(queues, m, S, msg)[a][b] =
              IF a = m /\ b \in S THEN Append(queues[a][b], msg) ELSE queues[a][b]
<1> DEFINE row == [n \in Nodes |-> IF n \in S THEN Append(queues[m][n], msg) ELSE queues[m][n]]
<1>1. queues[m] \in [Nodes -> Seq(M)]
  BY DEF LinksOf
<1>2. \A n \in Nodes : queues[m][n] \in Seq(M) /\ Append(queues[m][n], msg) \in Seq(M)
  BY <1>1
<1>3. row \in [Nodes -> Seq(M)]
  BY <1>2
<1>4. Publish(queues, m, S, msg) = [queues EXCEPT ![m] = row]
  BY DEF Publish
<1> HIDE DEF row
<1>5. [queues EXCEPT ![m] = row] \in LinksOf(M)
  BY <1>3 DEF LinksOf
<1>6. \A a, b \in Nodes : [queues EXCEPT ![m] = row][a][b] = IF a = m THEN row[b] ELSE queues[a][b]
  BY DEF LinksOf
<1>7. \A b \in Nodes : row[b] = IF b \in S THEN Append(queues[m][b], msg) ELSE queues[m][b]
  BY DEF row
<1> QED
  BY <1>4, <1>5, <1>6, <1>7

\* Consuming drops the oldest message of one queue.
LEMMA ConsumeLinks ==
  ASSUME NEW M, NEW queues \in LinksOf(M), NEW m \in Nodes, NEW n \in Nodes,
         queues[m][n] # <<>>
  PROVE  /\ Consume(queues, m, n) \in LinksOf(M)
         /\ Head(queues[m][n]) \in M
         /\ \A a, b \in Nodes : Consume(queues, m, n)[a][b] =
              IF a = m /\ b = n THEN Tail(queues[a][b]) ELSE queues[a][b]
<1>1. queues[m][n] \in Seq(M)
  BY DEF LinksOf
<1>2. Tail(queues[m][n]) \in Seq(M) /\ Head(queues[m][n]) \in M
  BY <1>1
<1> QED
  BY <1>2 DEF Consume, LinksOf

\* Publishing to nodes that are reached and taking what was sent leave no
\* node anything from itself.
LEMMA StillNoLoop ==
  ASSUME NEW M, NEW queues \in LinksOf(M), NEW reach, NoLoop(queues, reach), NEW m \in Nodes
  PROVE  /\ \A S \in SUBSET reach[m], msg \in M : NoLoop(Publish(queues, m, S, msg), reach)
         /\ \A n \in Nodes : queues[m][n] # <<>> => NoLoop(Consume(queues, m, n), reach)
<1>1. ASSUME NEW S \in SUBSET reach[m], NEW msg \in M
      PROVE  NoLoop(Publish(queues, m, S, msg), reach)
  <2>1. m \notin S
    BY DEF NoLoop
  <2>2. \A a, b \in Nodes : Publish(queues, m, S, msg)[a][b] =
          IF a = m /\ b \in S THEN Append(queues[a][b], msg) ELSE queues[a][b]
    BY PublishLinks
  <2> QED
    BY <2>1, <2>2 DEF NoLoop
<1>2. ASSUME NEW n \in Nodes, queues[m][n] # <<>>
      PROVE  NoLoop(Consume(queues, m, n), reach)
  <2>1. m # n
    BY <1>2 DEF NoLoop
  <2> QED
    BY <1>2, <2>1, ConsumeLinks DEF NoLoop
<1> QED
  BY <1>1, <1>2

\* When two nodes part, each one's queue to the other is the farewell alone.
LEMMA SeverLinks ==
  ASSUME NEW M, NEW queues \in LinksOf(M), NEW m \in Nodes, NEW n \in Nodes,
         m # n, NEW left \in M
  PROVE  /\ Sever(queues, m, n, left) \in LinksOf(M)
         /\ \A a, b \in Nodes : Sever(queues, m, n, left)[a][b] =
              IF (a = m /\ b = n) \/ (a = n /\ b = m) THEN <<left>> ELSE queues[a][b]
<1>1. <<left>> \in Seq(M)
  OBVIOUS
<1> QED
  BY <1>1 DEF Sever, LinksOf

\* When two nodes join, each one's object is the last message to the other.
LEMMA ExchangeLinks ==
  ASSUME NEW M, NEW queues \in LinksOf(M), NEW m \in Nodes, NEW n \in Nodes,
         m # n, NEW ofM \in M, NEW ofN \in M
  PROVE  /\ Exchange(queues, m, n, ofM, ofN) \in LinksOf(M)
         /\ \A a, b \in Nodes : Exchange(queues, m, n, ofM, ofN)[a][b] =
              IF a = m /\ b = n THEN Append(queues[a][b], ofM)
              ELSE IF a = n /\ b = m THEN Append(queues[a][b], ofN)
              ELSE queues[a][b]
<1> DEFINE toN == Append(queues[m][n], ofM)
           toM == Append(queues[n][m], ofN)
<1>1. queues[m][n] \in Seq(M) /\ queues[n][m] \in Seq(M)
  BY DEF LinksOf
<1>2. toN \in Seq(M) /\ toM \in Seq(M)
  BY <1>1
<1>3. Exchange(queues, m, n, ofM, ofN) = [queues EXCEPT ![m][n] = toN, ![n][m] = toM]
  BY DEF Exchange
<1>4. \A a, b \in Nodes :
        /\ a = m /\ b = n => toN = Append(queues[a][b], ofM)
        /\ a = n /\ b = m => toM = Append(queues[a][b], ofN)
  OBVIOUS
<1> HIDE DEF toN, toM
<1>5. [queues EXCEPT ![m][n] = toN, ![n][m] = toM] \in LinksOf(M)
  BY <1>2 DEF LinksOf
<1>6. \A a, b \in Nodes : [queues EXCEPT ![m][n] = toN, ![n][m] = toM][a][b] =
        IF a = m /\ b = n THEN toN ELSE IF a = n /\ b = m THEN toM ELSE queues[a][b]
  BY SMTT(30) DEF LinksOf
<1> QED
  BY ZenonT(30), <1>3, <1>4, <1>5, <1>6

\* Parting and joining concern the two nodes only, and both of them.
LEMMA JoinedNodes ==
  ASSUME NEW reach \in [Nodes -> SUBSET Nodes], NEW m \in Nodes, NEW n \in Nodes,
         m # n
  PROVE  /\ Part(reach, m, n) \in [Nodes -> SUBSET Nodes]
         /\ Join(reach, m, n) \in [Nodes -> SUBSET Nodes]
         /\ \A a, b \in Nodes :
              /\ b \in Part(reach, m, n)[a] <=>
                   b \in reach[a] /\ ~ (a = m /\ b = n) /\ ~ (a = n /\ b = m)
              /\ b \in Join(reach, m, n)[a] <=>
                   b \in reach[a] \/ (a = m /\ b = n) \/ (a = n /\ b = m)
  BY DEF Part, Join

-----------------------------------------------------------------------------
Typed == TypeOK /\ NoLoop(links, joined)

\* The messages the actions send are of the declared kinds.
LEMMA MessageKinds ==
  /\ \A r \in Rooms, name \in Names : [type |-> "put", room |-> r, name |-> name] \in Messages
  /\ \A S \in RoomMaps : [type |-> "object", rooms |-> S] \in Messages
  /\ \A s \in Sessions, i \in 1 .. MaxEdits :
       /\ \A r \in Rooms, name \in Names :
            [type |-> "edit", from |-> s, id |-> i, room |-> r, name |-> name] \in Messages
       /\ [type |-> "edited", from |-> s, id |-> i] \in Messages
       /\ [type |-> "refused", from |-> s, id |-> i] \in Messages
  BY DEF Messages

\* What a message of each kind carries.
LEMMA MessageParts ==
  ASSUME NEW msg \in Messages
  PROVE  /\ msg.type \in {"put", "object", "edit", "edited", "refused"}
         /\ msg.type \in {"put", "edit"} => msg.room \in Rooms /\ msg.name \in Names
         /\ msg.type = "object" => msg.rooms \in RoomMaps
         /\ msg.type \in {"edit", "edited", "refused"} =>
              msg.from \in Sessions /\ msg.id \in 1 .. MaxEdits
  BY DEF Messages

\* A thread serves a session or what one node hears of another.
LEMMA ThreadParts ==
  /\ \A s \in Sessions : s \in Threads /\ Here(s) = NodeOf[s] /\ PartOf(s) = NodeOf[s]
  /\ \A m, n \in Nodes : /\ <<m, n>> \in Threads \ Sessions
                         /\ Here(<<m, n>>) = n /\ PartOf(<<m, n>>) = m
  /\ \A t \in Threads : Here(t) \in Nodes /\ PartOf(t) \in Nodes
  BY RoomsAssumption DEF Threads, Here, PartOf

\* Applying a message to a part of the map yields a part.
LEMMA AppliedType ==
  ASSUME NEW msg \in Messages, msg.type \in {"put", "object"}, NEW S \in RoomMaps
  PROVE  /\ Applied(msg, S) \in RoomMaps
         /\ Changes(msg, S) \in SUBSET Rooms
<1>1. msg.type = "put" => msg.room \in Rooms /\ msg.name \in Names
  BY MessageParts
<1>2. msg.type = "object" => msg.rooms \in RoomMaps
  BY MessageParts
<1> QED
  BY <1>1, <1>2 DEF Applied, Changes, RoomMaps

\* The merge of the maps is a list of rooms: a name where somebody has one.
LEMMA MergeType ==
  ASSUME Typed, NEW n \in Nodes
  PROVE  /\ Merge(n) \in RoomMaps
         /\ \A r \in Rooms : Merge(n)[r] = Find(n, r)
         /\ \A r \in Rooms : Find(n, r) # NoName <=> Owners(n, r) # {}
<1> DEFINE Chosen(r) == CHOOSE m \in Owners(n, r) : TRUE
<1>1. maps \in [Nodes -> [Nodes -> RoomMaps]]
  BY DEF Typed, TypeOK
<1>2. ASSUME NEW r \in Rooms, Owners(n, r) # {}
      PROVE  Chosen(r) \in Owners(n, r)
  BY <1>2
<1>3. ASSUME NEW r \in Rooms
      PROVE  /\ Find(n, r) \in Names \cup {NoName}
             /\ Find(n, r) # NoName <=> Owners(n, r) # {}
  <2>1. CASE Owners(n, r) = {}
    BY <2>1 DEF Find
  <2>2. CASE Owners(n, r) # {}
    <3>1. Find(n, r) = maps[n][Chosen(r)][r]
      BY <2>2 DEF Find
    <3>2. Chosen(r) \in Nodes /\ maps[n][Chosen(r)][r] # NoName
      BY <1>2, <2>2 DEF Owners
    <3> HIDE DEF Chosen
    <3> QED
      BY <1>1, <2>2, <3>1, <3>2 DEF RoomMaps
  <2> QED
    BY <2>1, <2>2
<1> QED
  BY <1>3 DEF Merge, RoomMaps

\* A name replaces another one, or none, in the part that a node owns.
LEMMA PutEffect ==
  ASSUME Typed, NEW n \in Nodes, NEW r \in Rooms, NEW name \in Names,
         maps' = [maps EXCEPT ![n][n][r] = name]
  PROVE  /\ maps' \in [Nodes -> [Nodes -> RoomMaps]]
         /\ \A a, b \in Nodes, q \in Rooms :
              maps'[a][b][q] = IF a = n /\ b = n /\ q = r THEN name ELSE maps[a][b][q]
  BY DEF Typed, TypeOK, RoomMaps

\* The oldest message of m to n: they are two nodes, and n takes it.
LEMMA HeardEffect ==
  ASSUME Typed, NEW m \in Nodes, NEW n \in Nodes, links[m][n] # <<>>
  PROVE  /\ m # n
         /\ links[m][n] \in Seq(Messages)
         /\ Head(links[m][n]) \in Messages
         /\ Consume(links, m, n) \in LinksOf(Messages)
         /\ \A a, b \in Nodes : Consume(links, m, n)[a][b] =
              IF a = m /\ b = n THEN Tail(links[a][b]) ELSE links[a][b]
<1>1. links \in LinksOf(Messages) /\ m # n /\ links[m][n] \in Seq(Messages)
  BY DEF Typed, TypeOK, LinksOf, NoLoop
<1> QED
  BY <1>1, ConsumeLinks

\* What n hears of the rooms of m is applied to the part of m.
LEMMA ReceiveRoomsEffect ==
  ASSUME Typed, NEW m \in Nodes, NEW n \in Nodes, ReceiveRooms(m, n)
  PROVE  /\ m # n
         /\ links[m][n] # <<>> /\ links[m][n] \in Seq(Messages)
         /\ Head(links[m][n]) \in Messages
         /\ Head(links[m][n]).type \in {"put", "object"}
         /\ links' \in LinksOf(Messages)
         /\ \A a, b \in Nodes : links'[a][b] =
              IF a = m /\ b = n THEN Tail(links[a][b]) ELSE links[a][b]
         /\ maps' \in [Nodes -> [Nodes -> RoomMaps]]
         /\ \A a, b \in Nodes : maps'[a][b] =
              IF a = n /\ b = m THEN Applied(Head(links[m][n]), maps[a][b]) ELSE maps[a][b]
         /\ Changes(Head(links[m][n]), maps[n][m]) \in SUBSET Rooms
<1> DEFINE msg == Head(links[m][n])
<1>1. links[m][n] # <<>> /\ msg.type \in {"put", "object"} /\ links' = Consume(links, m, n)
  BY DEF ReceiveRooms, Hears
<1>2. /\ m # n
      /\ links[m][n] \in Seq(Messages)
      /\ msg \in Messages
      /\ links' \in LinksOf(Messages)
      /\ \A a, b \in Nodes : links'[a][b] =
           IF a = m /\ b = n THEN Tail(links[a][b]) ELSE links[a][b]
  BY <1>1, HeardEffect
<1>3. maps \in [Nodes -> [Nodes -> RoomMaps]] /\ maps[n][m] \in RoomMaps
  BY DEF Typed, TypeOK
<1>4. maps' = [maps EXCEPT ![n][m] = Applied(msg, maps[n][m])]
  BY DEF ReceiveRooms
<1> HIDE DEF msg
<1>5. Applied(msg, maps[n][m]) \in RoomMaps /\ Changes(msg, maps[n][m]) \in SUBSET Rooms
  BY <1>1, <1>2, <1>3, AppliedType
<1> DEFINE part == Applied(msg, maps[n][m])
<1>6. /\ [maps EXCEPT ![n][m] = part] \in [Nodes -> [Nodes -> RoomMaps]]
      /\ \A a, b \in Nodes :
           [maps EXCEPT ![n][m] = part][a][b] = IF a = n /\ b = m THEN part ELSE maps[a][b]
  <2> HIDE DEF part
  <2>1. part \in RoomMaps
    BY <1>5 DEF part
  <2> QED
    BY ZenonT(30), <1>3, <2>1, TableUpdate
<1>7. /\ maps' \in [Nodes -> [Nodes -> RoomMaps]]
      /\ \A a, b \in Nodes :
           maps'[a][b] = IF a = n /\ b = m THEN Applied(msg, maps[a][b]) ELSE maps[a][b]
  BY <1>4, <1>6
<1> QED
  BY <1>1, <1>2, <1>5, <1>7 DEF msg

\* When nodes part, both are told that all rooms of the other are gone.
LEMMA NodesPartEffect ==
  ASSUME Typed, NEW m \in Nodes, NEW n \in Nodes, NodesPart(m, n)
  PROVE  /\ m # n
         /\ links' \in LinksOf(Messages)
         /\ \A a, b \in Nodes : links'[a][b] =
              IF (a = m /\ b = n) \/ (a = n /\ b = m)
              THEN <<[type |-> "object", rooms |-> NoRooms]>> ELSE links[a][b]
         /\ joined' \in [Nodes -> SUBSET Nodes]
         /\ \A a, b \in Nodes : b \in joined'[a] <=>
              b \in joined[a] /\ ~ (a = m /\ b = n) /\ ~ (a = n /\ b = m)
<1> DEFINE msg == [type |-> "object", rooms |-> NoRooms]
<1>1. /\ links \in LinksOf(Messages)
      /\ joined \in [Nodes -> SUBSET Nodes]
      /\ m # n
  BY DEF Typed, TypeOK, LinksOf, NoLoop, NodesPart
<1>2. msg \in Messages
  <2>1. NoRooms \in RoomMaps
    BY DEF NoRooms, RoomMaps
  <2> QED
    BY <2>1, MessageKinds
<1>3. links' = Sever(links, m, n, msg) /\ joined' = Part(joined, m, n)
  BY DEF NodesPart
<1> HIDE DEF msg
<1>4. /\ links' \in LinksOf(Messages)
      /\ \A a, b \in Nodes : links'[a][b] =
           IF (a = m /\ b = n) \/ (a = n /\ b = m) THEN <<msg>> ELSE links[a][b]
  BY SMTT(30), <1>1, <1>2, <1>3, SeverLinks
<1>5. /\ joined' \in [Nodes -> SUBSET Nodes]
      /\ \A a, b \in Nodes : b \in joined'[a] <=>
           b \in joined[a] /\ ~ (a = m /\ b = n) /\ ~ (a = n /\ b = m)
  BY <1>1, <1>3, JoinedNodes
<1> QED
  BY <1>1, <1>4, <1>5 DEF msg

\* When nodes join, each one sends the rooms it owns.
LEMMA NodesJoinEffect ==
  ASSUME Typed, NEW m \in Nodes, NEW n \in Nodes, NodesJoin(m, n)
  PROVE  /\ m # n
         /\ links' \in LinksOf(Messages)
         /\ \A a, b \in Nodes : links'[a][b] =
              IF (a = m /\ b = n) \/ (a = n /\ b = m)
              THEN Append(links[a][b], [type |-> "object", rooms |-> maps[a][a]])
              ELSE links[a][b]
         /\ joined' \in [Nodes -> SUBSET Nodes]
         /\ \A a, b \in Nodes : b \in joined'[a] <=>
              b \in joined[a] \/ (a = m /\ b = n) \/ (a = n /\ b = m)
<1> DEFINE ofM == [type |-> "object", rooms |-> maps[m][m]]
           ofN == [type |-> "object", rooms |-> maps[n][n]]
<1>1. /\ links \in LinksOf(Messages)
      /\ joined \in [Nodes -> SUBSET Nodes]
      /\ maps[m][m] \in RoomMaps /\ maps[n][n] \in RoomMaps
      /\ m # n
  BY DEF Typed, TypeOK, LinksOf, NodesJoin
<1>2. ofM \in Messages /\ ofN \in Messages
  BY <1>1, MessageKinds
<1>3. links' = Exchange(links, m, n, ofM, ofN) /\ joined' = Join(joined, m, n)
  BY DEF NodesJoin
<1>4. /\ links' \in LinksOf(Messages)
      /\ \A a, b \in Nodes : links'[a][b] =
           IF a = m /\ b = n THEN Append(links[a][b], ofM)
           ELSE IF a = n /\ b = m THEN Append(links[a][b], ofN)
           ELSE links[a][b]
  <2> HIDE DEF ofM, ofN
  <2> QED
    BY SMTT(30), <1>1, <1>2, <1>3, ExchangeLinks
<1>5. /\ joined' \in [Nodes -> SUBSET Nodes]
      /\ \A a, b \in Nodes : b \in joined'[a] <=>
           b \in joined[a] \/ (a = m /\ b = n) \/ (a = n /\ b = m)
  BY <1>1, <1>3, JoinedNodes
<1> QED
  BY <1>1, <1>4, <1>5

\* An edit that n hears of: `rest' is what is under way without it, `put' what
\* n sends when it renames the room.
LEMMA ReceiveEditEffect ==
  ASSUME Typed, NEW m \in Nodes, NEW n \in Nodes, ReceiveEdit(m, n)
  PROVE  \E rest \in LinksOf(Messages), r \in Rooms, name \in Names, answer \in Messages :
           /\ links[m][n] # <<>> /\ rest = Consume(links, m, n)
           /\ Head(links[m][n]).type = "edit"
           /\ answer.type \in {"edited", "refused"}
           /\ \/ LET put == [type |-> "put", room |-> r, name |-> name]
                 IN /\ maps[n][n][r] # NoName
                    /\ maps' = [maps EXCEPT ![n][n][r] = name]
                    /\ links' = Publish(Publish(rest, n, joined[n], put),
                                        n, joined[n] \cap {m}, answer)
              \/ /\ links' = Publish(rest, n, joined[n] \cap {m}, answer)
                 /\ maps' = maps
              \/ links' = rest /\ maps' = maps
<1> DEFINE msg == Head(links[m][n])
           rest == Consume(links, m, n)
           Answer(type) == [type |-> type, from |-> msg.from, id |-> msg.id]
<1>1. links[m][n] # <<>> /\ msg.type = "edit"
  BY DEF ReceiveEdit, Hears
<1>2. msg \in Messages /\ rest \in LinksOf(Messages)
  BY <1>1, HeardEffect
<1>3. /\ msg.room \in Rooms /\ msg.name \in Names
      /\ msg.from \in Sessions /\ msg.id \in 1 .. MaxEdits
  BY <1>1, <1>2, MessageParts
<1>4. /\ Answer("edited") \in Messages /\ Answer("edited").type = "edited"
      /\ Answer("refused") \in Messages /\ Answer("refused").type = "refused"
  BY <1>3, MessageKinds
<1>5. \/ /\ maps[n][n][msg.room] # NoName
         /\ maps' = [maps EXCEPT ![n][n][msg.room] = msg.name]
         /\ links' = Publish(Publish(rest, n, joined[n],
                               [type |-> "put", room |-> msg.room, name |-> msg.name]),
                             n, joined[n] \cap {m}, Answer("edited"))
      \/ links' = Publish(rest, n, joined[n] \cap {m}, Answer("refused")) /\ maps' = maps
      \/ links' = rest /\ maps' = maps
  BY DEF ReceiveEdit
<1> HIDE DEF msg, rest, Answer
<1>6. rest = Consume(links, m, n) /\ Head(links[m][n]).type = "edit"
  BY <1>1 DEF rest, msg
<1> QED
  BY <1>1, <1>2, <1>3, <1>4, <1>5, <1>6

\* To the maps it is a new name for a room that n has, or nothing.
LEMMA ReceiveEditMaps ==
  ASSUME Typed, NEW m \in Nodes, NEW n \in Nodes, ReceiveEdit(m, n)
  PROVE  \E r \in Rooms, name \in Names :
           \/ maps[n][n][r] # NoName /\ maps' = [maps EXCEPT ![n][n][r] = name]
           \/ maps' = maps
<1> DEFINE Mapped(r, name) ==
             \/ maps[n][n][r] # NoName /\ maps' = [maps EXCEPT ![n][n][r] = name]
             \/ maps' = maps
<1>1. PICK rest \in LinksOf(Messages), r \in Rooms, name \in Names, answer \in Messages :
           /\ links[m][n] # <<>> /\ rest = Consume(links, m, n)
           /\ Head(links[m][n]).type = "edit"
           /\ answer.type \in {"edited", "refused"}
           /\ \/ LET put == [type |-> "put", room |-> r, name |-> name]
                 IN /\ maps[n][n][r] # NoName
                    /\ maps' = [maps EXCEPT ![n][n][r] = name]
                    /\ links' = Publish(Publish(rest, n, joined[n], put),
                                        n, joined[n] \cap {m}, answer)
              \/ /\ links' = Publish(rest, n, joined[n] \cap {m}, answer)
                 /\ maps' = maps
              \/ links' = rest /\ maps' = maps
  BY ReceiveEditEffect
<1>2. Mapped(r, name)
  BY <1>1
<1> QED
  BY <1>2

\* A session asks for an edit: it is executed here, forwarded or it fails.
LEMMA EditRoomEffect ==
  ASSUME Typed, NEW s \in Sessions, NEW r \in Rooms, NEW name \in Names, EditRoom(s, r, name)
  PROVE  LET n == NodeOf[s]
         IN \/ /\ Put(n, r, name, links)
               /\ maps[n][n][r] # NoName
               /\ stage' = [stage EXCEPT ![s] = "broadcast"]
               /\ request' = request
            \/ UNCHANGED <<maps, links, stage, request>>
            \/ \E msg \in Messages, S \in SUBSET joined[n] :
                 /\ msg.type = "edit"
                 /\ links' = Publish(links, n, S, msg)
                 /\ stage' = [stage EXCEPT ![s] = "waiting"]
                 /\ request' = [request EXCEPT ![s] = edits + 1]
                 /\ maps' = maps
<1> DEFINE msg == [type |-> "edit", from |-> s, id |-> edits + 1, room |-> r, name |-> name]
<1>1. edits + 1 \in 1 .. MaxEdits
  BY RoomsAssumption DEF EditRoom, Typed, TypeOK
<1>2. msg \in Messages /\ msg.type = "edit"
  BY <1>1, MessageKinds
<1>3. CASE EditOwn(s, r, name)
  BY <1>3 DEF EditOwn
<1>4. CASE ForwardEdit(s, r, name)
  <2>1. PICK m \in Nodes :
          /\ links' = Publish(links, NodeOf[s], joined[NodeOf[s]] \cap {m}, msg)
          /\ stage' = [stage EXCEPT ![s] = "waiting"]
          /\ request' = [request EXCEPT ![s] = edits + 1]
          /\ UNCHANGED maps
    BY <1>4 DEF ForwardEdit, Owners
  <2> HIDE DEF msg
  <2> QED
    BY <1>2, <2>1
<1>5. CASE UNCHANGED <<maps, links, stage, request>>
  BY <1>5
<1> QED
  BY <1>3, <1>4, <1>5 DEF EditRoom

-----------------------------------------------------------------------------
\* Typing.

LEMMA LinksType == TypeOK => links \in LinksOf(Messages)
  BY DEF TypeOK, LinksOf

\* What the queues are after publishing to nodes that are reached.
LEMMA PublishedTyped ==
  ASSUME NEW L \in LinksOf(Messages), NoLoop(L, joined), NEW n \in Nodes,
         NEW S \in SUBSET joined[n], NEW msg \in Messages
  PROVE  /\ Publish(L, n, S, msg) \in LinksOf(Messages)
         /\ NoLoop(Publish(L, n, S, msg), joined)
  BY PublishLinks, StillNoLoop

\* Steps of threads that only merge, send and tell listeners.
LEMMA StepTyped ==
  ASSUME Typed, NEW t \in Threads, Step(t)
  PROVE  Typed'
<1>0. TypeOK /\ NoLoop(links, joined) /\ Here(t) \in Nodes
  BY ThreadParts DEF Typed
<1>1. CASE RoomsChanged(t)
  <2> DEFINE there == {r \in changed[t] : maps[Here(t)][PartOf(t)][r] # NoName}
  <2>1. changed[t] \in SUBSET Rooms /\ lists[Here(t)] \in SUBSET Rooms
    BY <1>0 DEF TypeOK
  <2>2. there \in SUBSET Rooms
    BY <2>1
  <2>3. lists' = [lists EXCEPT ![Here(t)] = (@ \ changed[t]) \cup there]
    BY <1>1 DEF RoomsChanged
  <2> HIDE DEF there
  <2>4. lists' \in [Nodes -> SUBSET Rooms]
    BY <1>0, <2>1, <2>2, <2>3 DEF TypeOK
  <2> QED
    BY <1>0, <1>1, <2>4 DEF Typed, TypeOK, NoLoop, RoomsChanged, client, cluster
<1>2. CASE MergeRooms(t)
  <2>1. Merge(Here(t)) \in RoomMaps
    BY <1>0, MergeType
  <2> QED
    BY <1>0, <1>2, <2>1 DEF Typed, TypeOK, NoLoop, MergeRooms, Keep, Older, client, cluster
<1>3. CASE SendRooms(t)
  <2>1. merged[t] \in RoomMaps /\ NoRooms \in RoomMaps
    BY <1>0 DEF TypeOK, NoRooms, RoomMaps
  <2>2. shown' \in [Sessions -> RoomMaps]
    BY <1>0, <1>3, <2>1 DEF TypeOK, SendRooms
  <2>3. missed' \in SUBSET Sessions
    <3>1. \/ missed' = missed \cup Told(t)
          \/ missed' = (missed \ Told(t)) \cup Unreached(t)
          \/ missed' = missed
      BY <1>3 DEF SendRooms
    <3>2. missed \in SUBSET Sessions /\ Unreached(t) \in SUBSET Sessions
      BY <1>0 DEF TypeOK, Unreached
    <3>3. Told(t) \in SUBSET Sessions
      BY DEF Told
    <3> QED
      BY <3>1, <3>2, <3>3
  <2> QED
    BY <1>0, <1>3, <2>1, <2>2, <2>3 DEF Typed, TypeOK, NoLoop, SendRooms, cluster
<1> QED
  BY <1>1, <1>2, <1>3 DEF Step

\* Steps of sessions and their clients.
LEMMA SessionTyped ==
  ASSUME Typed, NEW s \in Sessions,
         \/ Connect(s) \/ Subscribe(s) \/ Disconnect(s) \/ PutRoom(s) \/ CreateFailed(s)
         \/ Timeout(s)
         \/ \E r \in Rooms : CreateRoom(s, r)
         \/ \E r \in Rooms, name \in Names : EditRoom(s, r, name)
  PROVE  Typed'
<1> USE DEF client, thread, work, cluster
<1>0. /\ TypeOK /\ NoLoop(links, joined) /\ links \in LinksOf(Messages)
      /\ s \in Threads /\ NodeOf[s] \in Nodes
  BY ThreadParts, LinksType, RoomsAssumption DEF Typed
<1>1. CASE Connect(s)
  BY <1>0, <1>1 DEF Typed, TypeOK, NoLoop, Connect
<1>2. CASE Subscribe(s)
  BY <1>0, <1>2 DEF Typed, TypeOK, NoLoop, Subscribe
<1>3. CASE Disconnect(s)
  <2>1. NoRooms \in RoomMaps
    BY DEF NoRooms, RoomMaps
  <2> QED
    BY <1>0, <1>3, <2>1 DEF Typed, TypeOK, NoLoop, Disconnect
<1>4. CASE CreateFailed(s)
  BY <1>0, <1>4 DEF Typed, TypeOK, NoLoop, CreateFailed
<1>5. CASE Timeout(s)
  <2>1. 0 \in 0 .. MaxEdits
    BY RoomsAssumption
  <2> QED
    BY <1>0, <1>5, <2>1 DEF Typed, TypeOK, NoLoop, Timeout
<1>6. ASSUME NEW r \in Rooms, CreateRoom(s, r)
      PROVE  Typed'
  BY <1>0, <1>6 DEF Typed, TypeOK, NoLoop, CreateRoom
<1>7. ASSUME NEW r \in Rooms, NEW name \in Names, Put(NodeOf[s], r, name, links)
      PROVE  /\ maps' \in [Nodes -> [Nodes -> RoomMaps]]
             /\ links' \in LinksOf(Messages)
             /\ NoLoop(links', joined)
  <2> DEFINE msg == [type |-> "put", room |-> r, name |-> name]
  <2>1. msg \in Messages
    BY MessageKinds
  <2>2. links' = Publish(links, NodeOf[s], joined[NodeOf[s]], msg)
    BY <1>7 DEF Put
  <2>3. maps' \in [Nodes -> [Nodes -> RoomMaps]]
    BY <1>0, <1>7, PutEffect DEF Put
  <2> HIDE DEF msg
  <2> QED
    BY <1>0, <2>1, <2>2, <2>3, PublishedTyped
<1>8. CASE PutRoom(s)
  <2>1. PICK r \in changed[s] : Put(NodeOf[s], r, FirstName, links)
    BY <1>8 DEF PutRoom
  <2>2. r \in Rooms /\ FirstName \in Names
    BY <1>0, RoomsAssumption DEF TypeOK
  <2> QED
    BY <1>0, <1>7, <1>8, <2>1, <2>2 DEF Typed, TypeOK, LinksOf, NoLoop, PutRoom
<1>9. ASSUME NEW r \in Rooms, NEW name \in Names, EditRoom(s, r, name)
      PROVE  Typed'
  <2>1. edits' \in 0 .. MaxEdits /\ edits + 1 \in 0 .. MaxEdits
    BY <1>0, <1>9, RoomsAssumption DEF EditRoom, TypeOK
  <2>2. /\ maps' \in [Nodes -> [Nodes -> RoomMaps]]
        /\ links' \in LinksOf(Messages)
        /\ NoLoop(links', joined)
    <3>1. CASE Put(NodeOf[s], r, name, links)
      BY <1>7, <3>1
    <3>2. CASE UNCHANGED <<maps, links>>
      BY <1>0, <3>2 DEF TypeOK
    <3>3. ASSUME NEW msg \in Messages, NEW S \in SUBSET joined[NodeOf[s]],
                 links' = Publish(links, NodeOf[s], S, msg), maps' = maps
          PROVE  /\ maps' \in [Nodes -> [Nodes -> RoomMaps]]
                 /\ links' \in LinksOf(Messages)
                 /\ NoLoop(links', joined)
      BY <1>0, <3>3, PublishedTyped DEF TypeOK
    <3> QED
      BY <1>9, <3>1, <3>2, <3>3, EditRoomEffect
  <2>3. /\ stage' \in [Threads -> {"idle", "put", "changed", "broadcast", "publish",
                                   "welcome", "deliver", "waiting"}]
        /\ request' \in [Sessions -> 0 .. MaxEdits]
    <3>1. \/ stage' = [stage EXCEPT ![s] = "broadcast"] /\ request' = request
          \/ UNCHANGED <<stage, request>>
          \/ /\ stage' = [stage EXCEPT ![s] = "waiting"]
             /\ request' = [request EXCEPT ![s] = edits + 1]
      BY <1>9, EditRoomEffect
    <3> QED
      BY ZenonT(30), <1>0, <2>1, <3>1 DEF TypeOK
  <2> QED
    BY <1>0, <1>9, <2>1, <2>2, <2>3 DEF Typed, TypeOK, LinksOf, NoLoop, EditRoom
<1> QED
  BY <1>1, <1>2, <1>3, <1>4, <1>5, <1>6, <1>8, <1>9

\* Steps of the threads between two nodes, and of the cluster.
LEMMA ClusterTyped ==
  ASSUME Typed, NEW m \in Nodes, NEW n \in Nodes,
         Receive(m, n) \/ NodesPart(m, n) \/ NodesJoin(m, n)
  PROVE  Typed'
<1> USE DEF client, thread, work, cluster
<1>0. /\ TypeOK /\ NoLoop(links, joined) /\ links \in LinksOf(Messages)
      /\ <<m, n>> \in Threads
  BY ThreadParts, LinksType DEF Typed
<1>1. CASE ReceiveRooms(m, n)
  <2> DEFINE rooms == Changes(Head(links[m][n]), maps[n][m])
  <2>1. /\ m # n
        /\ links' \in LinksOf(Messages)
        /\ \A a \in Nodes : links'[a][a] = links[a][a]
        /\ maps' \in [Nodes -> [Nodes -> RoomMaps]]
        /\ rooms \in SUBSET Rooms
    BY <1>1, ReceiveRoomsEffect
  <2>2. /\ changed' = [changed EXCEPT ![<<m, n>>] = rooms]
        /\ stage' = [stage EXCEPT ![<<m, n>>] = IF rooms = {} THEN "idle" ELSE "changed"]
        /\ UNCHANGED <<client, merged, overtaken, request, lists, ids, cluster, edits>>
    BY <1>1 DEF ReceiveRooms
  <2> HIDE DEF rooms
  <2>3. /\ changed' \in [Threads -> SUBSET Rooms]
        /\ stage' \in [Threads -> {"idle", "put", "changed", "broadcast", "publish",
                                   "welcome", "deliver", "waiting"}]
    BY <1>0, <2>1, <2>2 DEF TypeOK
  <2> QED
    BY <1>0, <2>1, <2>2, <2>3 DEF Typed, TypeOK, LinksOf, NoLoop
<1>2. CASE ReceiveEdit(m, n)
  <2>1. PICK rest \in LinksOf(Messages), r \in Rooms, name \in Names, answer \in Messages :
           /\ links[m][n] # <<>> /\ rest = Consume(links, m, n)
           /\ Head(links[m][n]).type = "edit"
           /\ answer.type \in {"edited", "refused"}
           /\ \/ LET put == [type |-> "put", room |-> r, name |-> name]
                 IN /\ maps[n][n][r] # NoName
                    /\ maps' = [maps EXCEPT ![n][n][r] = name]
                    /\ links' = Publish(Publish(rest, n, joined[n], put),
                                        n, joined[n] \cap {m}, answer)
              \/ /\ links' = Publish(rest, n, joined[n] \cap {m}, answer)
                 /\ maps' = maps
              \/ links' = rest /\ maps' = maps
    BY <1>2, ReceiveEditEffect
  <2> DEFINE put == [type |-> "put", room |-> r, name |-> name]
             mid == Publish(rest, n, joined[n], put)
  <2>2. put \in Messages
    BY MessageKinds
  <2>3. NoLoop(rest, joined)
    BY <1>0, <2>1, StillNoLoop
  <2>4. joined[n] \in SUBSET joined[n] /\ joined[n] \cap {m} \in SUBSET joined[n]
    OBVIOUS
  <2>5. mid \in LinksOf(Messages) /\ NoLoop(mid, joined)
    <3> HIDE DEF put
    <3> QED
      BY <2>2, <2>3, <2>4, PublishedTyped
  <2>6. \A L \in LinksOf(Messages) : NoLoop(L, joined) =>
          /\ Publish(L, n, joined[n] \cap {m}, answer) \in LinksOf(Messages)
          /\ NoLoop(Publish(L, n, joined[n] \cap {m}, answer), joined)
    BY <2>4, PublishedTyped
  <2>7. \/ links' = Publish(mid, n, joined[n] \cap {m}, answer)
        \/ links' = Publish(rest, n, joined[n] \cap {m}, answer)
        \/ links' = rest
    BY <2>1
  <2>8. links' \in LinksOf(Messages) /\ NoLoop(links', joined)
    <3> HIDE DEF mid
    <3> QED
      BY <2>3, <2>5, <2>6, <2>7
  <2>9. maps' \in [Nodes -> [Nodes -> RoomMaps]]
    <3>1. CASE maps' = [maps EXCEPT ![n][n][r] = name]
      BY <3>1, PutEffect
    <3>2. CASE maps' = maps
      BY <1>0, <3>2 DEF TypeOK
    <3> QED
      BY <2>1, <3>1, <3>2
  <2> QED
    BY <1>0, <1>2, <2>8, <2>9 DEF Typed, TypeOK, LinksOf, NoLoop, ReceiveEdit
<1>3. CASE ReceiveAnswer(m, n)
  <2> DEFINE msg == Head(links[m][n])
  <2>1. /\ links[m][n] # <<>> /\ msg.type \in {"edited", "refused"}
        /\ links' = Consume(links, m, n)
        /\ UNCHANGED <<client, work, maps, lists, ids, cluster, edits>>
    BY <1>3 DEF ReceiveAnswer, Hears
  <2>2. links' \in LinksOf(Messages) /\ NoLoop(links', joined) /\ msg \in Messages
    BY <1>0, <2>1, HeardEffect, StillNoLoop
  <2>3. msg.from \in Sessions /\ msg.from \in Threads
    BY <2>1, <2>2, MessageParts, ThreadParts
  <2>4. \/ UNCHANGED <<stage, request>>
        \/ /\ stage' = [stage EXCEPT ![msg.from] = "idle",
                 ![<<m, n>>] = IF msg.type = "edited" THEN "broadcast" ELSE @]
           /\ request' = [request EXCEPT ![msg.from] = 0]
    BY <1>3 DEF ReceiveAnswer
  <2> HIDE DEF msg
  <2>5. 0 \in 0 .. MaxEdits
    BY RoomsAssumption
  <2>6. /\ stage' \in [Threads -> {"idle", "put", "changed", "broadcast", "publish",
                                   "welcome", "deliver", "waiting"}]
        /\ request' \in [Sessions -> 0 .. MaxEdits]
    <3> DEFINE Stages == {"idle", "put", "changed", "broadcast", "publish",
                          "welcome", "deliver", "waiting"}
               mid == [stage EXCEPT ![msg.from] = "idle"]
    <3>1. stage \in [Threads -> Stages] /\ request \in [Sessions -> 0 .. MaxEdits]
      BY <1>0 DEF TypeOK
    <3>2. mid \in [Threads -> Stages]
      BY <2>3, <3>1
    <3>3. stage' = stage \/ \E x \in Stages : stage' = [mid EXCEPT ![<<m, n>>] = x]
      <4>1. mid[<<m, n>>] \in Stages /\ "broadcast" \in Stages
        BY <1>0, <3>2
      <4>2. stage' = stage \/ stage' = [mid EXCEPT ![<<m, n>>] =
                                          IF msg.type = "edited" THEN "broadcast" ELSE @]
        BY <2>4
      <4> QED
        BY <4>1, <4>2
    <3> HIDE DEF mid
    <3>4. stage' \in [Threads -> Stages]
      BY <1>0, <3>1, <3>2, <3>3
    <3>5. request' \in [Sessions -> 0 .. MaxEdits]
      BY <2>3, <2>4, <2>5, <3>1
    <3> QED
      BY <3>4, <3>5
  <2> QED
    BY <1>0, <2>1, <2>2, <2>6 DEF Typed, TypeOK, LinksOf, NoLoop
<1>4. CASE NodesPart(m, n)
  <2>1. /\ m # n
        /\ links' \in LinksOf(Messages) /\ \A a \in Nodes : links'[a][a] = links[a][a]
        /\ joined' \in [Nodes -> SUBSET Nodes]
        /\ \A a \in Nodes : a \in joined'[a] => a \in joined[a]
    <3>1. m # n
      BY <1>4, NodesPartEffect
    <3> QED
      BY <1>4, <3>1, NodesPartEffect
  <2>2. partings' \in 0 .. MaxPartings
    BY <1>0, <1>4, RoomsAssumption DEF NodesPart, TypeOK
  <2> QED
    BY <1>0, <1>4, <2>1, <2>2 DEF Typed, TypeOK, LinksOf, NoLoop, NodesPart
<1>5. CASE NodesJoin(m, n)
  <2>1. /\ m # n
        /\ links' \in LinksOf(Messages) /\ \A a \in Nodes : links'[a][a] = links[a][a]
        /\ joined' \in [Nodes -> SUBSET Nodes]
        /\ \A a \in Nodes : a \in joined'[a] => a \in joined[a]
    <3>1. m # n
      BY <1>5, NodesJoinEffect
    <3> QED
      BY ZenonT(30), <1>5, <3>1, NodesJoinEffect
  <2> QED
    BY <1>0, <1>5, <2>1 DEF Typed, TypeOK, LinksOf, NoLoop, NodesJoin
<1> QED
  BY <1>1, <1>2, <1>3, <1>4, <1>5 DEF Receive

LEMMA TypedInit == Init => Typed
<1> SUFFICES ASSUME Init
             PROVE  Typed
  OBVIOUS
<1>1. /\ links \in LinksOf(Messages)
      /\ joined \in [Nodes -> SUBSET Nodes]
      /\ NoLoop(links, joined)
  BY InitialLinks DEF Init
<1>2. NoRooms \in RoomMaps /\ \A m \in Nodes : Loaded(m) \in RoomMaps
  BY RoomsAssumption DEF NoRooms, Loaded, RoomMaps
<1>3. 0 \in 0 .. MaxEdits /\ 0 \in 0 .. MaxPartings
  BY RoomsAssumption
<1> QED
  BY <1>1, <1>2, <1>3 DEF Init, Typed, TypeOK, LinksOf

\* Whatever holds of every step of a thread, a session and the cluster holds
\* of every step.
LEMMA TypedStep == Typed /\ [Next]_vars => Typed'
<1> SUFFICES ASSUME Typed, [Next]_vars
             PROVE  Typed'
  OBVIOUS
<1>1. CASE UNCHANGED vars
  BY <1>1 DEF Typed, TypeOK, NoLoop, vars
<1> QED
  BY <1>1, StepTyped, SessionTyped, ClusterTyped DEF Next

LEMMA TypedAlways == Spec => []Typed
  BY TypedInit, TypedStep, PTL DEF Spec

\* Every state of the room service is well typed.
THEOREM TypeCorrect == Spec => []TypeOK
<1>1. Typed => TypeOK
  BY DEF Typed
<1> QED
  BY <1>1, TypedAlways, PTL

-----------------------------------------------------------------------------
\* A room has one owner: whatever has to do with a room, a map, a message or
\* a change that a thread has to tell, has it from one node, the one that was
\* given its id, because an id is given once.

Tells(msg, r) ==
  \/ msg.type = "put" /\ msg.room = r
  \/ msg.type = "object" /\ msg.rooms[r] # NoName

\* Somebody sees r in the part of m ...
Seen(m, r) == \E n \in Nodes : maps[n][m][r] # NoName

\* ... m has sent word of it ...
Spread(L, m, r) == \E n \in Nodes : \E i \in 1 .. Len(L[m][n]) : Tells(L[m][n][i], r)

\* ... or a thread is at work on r as a room of m.
Changing(m, r) == \E t \in Threads : PartOf(t) = m /\ r \in changed[t]

Claims(m, r) == Seen(m, r) \/ Spread(links, m, r) \/ Changing(m, r)

OneClaim ==
  \A r \in Rooms, m \in Nodes : Claims(m, r) =>
    r \in ids /\ \A k \in Nodes : Claims(k, r) => k = m

LEMMA SpreadPublished ==
  ASSUME NEW L \in LinksOf(Messages), NEW n \in Nodes, NEW S, NEW msg \in Messages,
         NEW m \in Nodes, NEW r \in Rooms, Spread(Publish(L, n, S, msg), m, r)
  PROVE  Spread(L, m, r) \/ (m = n /\ Tells(msg, r))
<1> DEFINE K == Publish(L, n, S, msg)
<1>1. \A a, b \in Nodes : K[a][b] = IF a = n /\ b \in S THEN Append(L[a][b], msg) ELSE L[a][b]
  BY PublishLinks
<1> HIDE DEF K
<1>a. PICK b \in Nodes : \E i \in 1 .. Len(K[m][b]) : Tells(K[m][b][i], r)
  BY DEF Spread, K
<1>2. PICK i \in 1 .. Len(K[m][b]) : Tells(K[m][b][i], r)
  BY <1>a
<1>3. L[m][b] \in Seq(Messages)
  BY DEF LinksOf
<1>4. CASE K[m][b] = L[m][b]
  BY <1>2, <1>4 DEF Spread
<1>5. CASE m = n /\ K[m][b] = Append(L[m][b], msg)
  <2>1. CASE i \in 1 .. Len(L[m][b])
    <3>1. K[m][b][i] = L[m][b][i]
      BY <1>3, <1>5, <2>1
    <3> QED
      BY <1>2, <2>1, <3>1 DEF Spread
  <2>2. CASE i = Len(L[m][b]) + 1
    <3>1. K[m][b][i] = msg
      BY <1>3, <1>5, <2>2
    <3> QED
      BY <1>2, <1>5, <3>1
  <2>3. i \in 1 .. Len(L[m][b]) \/ i = Len(L[m][b]) + 1
    <3>1. Len(K[m][b]) = Len(L[m][b]) + 1 /\ Len(L[m][b]) \in Nat
      BY <1>3, <1>5
    <3> QED
      BY <1>2, <3>1
  <2> QED
    BY <2>1, <2>2, <2>3
<1> QED
  BY <1>1, <1>4, <1>5

LEMMA SpreadConsumed ==
  ASSUME NEW L \in LinksOf(Messages), NEW a \in Nodes, NEW b \in Nodes, L[a][b] # <<>>,
         NEW m \in Nodes, NEW r \in Rooms, Spread(Consume(L, a, b), m, r)
  PROVE  Spread(L, m, r)
<1> DEFINE K == Consume(L, a, b)
<1>1. \A c, d \in Nodes : K[c][d] = IF c = a /\ d = b THEN Tail(L[c][d]) ELSE L[c][d]
  BY ConsumeLinks
<1> HIDE DEF K
<1>a. PICK d \in Nodes : \E i \in 1 .. Len(K[m][d]) : Tells(K[m][d][i], r)
  BY DEF Spread, K
<1>2. PICK i \in 1 .. Len(K[m][d]) : Tells(K[m][d][i], r)
  BY <1>a
<1>3. CASE K[m][d] = L[m][d]
  BY <1>2, <1>3 DEF Spread
<1>4. CASE m = a /\ d = b /\ K[m][d] = Tail(L[m][d])
  <2>1. L[m][d] \in Seq(Messages) /\ L[m][d] # <<>>
    BY <1>4 DEF LinksOf
  <2>2. i + 1 \in 1 .. Len(L[m][d]) /\ K[m][d][i] = L[m][d][i + 1]
    BY <1>2, <1>4, <2>1
  <2> QED
    BY <1>2, <2>2 DEF Spread
<1> QED
  BY <1>1, <1>3, <1>4

\* Apart from asking for an id, no step of a session claims a room.
LEMMA SessionClaims ==
  ASSUME Typed, NEW s \in Sessions,
         \/ Connect(s) \/ Subscribe(s) \/ Disconnect(s) \/ PutRoom(s) \/ CreateFailed(s)
         \/ Timeout(s)
         \/ \E r \in Rooms, name \in Names : EditRoom(s, r, name),
         NEW k \in Nodes, NEW q \in Rooms, Claims(k, q)'
  PROVE  Claims(k, q)
<1> USE DEF client, thread, work, cluster
<1>0. /\ links \in LinksOf(Messages)
      /\ changed \in [Threads -> SUBSET Rooms]
      /\ s \in Threads /\ NodeOf[s] \in Nodes /\ PartOf(s) = NodeOf[s]
  BY ThreadParts, LinksType, RoomsAssumption DEF Typed, TypeOK
<1>1. CASE Connect(s) \/ Subscribe(s) \/ Disconnect(s) \/ Timeout(s)
  BY <1>1 DEF Claims, Seen, Spread, Changing, Connect, Subscribe, Disconnect, Timeout
<1>2. CASE CreateFailed(s)
  <2>1. Seen(k, q)' => Seen(k, q)
    BY <1>2 DEF Seen, CreateFailed
  <2>2. links' = links
    BY <1>2 DEF CreateFailed
  <2>3. Changing(k, q)' => Changing(k, q)
    BY <1>0, <1>2 DEF Changing, CreateFailed
  <2> QED
    BY <2>1, <2>2, <2>3 DEF Claims
\* A put claims the room for the node that puts it, which did so before.
<1>3. ASSUME NEW r \in Rooms, NEW name \in Names, Put(NodeOf[s], r, name, links),
             Claims(NodeOf[s], r), changed' = changed
      PROVE  Claims(k, q)
  <2> DEFINE msg == [type |-> "put", room |-> r, name |-> name]
             n == NodeOf[s]
  <2>1. msg \in Messages /\ (Tells(msg, q) => q = r)
    BY MessageKinds DEF Tells
  <2>2. links' = Publish(links, n, joined[n], msg)
    BY <1>3 DEF Put
  <2>3. \A a, b \in Nodes, p \in Rooms :
          maps'[a][b][p] = IF a = n /\ b = n /\ p = r THEN name ELSE maps[a][b][p]
    <3>1. maps' = [maps EXCEPT ![n][n][r] = name] /\ n \in Nodes
      BY <1>0, <1>3 DEF Put
    <3> HIDE DEF n
    <3> QED
      BY SMTT(30), <3>1 DEF Typed, TypeOK, RoomMaps
  <2> HIDE DEF msg, n
  <2>4. CASE Seen(k, q)'
    <3>1. PICK a \in Nodes : maps'[a][k][q] # NoName
      BY <2>4 DEF Seen
    <3>2. (k = n /\ q = r) \/ maps[a][k][q] # NoName
      BY <2>3, <3>1
    <3> QED
      BY <1>3, <3>2 DEF Seen, Claims, n
  <2>5. CASE Spread(links', k, q)
    <3>1. n \in Nodes
      BY <1>0 DEF n
    <3>2. Spread(links, k, q) \/ (k = n /\ q = r)
      BY <1>0, <2>1, <2>2, <2>5, <3>1, SpreadPublished
    <3> QED
      BY <1>3, <3>2 DEF Claims, n
  <2>6. CASE Changing(k, q)'
    BY <1>3, <2>6 DEF Changing, Claims
  <2> QED
    BY <2>4, <2>5, <2>6 DEF Claims
<1>4. CASE PutRoom(s)
  <2>1. PICK r \in changed[s] : Put(NodeOf[s], r, FirstName, links)
    BY <1>4 DEF PutRoom
  <2>2. r \in Rooms /\ FirstName \in Names /\ changed' = changed
    BY <1>0, <1>4, RoomsAssumption DEF PutRoom
  <2>3. Claims(NodeOf[s], r)
    BY <1>0 DEF Claims, Changing
  <2> QED
    BY <1>3, <2>1, <2>2, <2>3
<1>5. ASSUME NEW r \in Rooms, NEW name \in Names, EditRoom(s, r, name)
      PROVE  Claims(k, q)
  <2>1. changed' = changed
    BY <1>5 DEF EditRoom
  <2>2. CASE Put(NodeOf[s], r, name, links) /\ maps[NodeOf[s]][NodeOf[s]][r] # NoName
    <3>1. Claims(NodeOf[s], r)
      BY <1>0, <2>2 DEF Claims, Seen
    <3> QED
      BY <1>3, <2>1, <2>2, <3>1
  <2>3. CASE UNCHANGED <<maps, links>>
    BY <2>1, <2>3 DEF Claims, Seen, Spread, Changing
  <2>4. ASSUME NEW msg \in Messages, NEW S \in SUBSET joined[NodeOf[s]], msg.type = "edit",
               links' = Publish(links, NodeOf[s], S, msg), maps' = maps
        PROVE  Claims(k, q)
    <3>1. ~ Tells(msg, q)
      BY <2>4 DEF Tells
    <3>2. Spread(links', k, q) => Spread(links, k, q)
      BY <1>0, <2>4, <3>1, SpreadPublished
    <3> QED
      BY <2>1, <2>4, <3>2 DEF Claims, Seen, Changing
  <2> QED
    BY <1>5, <2>2, <2>3, <2>4, EditRoomEffect
<1> QED
  BY <1>1, <1>2, <1>4, <1>5

\* Nor does a step of a thread, whose changes are those it was told of ...
LEMMA StepClaims ==
  ASSUME Typed, NEW t \in Threads, Step(t), NEW k \in Nodes, NEW q \in Rooms, Claims(k, q)'
  PROVE  Claims(k, q)
<1>1. changed \in [Threads -> SUBSET Rooms]
  BY DEF Typed, TypeOK
<1>2. maps' = maps /\ links' = links /\ \A u \in Threads : changed'[u] \subseteq changed[u]
  BY <1>1 DEF Step, RoomsChanged, MergeRooms, Keep, SendRooms
<1> QED
  BY <1>2 DEF Claims, Seen, Spread, Changing

\* ... nor what a node hears, which was claimed by its sender, nor a parting,
\* nor a joining, which sends what is seen.
LEMMA ClusterClaims ==
  ASSUME Typed, NEW m \in Nodes, NEW n \in Nodes,
         Receive(m, n) \/ NodesPart(m, n) \/ NodesJoin(m, n),
         NEW k \in Nodes, NEW q \in Rooms, Claims(k, q)'
  PROVE  Claims(k, q)
<1> USE DEF client, thread, work, cluster
<1>0. /\ links \in LinksOf(Messages)
      /\ changed \in [Threads -> SUBSET Rooms]
      /\ maps \in [Nodes -> [Nodes -> RoomMaps]]
      /\ <<m, n>> \in Threads /\ PartOf(<<m, n>>) = m
  BY ThreadParts, LinksType DEF Typed, TypeOK
<1>1. CASE ReceiveRooms(m, n)
  <2> DEFINE msg == Head(links[m][n])
             rooms == Changes(msg, maps[n][m])
  <2>1. /\ links[m][n] # <<>> /\ links[m][n] \in Seq(Messages)
        /\ msg \in Messages /\ msg.type \in {"put", "object"}
        /\ links' = Consume(links, m, n)
        /\ \A a, b \in Nodes : maps'[a][b] =
             IF a = n /\ b = m THEN Applied(msg, maps[a][b]) ELSE maps[a][b]
        /\ changed' = [changed EXCEPT ![<<m, n>>] = rooms]
    <3>1. /\ links' = Consume(links, m, n)
          /\ changed' = [changed EXCEPT ![<<m, n>>] = rooms]
      BY <1>1 DEF ReceiveRooms
    <3>2. /\ links[m][n] # <<>> /\ links[m][n] \in Seq(Messages)
          /\ msg \in Messages /\ msg.type \in {"put", "object"}
          /\ \A a, b \in Nodes : maps'[a][b] =
               IF a = n /\ b = m THEN Applied(msg, maps[a][b]) ELSE maps[a][b]
      BY <1>1, ReceiveRoomsEffect
    <3> QED
      BY <3>1, <3>2
  <2>2. msg = links[m][n][1] /\ 1 \in 1 .. Len(links[m][n])
    BY <2>1
  <2>3. Tells(msg, q) => Spread(links, m, q)
    BY <2>2 DEF Spread
  <2> HIDE DEF msg, rooms
  <2>4. Applied(msg, maps[n][m])[q] # NoName => Tells(msg, q) \/ Seen(m, q)
    <3>1. maps[n][m] \in RoomMaps
      BY <1>0
    <3> QED
      BY <2>1, <3>1 DEF Applied, Tells, Seen, RoomMaps
  <2>5. q \in rooms => Tells(msg, q) \/ Seen(m, q)
    BY <2>1 DEF rooms, Changes, Tells, Seen
  <2>6. Seen(k, q)' => Claims(k, q)
    <3>1. ASSUME NEW a \in Nodes, maps'[a][k][q] # NoName
          PROVE  Claims(k, q)
      BY <2>1, <2>3, <2>4, <3>1 DEF Claims, Seen
    <3> QED
      BY <3>1 DEF Seen
  <2>7. Spread(links', k, q) => Claims(k, q)
    BY <1>0, <2>1, SpreadConsumed DEF Claims
  <2>8. Changing(k, q)' => Claims(k, q)
    <3>1. ASSUME NEW t \in Threads, PartOf(t) = k, q \in changed'[t]
          PROVE  Claims(k, q)
      <4>1. CASE t = <<m, n>>
        BY <1>0, <2>1, <2>3, <2>5, <3>1, <4>1 DEF Claims
      <4>2. CASE t # <<m, n>>
        BY <1>0, <2>1, <3>1, <4>2 DEF Claims, Changing
      <4> QED
        BY <4>1, <4>2
    <3> QED
      BY <3>1 DEF Changing
  <2> QED
    BY <2>6, <2>7, <2>8 DEF Claims
<1>2. CASE ReceiveEdit(m, n)
  <2>1. PICK rest \in LinksOf(Messages), r \in Rooms, name \in Names, answer \in Messages :
           /\ links[m][n] # <<>> /\ rest = Consume(links, m, n)
           /\ Head(links[m][n]).type = "edit"
           /\ answer.type \in {"edited", "refused"}
           /\ \/ LET put == [type |-> "put", room |-> r, name |-> name]
                 IN /\ maps[n][n][r] # NoName
                    /\ maps' = [maps EXCEPT ![n][n][r] = name]
                    /\ links' = Publish(Publish(rest, n, joined[n], put),
                                        n, joined[n] \cap {m}, answer)
              \/ /\ links' = Publish(rest, n, joined[n] \cap {m}, answer)
                 /\ maps' = maps
              \/ links' = rest /\ maps' = maps
    BY <1>2, ReceiveEditEffect
  <2> DEFINE put == [type |-> "put", room |-> r, name |-> name]
             mid == Publish(rest, n, joined[n], put)
  <2>2. Spread(rest, k, q) => Spread(links, k, q)
    BY <1>0, <2>1, SpreadConsumed
  <2>3. \A L \in LinksOf(Messages) :
          Spread(Publish(L, n, joined[n] \cap {m}, answer), k, q) => Spread(L, k, q)
    <3>1. ~ Tells(answer, q)
      BY <2>1 DEF Tells
    <3> QED
      BY <3>1, SpreadPublished
  <2>4. changed' = changed
    BY <1>2 DEF ReceiveEdit
  <2>5. CASE /\ maps[n][n][r] # NoName
             /\ maps' = [maps EXCEPT ![n][n][r] = name]
             /\ links' = Publish(mid, n, joined[n] \cap {m}, answer)
    <3>1. put \in Messages /\ (Tells(put, q) => q = r)
      BY MessageKinds DEF Tells
    <3>2. mid \in LinksOf(Messages) /\ (Spread(mid, k, q) => Spread(rest, k, q) \/ (k = n /\ q = r))
      <4> HIDE DEF put
      <4> QED
        BY <3>1, PublishLinks, SpreadPublished
    <3>3. Seen(n, r)
      BY <2>5 DEF Seen
    <3> HIDE DEF mid
    <3>4. Spread(links', k, q) => Claims(k, q)
      BY <2>2, <2>3, <2>5, <3>2, <3>3 DEF Claims
    <3>5. Seen(k, q)' => Claims(k, q)
      <4>1. ASSUME NEW a \in Nodes, maps'[a][k][q] # NoName
            PROVE  Seen(k, q)
        <5>1. maps'[a][k][q] = IF a = n /\ k = n /\ q = r THEN name ELSE maps[a][k][q]
          BY <1>0, <2>5 DEF RoomMaps
        <5> QED
          BY <3>3, <4>1, <5>1 DEF Seen
      <4> QED
        BY <4>1 DEF Seen, Claims
    <3> QED
      BY <2>4, <3>4, <3>5 DEF Claims, Changing
  <2>6. CASE maps' = maps /\ (\/ links' = Publish(rest, n, joined[n] \cap {m}, answer)
                              \/ links' = rest)
    BY <2>2, <2>3, <2>4, <2>6 DEF Claims, Seen, Changing
  <2> QED
    BY <2>1, <2>5, <2>6
<1>3. CASE ReceiveAnswer(m, n)
  <2>1. /\ links[m][n] # <<>> /\ links' = Consume(links, m, n)
        /\ maps' = maps /\ changed' = changed
    BY <1>3 DEF ReceiveAnswer, Hears
  <2>2. Spread(links', k, q) => Spread(links, k, q)
    BY <1>0, <2>1, SpreadConsumed
  <2> QED
    BY <2>1, <2>2 DEF Claims, Seen, Changing
<1>4. CASE NodesPart(m, n)
  <2> DEFINE msg == [type |-> "object", rooms |-> NoRooms]
  <2>1. maps' = maps /\ changed' = changed
    BY <1>4 DEF NodesPart
  <2>2. ~ Tells(msg, q) /\ Len(<<msg>>) = 1 /\ <<msg>>[1] = msg
    BY DEF Tells, NoRooms
  <2>3. \A a, b \in Nodes : links'[a][b] = links[a][b] \/ links'[a][b] = <<msg>>
    BY <1>4, NodesPartEffect
  <2> HIDE DEF msg
  <2>4. Spread(links', k, q) => Spread(links, k, q)
    BY <2>2, <2>3 DEF Spread
  <2> QED
    BY <2>1, <2>4 DEF Claims, Seen, Changing
<1>5. CASE NodesJoin(m, n)
  <2> DEFINE Object(a) == [type |-> "object", rooms |-> maps[a][a]]
  <2>1. maps' = maps /\ changed' = changed
    BY <1>5 DEF NodesJoin
  <2>2. \A a \in Nodes : Tells(Object(a), q) => Seen(a, q)
    BY DEF Tells, Seen
  <2>3. \A a, b \in Nodes :
          links'[a][b] = links[a][b] \/ links'[a][b] = Append(links[a][b], Object(a))
    BY <1>5, NodesJoinEffect
  <2> HIDE DEF Object
  <2>4. ASSUME NEW b \in Nodes, NEW i \in 1 .. Len(links'[k][b]), Tells(links'[k][b][i], q)
        PROVE  Claims(k, q)
    <3>1. links[k][b] \in Seq(Messages)
      BY <1>0 DEF LinksOf
    <3>2. CASE links'[k][b] = links[k][b]
      BY <2>4, <3>2 DEF Claims, Spread
    <3>3. CASE links'[k][b] = Append(links[k][b], Object(k)) /\ i \in 1 .. Len(links[k][b])
      <4>1. links'[k][b][i] = links[k][b][i]
        BY <3>1, <3>3
      <4> QED
        BY <2>4, <3>3, <4>1 DEF Claims, Spread
    <3>4. CASE links'[k][b] = Append(links[k][b], Object(k)) /\ i \notin 1 .. Len(links[k][b])
      <4>1. links'[k][b][i] = Object(k)
        BY <2>4, <3>1, <3>4
      <4> QED
        BY <2>2, <2>4, <4>1 DEF Claims
    <3> QED
      BY <2>3, <3>2, <3>3, <3>4
  <2> QED
    BY <2>1, <2>4 DEF Claims, Seen, Spread, Changing
<1> QED
  BY <1>1, <1>2, <1>3, <1>4, <1>5 DEF Receive

\* A room whose id is given out is claimed by nobody yet.
LEMMA CreateClaims ==
  ASSUME Typed, OneClaim, NEW s \in Sessions, NEW r \in Rooms, CreateRoom(s, r)
  PROVE  OneClaim'
<1>1. /\ changed \in [Threads -> SUBSET Rooms]
      /\ s \in Threads /\ PartOf(s) = NodeOf[s]
  BY ThreadParts DEF Typed, TypeOK
<1>2. /\ r \notin ids /\ ids' = ids \cup {r}
      /\ changed' = [changed EXCEPT ![s] = {r}]
      /\ maps' = maps /\ links' = links
  BY DEF CreateRoom
<1>3. ASSUME NEW k \in Nodes, NEW q \in Rooms, Claims(k, q)'
      PROVE  Claims(k, q) \/ (q = r /\ k = NodeOf[s])
  BY <1>1, <1>2, <1>3 DEF Claims, Seen, Spread, Changing
<1>4. \A k \in Nodes : ~ Claims(k, r)
  BY <1>2 DEF OneClaim
<1> QED
  BY <1>2, <1>3, <1>4 DEF OneClaim

LEMMA OneClaimStep == Typed /\ OneClaim /\ [Next]_vars => OneClaim'
<1> SUFFICES ASSUME Typed, OneClaim, [Next]_vars
             PROVE  OneClaim'
  OBVIOUS
<1>1. ASSUME ids' = ids, \A k \in Nodes, q \in Rooms : Claims(k, q)' => Claims(k, q)
      PROVE  OneClaim'
  BY <1>1 DEF OneClaim
<1>2. ASSUME NEW s \in Sessions,
             \/ Connect(s) \/ Subscribe(s) \/ Disconnect(s) \/ PutRoom(s) \/ CreateFailed(s)
             \/ Timeout(s)
             \/ \E r \in Rooms, name \in Names : EditRoom(s, r, name)
      PROVE  OneClaim'
  <2>1. ids' = ids
    BY <1>2 DEF Connect, Subscribe, Disconnect, PutRoom, CreateFailed, Timeout, EditRoom
  <2> QED
    BY <1>1, <1>2, <2>1, SessionClaims
<1>3. ASSUME NEW s \in Sessions, NEW r \in Rooms, CreateRoom(s, r)
      PROVE  OneClaim'
  BY <1>3, CreateClaims
<1>4. ASSUME NEW t \in Threads, Step(t)
      PROVE  OneClaim'
  <2>1. ids' = ids
    BY <1>4 DEF Step, RoomsChanged, MergeRooms, Keep, SendRooms
  <2> QED
    BY <1>1, <1>4, <2>1, StepClaims
<1>5. ASSUME NEW m \in Nodes, NEW n \in Nodes,
             Receive(m, n) \/ NodesPart(m, n) \/ NodesJoin(m, n)
      PROVE  OneClaim'
  <2>1. ids' = ids
    BY <1>5 DEF Receive, ReceiveRooms, ReceiveEdit, ReceiveAnswer, NodesPart, NodesJoin
  <2> QED
    BY <1>1, <1>5, <2>1, ClusterClaims
<1>6. CASE UNCHANGED vars
  BY <1>1, <1>6 DEF vars, Claims, Seen, Spread, Changing
<1> QED
  BY <1>2, <1>3, <1>4, <1>5, <1>6 DEF Next

LEMMA OneClaimAlways == Spec => []OneClaim
<1>1. ASSUME Init
      PROVE  OneClaim
  <2>1. /\ maps = [n \in Nodes |-> [m \in Nodes |-> Loaded(m)]]
        /\ changed = [t \in Threads |-> {}]
        /\ ids = {r \in Rooms : LoadedBy[r] # NoNode}
        /\ \A m, n \in Nodes : links[m][n] = <<>>
    BY <1>1, InitialLinks DEF Init
  <2>2. ASSUME NEW m \in Nodes, NEW r \in Rooms, Claims(m, r)
        PROVE  LoadedBy[r] = m
    <3>1. ~ Spread(links, m, r) /\ ~ Changing(m, r)
      BY <2>1 DEF Spread, Changing
    <3>2. Seen(m, r)
      BY <2>2, <3>1 DEF Claims
    <3> QED
      BY <2>1, <3>2 DEF Seen, Loaded
  <2> QED
    BY <2>1, <2>2, RoomsAssumption DEF OneClaim
<1> QED
  BY <1>1, TypedAlways, OneClaimStep, PTL DEF Spec

\* No node sees a room in the parts of two nodes.
THEOREM RoomsHaveOneOwner == Spec => []OneOwner
<1>1. OneClaim => OneOwner
  BY DEF OneClaim, OneOwner, Owners, Claims, Seen
<1> QED
  BY <1>1, OneClaimAlways, PTL

-----------------------------------------------------------------------------
\* The maps converge: what is under way from m to n brings the part of m that
\* n sees to what m has, or to nothing if n is not reached.

About(msg, r) == (msg.type = "put" /\ msg.room = r) \/ msg.type = "object"

Says(msg, r) == IF msg.type = "put" THEN msg.name ELSE msg.rooms[r]

\* The last message about a room decides.
Decides(q, i, r) == About(q[i], r) /\ \A j \in i+1 .. Len(q) : ~ About(q[j], r)

\* Where the name `held' is seen, v is once the messages q are processed.
Brings(q, held, v, r) ==
  \/ \E i \in 1 .. Len(q) : Decides(q, i, r) /\ Says(q[i], r) = v
  \/ held = v /\ \A i \in 1 .. Len(q) : ~ About(q[i], r)

Target(M, J, m, n, r) == IF n \in J[m] THEN M[m][m][r] ELSE NoName

Converges(L, M, J) ==
  \A m, n \in Nodes, r \in Rooms :
    m # n => Brings(L[m][n], M[n][m][r], Target(M, J, m, n, r), r)

\* A message that is appended decides if it is about the room.
LEMMA BringsAppended ==
  ASSUME NEW q \in Seq(Messages), NEW msg \in Messages, NEW held, NEW v, NEW r \in Rooms,
         IF About(msg, r) THEN Says(msg, r) = v ELSE Brings(q, held, v, r)
  PROVE  Brings(Append(q, msg), held, v, r)
<1> DEFINE p == Append(q, msg)
<1>1. Len(p) = Len(q) + 1 /\ Len(q) \in Nat /\ p[Len(q) + 1] = msg
  OBVIOUS
<1>2. \A i \in 1 .. Len(q) : p[i] = q[i]
  OBVIOUS
<1> HIDE DEF p
<1>3. CASE About(msg, r)
  <2>1. Decides(p, Len(p), r) /\ Says(p[Len(p)], r) = v
    BY <1>1, <1>3 DEF Decides
  <2> QED
    BY <1>1, <2>1 DEF Brings, p
<1>4. CASE ~ About(msg, r)
  <2>1. CASE \E i \in 1 .. Len(q) : Decides(q, i, r) /\ Says(q[i], r) = v
    <3>1. PICK i \in 1 .. Len(q) : Decides(q, i, r) /\ Says(q[i], r) = v
      BY <2>1
    <3>2. Decides(p, i, r) /\ Says(p[i], r) = v
      BY <1>1, <1>2, <1>4, <3>1 DEF Decides
    <3> QED
      BY <1>1, <3>2 DEF Brings, p
  <2>2. CASE held = v /\ \A i \in 1 .. Len(q) : ~ About(q[i], r)
    <3>1. \A i \in 1 .. Len(p) : ~ About(p[i], r)
      BY <1>1, <1>2, <1>4, <2>2
    <3> QED
      BY <2>2, <3>1 DEF Brings, p
  <2> QED
    BY <1>4, <2>1, <2>2 DEF Brings
<1> QED
  BY <1>3, <1>4

\* The oldest message has its effect when it is consumed.
LEMMA BringsConsumed ==
  ASSUME NEW q \in Seq(Messages), q # <<>>, NEW held, NEW v, NEW r \in Rooms,
         Brings(q, held, v, r)
  PROVE  Brings(Tail(q), IF About(Head(q), r) THEN Says(Head(q), r) ELSE held, v, r)
<1> DEFINE p == Tail(q)
           new == IF About(Head(q), r) THEN Says(Head(q), r) ELSE held
<1>1. Len(q) \in Nat \ {0} /\ Len(p) = Len(q) - 1 /\ Head(q) = q[1]
  OBVIOUS
<1>2. \A i \in 1 .. Len(p) : p[i] = q[i + 1] /\ i + 1 \in 2 .. Len(q)
  BY <1>1
<1> HIDE DEF p
<1>3. CASE \E i \in 2 .. Len(q) : Decides(q, i, r) /\ Says(q[i], r) = v
  <2>1. PICK i \in 2 .. Len(q) : Decides(q, i, r) /\ Says(q[i], r) = v
    BY <1>3
  <2>2. i - 1 \in 1 .. Len(p) /\ p[i - 1] = q[i]
    BY <1>1, <1>2, <2>1
  <2>3. \A j \in i .. Len(p) : p[j] = q[j + 1] /\ j + 1 \in i + 1 .. Len(q)
    BY <1>1, <1>2, <2>1
  <2>4. Decides(p, i - 1, r)
    BY <2>1, <2>2, <2>3 DEF Decides
  <2> QED
    BY <2>1, <2>2, <2>4 DEF Brings, p
<1>4. CASE Decides(q, 1, r) /\ Says(q[1], r) = v
  <2>1. \A j \in 1 .. Len(p) : ~ About(p[j], r)
    BY <1>1, <1>2, <1>4 DEF Decides
  <2>2. new = v
    BY <1>1, <1>4 DEF Decides
  <2> QED
    BY <2>1, <2>2 DEF Brings, p
<1>5. CASE held = v /\ \A i \in 1 .. Len(q) : ~ About(q[i], r)
  <2>1. \A j \in 1 .. Len(p) : ~ About(p[j], r)
    BY <1>1, <1>2, <1>5
  <2>2. new = v
    BY <1>1, <1>5
  <2> QED
    BY <2>1, <2>2 DEF Brings, p
<1>6. \A i \in 1 .. Len(q) : i = 1 \/ i \in 2 .. Len(q)
  BY <1>1
<1> QED
  BY <1>3, <1>4, <1>5, <1>6 DEF Brings

\* What is applied is what the message says, where it says anything.
LEMMA AppliedSays ==
  ASSUME NEW msg \in Messages, msg.type \in {"put", "object"}, NEW S \in RoomMaps,
         NEW r \in Rooms
  PROVE  Applied(msg, S)[r] = IF About(msg, r) THEN Says(msg, r) ELSE S[r]
  BY DEF Applied, About, Says, RoomMaps

\* Edits and their answers do not matter to the maps.
LEMMA Neutral ==
  ASSUME NEW L \in LinksOf(Messages), NEW M, NEW J, Converges(L, M, J), NEW n \in Nodes
  PROVE  /\ \A S \in SUBSET Nodes, msg \in Messages :
              msg.type \in {"edit", "edited", "refused"} => Converges(Publish(L, n, S, msg), M, J)
         /\ \A b \in Nodes :
              L[n][b] # <<>> /\ Head(L[n][b]).type \in {"edit", "edited", "refused"} =>
                Converges(Consume(L, n, b), M, J)
<1>1. ASSUME NEW S \in SUBSET Nodes, NEW msg \in Messages,
             msg.type \in {"edit", "edited", "refused"}
      PROVE  Converges(Publish(L, n, S, msg), M, J)
  <2> DEFINE K == Publish(L, n, S, msg)
  <2>1. \A a, b \in Nodes : K[a][b] = IF a = n /\ b \in S THEN Append(L[a][b], msg) ELSE L[a][b]
    BY PublishLinks
  <2> HIDE DEF K
  <2> SUFFICES ASSUME NEW a \in Nodes, NEW b \in Nodes, NEW r \in Rooms, a # b
               PROVE  Brings(K[a][b], M[b][a][r], Target(M, J, a, b, r), r)
    BY DEF Converges, K
  <2>2. Brings(L[a][b], M[b][a][r], Target(M, J, a, b, r), r) /\ L[a][b] \in Seq(Messages)
    BY DEF Converges, LinksOf
  <2>3. ~ About(msg, r)
    BY <1>1 DEF About
  <2>4. Brings(Append(L[a][b], msg), M[b][a][r], Target(M, J, a, b, r), r)
    BY <2>2, <2>3, BringsAppended
  <2> QED
    BY <2>1, <2>2, <2>4
<1>2. ASSUME NEW d \in Nodes, L[n][d] # <<>>,
             Head(L[n][d]).type \in {"edit", "edited", "refused"}
      PROVE  Converges(Consume(L, n, d), M, J)
  <2> DEFINE K == Consume(L, n, d)
  <2>1. \A a, b \in Nodes : K[a][b] = IF a = n /\ b = d THEN Tail(L[a][b]) ELSE L[a][b]
    BY <1>2, ConsumeLinks
  <2> HIDE DEF K
  <2> SUFFICES ASSUME NEW a \in Nodes, NEW b \in Nodes, NEW r \in Rooms, a # b
               PROVE  Brings(K[a][b], M[b][a][r], Target(M, J, a, b, r), r)
    BY DEF Converges, K
  <2>2. Brings(L[a][b], M[b][a][r], Target(M, J, a, b, r), r) /\ L[a][b] \in Seq(Messages)
    BY DEF Converges, LinksOf
  <2>3. CASE a = n /\ b = d
    <3>1. ~ About(Head(L[a][b]), r)
      BY <1>2, <2>3 DEF About
    <3>2. Brings(Tail(L[a][b]), M[b][a][r], Target(M, J, a, b, r), r)
      BY <1>2, <2>2, <2>3, <3>1, BringsConsumed
    <3> QED
      BY <2>1, <2>3, <3>2
  <2> QED
    BY <2>1, <2>2, <2>3
<1> QED
  BY <1>1, <1>2

\* A put is sent to whoever is reached, and nobody else has the room.
LEMMA PutConverges ==
  ASSUME NEW L \in LinksOf(Messages), NEW M \in [Nodes -> [Nodes -> RoomMaps]],
         NEW J, Converges(L, M, J),
         NEW n \in Nodes, NEW r \in Rooms, NEW name \in Names
  PROVE  Converges(Publish(L, n, J[n], [type |-> "put", room |-> r, name |-> name]),
                   [M EXCEPT ![n][n][r] = name], J)
<1> DEFINE msg == [type |-> "put", room |-> r, name |-> name]
           K == Publish(L, n, J[n], msg)
           N == [M EXCEPT ![n][n][r] = name]
<1>1. msg \in Messages /\ \A q \in Rooms : /\ About(msg, q) <=> q = r
                                          /\ Says(msg, q) = name
  BY MessageKinds DEF About, Says
<1>2. \A a, b \in Nodes, q \in Rooms :
        N[a][b][q] = IF a = n /\ b = n /\ q = r THEN name ELSE M[a][b][q]
  BY DEF RoomMaps
<1> HIDE DEF msg, N
<1>3. \A a, b \in Nodes : K[a][b] = IF a = n /\ b \in J[n] THEN Append(L[a][b], msg) ELSE L[a][b]
  BY <1>1, PublishLinks
<1> HIDE DEF K
<1> SUFFICES ASSUME NEW a \in Nodes, NEW b \in Nodes, NEW q \in Rooms, a # b
             PROVE  Brings(K[a][b], N[b][a][q], Target(N, J, a, b, q), q)
  BY DEF Converges, K, N, msg
<1>4. /\ Brings(L[a][b], M[b][a][q], Target(M, J, a, b, q), q)
      /\ L[a][b] \in Seq(Messages)
      /\ N[b][a][q] = M[b][a][q]
  BY <1>2 DEF Converges, LinksOf
<1>5. CASE a = n /\ b \in J[n]
  <2>1. Target(N, J, a, b, q) = IF q = r THEN name ELSE Target(M, J, a, b, q)
    BY <1>2, <1>5 DEF Target
  <2>2. Brings(Append(L[a][b], msg), M[b][a][q], Target(N, J, a, b, q), q)
    BY <1>1, <1>4, <2>1, BringsAppended
  <2> QED
    BY <1>3, <1>4, <1>5, <2>2
<1>6. CASE ~ (a = n /\ b \in J[n])
  <2>1. Target(N, J, a, b, q) = Target(M, J, a, b, q)
    BY <1>2, <1>6 DEF Target
  <2> QED
    BY <1>3, <1>4, <1>6, <2>1
<1> QED
  BY <1>5, <1>6

LEMMA ReceiveRoomsConverges ==
  ASSUME Typed, Converges(links, maps, joined), NEW m \in Nodes, NEW n \in Nodes,
         ReceiveRooms(m, n)
  PROVE  Converges(links', maps', joined)
<1> DEFINE msg == Head(links[m][n])
<1>1. /\ m # n
      /\ links[m][n] # <<>>
      /\ msg \in Messages /\ msg.type \in {"put", "object"}
      /\ \A a, b \in Nodes : links'[a][b] =
           IF a = m /\ b = n THEN Tail(links[a][b]) ELSE links[a][b]
      /\ \A a, b \in Nodes : maps'[a][b] =
           IF a = n /\ b = m THEN Applied(msg, maps[a][b]) ELSE maps[a][b]
  BY ReceiveRoomsEffect
<1> SUFFICES ASSUME NEW a \in Nodes, NEW b \in Nodes, NEW r \in Rooms, a # b
             PROVE  Brings(links'[a][b], maps'[b][a][r], Target(maps', joined, a, b, r), r)
  BY DEF Converges
<1>2. /\ Brings(links[a][b], maps[b][a][r], Target(maps, joined, a, b, r), r)
      /\ links[a][b] \in Seq(Messages) /\ maps[b][a] \in RoomMaps
  BY LinksType DEF Converges, Typed, TypeOK, LinksOf
<1>3. Target(maps', joined, a, b, r) = Target(maps, joined, a, b, r)
  BY <1>1 DEF Target
<1>4. CASE a = m /\ b = n
  <2>1. maps'[b][a][r] = IF About(msg, r) THEN Says(msg, r) ELSE maps[b][a][r]
    <3>1. maps'[b][a] = Applied(msg, maps[b][a])
      BY <1>1, <1>4
    <3> HIDE DEF msg
    <3> QED
      BY <1>1, <1>2, <3>1, AppliedSays
  <2>2. Brings(Tail(links[a][b]), IF About(msg, r) THEN Says(msg, r) ELSE maps[b][a][r],
               Target(maps, joined, a, b, r), r)
    BY <1>1, <1>2, <1>4, BringsConsumed
  <2> HIDE DEF msg
  <2> QED
    BY <1>1, <1>3, <1>4, <2>1, <2>2
<1>5. CASE ~ (a = m /\ b = n)
  BY <1>1, <1>2, <1>3, <1>5
<1> QED
  BY <1>4, <1>5

LEMMA ReceiveEditConverges ==
  ASSUME Typed, Converges(links, maps, joined), NEW m \in Nodes, NEW n \in Nodes,
         ReceiveEdit(m, n)
  PROVE  Converges(links', maps', joined)
<1>1. PICK rest \in LinksOf(Messages), r \in Rooms, name \in Names, answer \in Messages :
         /\ links[m][n] # <<>> /\ rest = Consume(links, m, n)
         /\ Head(links[m][n]).type = "edit"
         /\ answer.type \in {"edited", "refused"}
         /\ \/ LET put == [type |-> "put", room |-> r, name |-> name]
               IN /\ maps[n][n][r] # NoName
                  /\ maps' = [maps EXCEPT ![n][n][r] = name]
                  /\ links' = Publish(Publish(rest, n, joined[n], put),
                                      n, joined[n] \cap {m}, answer)
            \/ /\ links' = Publish(rest, n, joined[n] \cap {m}, answer)
               /\ maps' = maps
            \/ links' = rest /\ maps' = maps
  BY ReceiveEditEffect
<1> DEFINE put == [type |-> "put", room |-> r, name |-> name]
           mid == Publish(rest, n, joined[n], put)
           named == [maps EXCEPT ![n][n][r] = name]
<1>2. /\ links \in LinksOf(Messages)
      /\ maps \in [Nodes -> [Nodes -> RoomMaps]]
      /\ joined[n] \cap {m} \in SUBSET Nodes
  BY LinksType DEF Typed, TypeOK
<1>3. Converges(rest, maps, joined)
  BY <1>1, <1>2, Neutral
<1>4. mid \in LinksOf(Messages)
  <2>1. put \in Messages
    BY MessageKinds
  <2> HIDE DEF put
  <2> QED
    BY <2>1, PublishLinks
<1>5. Converges(mid, named, joined)
  BY <1>2, <1>3, PutConverges
<1>6. \A L \in LinksOf(Messages) : \A M : Converges(L, M, joined) =>
        Converges(Publish(L, n, joined[n] \cap {m}, answer), M, joined)
  BY <1>1, <1>2, Neutral
<1>7. \/ links' = Publish(mid, n, joined[n] \cap {m}, answer) /\ maps' = named
      \/ links' = Publish(rest, n, joined[n] \cap {m}, answer) /\ maps' = maps
      \/ links' = rest /\ maps' = maps
  BY <1>1
<1> HIDE DEF mid, named
<1> QED
  BY <1>3, <1>4, <1>5, <1>6, <1>7

LEMMA NodesPartConverges ==
  ASSUME Typed, Converges(links, maps, joined), NEW m \in Nodes, NEW n \in Nodes,
         NodesPart(m, n)
  PROVE  Converges(links', maps', joined')
<1> DEFINE msg == [type |-> "object", rooms |-> NoRooms]
<1>1. /\ m # n /\ maps' = maps
      /\ \A a, b \in Nodes : links'[a][b] =
           IF (a = m /\ b = n) \/ (a = n /\ b = m) THEN <<msg>> ELSE links[a][b]
      /\ \A a, b \in Nodes : b \in joined'[a] <=>
           b \in joined[a] /\ ~ (a = m /\ b = n) /\ ~ (a = n /\ b = m)
  BY NodesPartEffect DEF NodesPart
<1>2. \A r \in Rooms : About(msg, r) /\ Says(msg, r) = NoName
  BY DEF About, Says, NoRooms
<1>3. Len(<<msg>>) = 1 /\ <<msg>>[1] = msg
  OBVIOUS
<1> HIDE DEF msg
<1>4. \A r \in Rooms : \A held : Brings(<<msg>>, held, NoName, r)
  <2>1. ASSUME NEW r \in Rooms
        PROVE  Decides(<<msg>>, 1, r) /\ 1 \in 1 .. Len(<<msg>>) /\ Says(<<msg>>[1], r) = NoName
    BY <1>2, <1>3 DEF Decides
  <2> QED
    BY <2>1 DEF Brings
<1> SUFFICES ASSUME NEW a \in Nodes, NEW b \in Nodes, NEW r \in Rooms, a # b
             PROVE  Brings(links'[a][b], maps'[b][a][r], Target(maps', joined', a, b, r), r)
  BY DEF Converges
<1>5. CASE (a = m /\ b = n) \/ (a = n /\ b = m)
  <2>1. Target(maps', joined', a, b, r) = NoName /\ links'[a][b] = <<msg>>
    BY <1>1, <1>5 DEF Target
  <2> QED
    BY <1>4, <2>1
<1>6. CASE ~ ((a = m /\ b = n) \/ (a = n /\ b = m))
  <2>1. Target(maps', joined', a, b, r) = Target(maps, joined, a, b, r)
    BY <1>1, <1>6 DEF Target
  <2> QED
    BY <1>1, <1>6, <2>1 DEF Converges
<1> QED
  BY <1>5, <1>6

LEMMA NodesJoinConverges ==
  ASSUME Typed, Converges(links, maps, joined), NEW m \in Nodes, NEW n \in Nodes,
         NodesJoin(m, n)
  PROVE  Converges(links', maps', joined')
<1> DEFINE Object(a) == [type |-> "object", rooms |-> maps[a][a]]
<1>1. /\ m # n /\ maps' = maps
      /\ \A a, b \in Nodes : links'[a][b] =
           IF (a = m /\ b = n) \/ (a = n /\ b = m)
           THEN Append(links[a][b], Object(a)) ELSE links[a][b]
      /\ \A a, b \in Nodes : b \in joined'[a] <=>
           b \in joined[a] \/ (a = m /\ b = n) \/ (a = n /\ b = m)
  BY NodesJoinEffect DEF NodesJoin
<1>2. \A a \in Nodes : Object(a) \in Messages
  BY MessageKinds DEF Typed, TypeOK
<1>3. \A a \in Nodes, r \in Rooms : About(Object(a), r) /\ Says(Object(a), r) = maps[a][a][r]
  BY DEF About, Says
<1> HIDE DEF Object
<1> SUFFICES ASSUME NEW a \in Nodes, NEW b \in Nodes, NEW r \in Rooms, a # b
             PROVE  Brings(links'[a][b], maps'[b][a][r], Target(maps', joined', a, b, r), r)
  BY DEF Converges
<1>4. links[a][b] \in Seq(Messages)
  BY LinksType DEF Typed, LinksOf
<1>5. CASE (a = m /\ b = n) \/ (a = n /\ b = m)
  <2>1. Target(maps', joined', a, b, r) = maps[a][a][r]
    BY <1>1, <1>5 DEF Target
  <2>2. Brings(Append(links[a][b], Object(a)), maps[b][a][r], maps[a][a][r], r)
    BY <1>2, <1>3, <1>4, BringsAppended
  <2> QED
    BY <1>1, <1>5, <2>1, <2>2
<1>6. CASE ~ ((a = m /\ b = n) \/ (a = n /\ b = m))
  <2>1. Target(maps', joined', a, b, r) = Target(maps, joined, a, b, r)
    BY <1>1, <1>6 DEF Target
  <2> QED
    BY <1>1, <1>6, <2>1 DEF Converges
<1> QED
  BY <1>5, <1>6

LEMMA ConvergesStep ==
  Typed /\ Converges(links, maps, joined) /\ [Next]_vars => Converges(links, maps, joined)'
<1> SUFFICES ASSUME Typed, Converges(links, maps, joined), [Next]_vars
             PROVE  Converges(links', maps', joined')
  OBVIOUS
<1> USE DEF client, thread, work, cluster
<1>0. /\ links \in LinksOf(Messages)
      /\ maps \in [Nodes -> [Nodes -> RoomMaps]]
      /\ joined \in [Nodes -> SUBSET Nodes]
      /\ changed \in [Threads -> SUBSET Rooms]
  BY LinksType DEF Typed, TypeOK
<1>1. CASE UNCHANGED <<links, maps, joined>>
  BY <1>1
<1>2. ASSUME NEW s \in Sessions, NEW r \in Rooms, NEW name \in Names,
             Put(NodeOf[s], r, name, links), joined' = joined
      PROVE  Converges(links', maps', joined')
  <2>1. NodeOf[s] \in Nodes
    BY RoomsAssumption
  <2> QED
    BY <1>0, <1>2, <2>1, PutConverges DEF Put
<1>3. ASSUME NEW s \in Sessions, PutRoom(s)
      PROVE  Converges(links', maps', joined')
  <2>1. PICK r \in changed[s] : Put(NodeOf[s], r, FirstName, links)
    BY <1>3 DEF PutRoom
  <2>2. r \in Rooms /\ FirstName \in Names /\ joined' = joined
    BY <1>0, <1>3, ThreadParts, RoomsAssumption DEF PutRoom
  <2> QED
    BY <1>2, <2>1, <2>2
<1>4. ASSUME NEW s \in Sessions, NEW r \in Rooms, NEW name \in Names, EditRoom(s, r, name)
      PROVE  Converges(links', maps', joined')
  <2>1. joined' = joined /\ NodeOf[s] \in Nodes
    BY <1>4, RoomsAssumption DEF EditRoom
  <2>2. ASSUME NEW msg \in Messages, NEW S \in SUBSET joined[NodeOf[s]], msg.type = "edit",
               links' = Publish(links, NodeOf[s], S, msg), maps' = maps
        PROVE  Converges(links', maps', joined')
    <3>1. S \in SUBSET Nodes
      BY <1>0, <2>1
    <3> QED
      BY <1>0, <2>1, <2>2, <3>1, Neutral
  <2> QED
    BY <1>1, <1>2, <1>4, <2>1, <2>2, EditRoomEffect
<1>5. ASSUME NEW m \in Nodes, NEW n \in Nodes, Receive(m, n)
      PROVE  Converges(links', maps', joined')
  <2>1. joined' = joined
    BY <1>5 DEF Receive, ReceiveRooms, ReceiveEdit, ReceiveAnswer
  <2>2. CASE ReceiveAnswer(m, n)
    <3>1. /\ links[m][n] # <<>> /\ Head(links[m][n]).type \in {"edited", "refused"}
          /\ links' = Consume(links, m, n) /\ maps' = maps
      BY <2>2 DEF ReceiveAnswer, Hears
    <3> QED
      BY <1>0, <2>1, <3>1, Neutral
  <2> QED
    BY <1>5, <2>1, <2>2, ReceiveRoomsConverges, ReceiveEditConverges DEF Receive
<1>6. ASSUME NEW s \in Sessions,
             \/ Connect(s) \/ Subscribe(s) \/ Disconnect(s) \/ CreateFailed(s) \/ Timeout(s)
             \/ \E r \in Rooms : CreateRoom(s, r)
      PROVE  UNCHANGED <<links, maps, joined>>
  BY <1>6 DEF Connect, Subscribe, Disconnect, CreateFailed, Timeout, CreateRoom
<1>7. ASSUME NEW t \in Threads, Step(t)
      PROVE  UNCHANGED <<links, maps, joined>>
  BY <1>7 DEF Step, RoomsChanged, MergeRooms, Keep, SendRooms
<1>8. UNCHANGED vars => UNCHANGED <<links, maps, joined>>
  BY DEF vars
<1> QED
  BY <1>1, <1>3, <1>4, <1>5, <1>6, <1>7, <1>8, NodesPartConverges, NodesJoinConverges DEF Next

LEMMA ConvergesAlways == Spec => []Converges(links, maps, joined)
<1>1. ASSUME Init
      PROVE  Converges(links, maps, joined)
  <2>1. /\ maps = [n \in Nodes |-> [m \in Nodes |-> Loaded(m)]]
        /\ \A m, n \in Nodes : links[m][n] = <<>>
        /\ \A m, n \in Nodes : n \in joined[m] <=> n # m
    BY <1>1, InitialLinks DEF Init
  <2> QED
    BY <2>1 DEF Converges, Brings, Target
<1> QED
  BY <1>1, TypedAlways, ConvergesStep, PTL DEF Spec

\* At rest, nodes that are joined agree on the rooms and their names.
THEOREM NodesComeToAgree == Spec => []NodesAgree
<1>1. ASSUME Typed, Converges(links, maps, joined)
      PROVE  NodesAgree
  <2> SUFFICES ASSUME NEW m \in Nodes, NEW n \in Nodes, m # n, links[m][n] = <<>>
               PROVE  maps[n][m] = IF n \in joined[m] THEN maps[m][m] ELSE NoRooms
    BY DEF NodesAgree, AtRest
  <2>1. \A r \in Rooms : maps[n][m][r] = Target(maps, joined, m, n, r)
    BY <1>1 DEF Converges, Brings
  <2>2. maps[n][m] \in RoomMaps /\ maps[m][m] \in RoomMaps
    BY <1>1 DEF Typed, TypeOK
  <2> QED
    BY <2>1, <2>2 DEF Target, NoRooms, RoomMaps
<1> QED
  BY <1>1, TypedAlways, ConvergesAlways, PTL

-----------------------------------------------------------------------------
\* Which threads an action leaves alone.

\* A session that is not connected yet does nothing, and one that has a
\* request does nothing but wait for the answer.
Waiting ==
  \A s \in Sessions :
    /\ life[s] = "new" => stage[s] = "idle"
    /\ request[s] # 0 => stage[s] = "waiting"

\* An answer that is waited for moves on the session that waits.
LEMMA ReceiveAnswerEffect ==
  ASSUME Typed, Waiting, NEW m \in Nodes, NEW n \in Nodes, ReceiveAnswer(m, n)
  PROVE  /\ stage[<<m, n>>] = "idle"
         /\ \/ UNCHANGED <<stage, request>>
            \/ \E s \in Sessions :
                 /\ stage[s] = "waiting"
                 /\ request' = [request EXCEPT ![s] = 0]
                 /\ stage'[s] = "idle"
                 /\ stage'[<<m, n>>] \in {"idle", "broadcast"}
                 /\ \A t \in Threads : t # s /\ t # <<m, n>> => stage'[t] = stage[t]
<1> DEFINE msg == Head(links[m][n])
           s == msg.from
<1>1. /\ links[m][n] # <<>> /\ msg.type \in {"edited", "refused"}
      /\ stage[<<m, n>>] = "idle"
      /\ \/ UNCHANGED <<stage, request>>
         \/ /\ request[msg.from] = msg.id
            /\ stage' = [stage EXCEPT ![msg.from] = "idle",
                  ![<<m, n>>] = IF msg.type = "edited" THEN "broadcast" ELSE @]
            /\ request' = [request EXCEPT ![msg.from] = 0]
  BY DEF ReceiveAnswer, Hears
<1>2. msg \in Messages
  BY <1>1, HeardEffect
<1>3. s \in Sessions /\ msg.id \in 1 .. MaxEdits
  BY <1>1, <1>2, MessageParts
<1>4. <<m, n>> \in Threads /\ <<m, n>> # s /\ s \in Threads
  BY <1>3, ThreadParts
<1>5. DOMAIN stage = Threads
  BY DEF Typed, TypeOK
<1> HIDE DEF msg
<1>6. CASE request[s] = msg.id /\ stage' = [stage EXCEPT ![s] = "idle",
                  ![<<m, n>>] = IF msg.type = "edited" THEN "broadcast" ELSE @]
  <2>1. stage[s] = "waiting"
    <3>1. msg.id # 0
      BY <1>3
    <3> QED
      BY <1>3, <1>6, <3>1 DEF Waiting
  <2>2. /\ stage'[s] = "idle"
        /\ stage'[<<m, n>>] = IF msg.type = "edited" THEN "broadcast" ELSE stage[<<m, n>>]
        /\ \A t \in Threads : t # s /\ t # <<m, n>> => stage'[t] = stage[t]
    <3> HIDE DEF s
    <3> DEFINE mid == [stage EXCEPT ![s] = "idle"]
               next == IF msg.type = "edited" THEN "broadcast" ELSE stage[<<m, n>>]
    <3>1. /\ DOMAIN mid = Threads /\ mid[s] = "idle"
          /\ \A t \in Threads : t # s => mid[t] = stage[t]
      BY <1>4, <1>5
    <3>2. stage' = [mid EXCEPT ![<<m, n>>] = next]
      BY <1>4, <1>6, <3>1
    <3> HIDE DEF mid
    <3> QED
      BY <1>4, <3>1, <3>2
  <2> QED
    BY <1>1, <1>3, <1>6, <2>1, <2>2
<1> QED
  BY <1>1, <1>6

LEMMA WaitingStep == Typed /\ Waiting /\ [Next]_vars => Waiting'
<1> SUFFICES ASSUME Typed, Waiting, [Next]_vars
             PROVE  Waiting'
  OBVIOUS
<1> USE DEF client, thread, work, cluster
<1>0. /\ life \in [Sessions -> {"new", "open", "gone"}]
      /\ stage \in [Threads -> {"idle", "put", "changed", "broadcast", "publish",
                                "welcome", "deliver", "waiting"}]
      /\ request \in [Sessions -> 0 .. MaxEdits]
      /\ \A s \in Sessions : s \in Threads
  BY ThreadParts DEF Typed, TypeOK
<1>1. ASSUME NEW s \in Sessions, Connect(s)
      PROVE  Waiting'
  BY <1>0, <1>1 DEF Waiting, Connect
<1>2. ASSUME NEW s \in Sessions, Subscribe(s) \/ Disconnect(s)
      PROVE  Waiting'
  BY <1>0, <1>2 DEF Waiting, Subscribe, Disconnect
\* Every thread that is at work has been connected, and waits for nothing.
<1>3. ASSUME NEW t \in Threads, stage[t] \notin {"waiting", "idle"}, request' = request,
             life' = life, NEW x, stage' = [stage EXCEPT ![t] = x]
      PROVE  Waiting'
  BY <1>0, <1>3 DEF Waiting
<1>4. ASSUME NEW s \in Sessions, PutRoom(s) \/ CreateFailed(s)
      PROVE  Waiting'
  <2>1. /\ stage[s] = "put" /\ request' = request /\ life' = life /\ s \in Threads
        /\ \E x : stage' = [stage EXCEPT ![s] = x]
    BY <1>0, <1>4 DEF PutRoom, CreateFailed
  <2> QED
    BY <1>3, <2>1
<1>5. ASSUME NEW t \in Threads, Step(t)
      PROVE  Waiting'
  <2>1. /\ stage[t] \notin {"waiting", "idle"} /\ request' = request /\ life' = life
        /\ \E x : stage' = [stage EXCEPT ![t] = x]
    BY <1>5 DEF Step, RoomsChanged, MergeRooms, Keep, SendRooms
  <2> QED
    BY <1>3, <2>1
<1>6. ASSUME NEW s \in Sessions, NEW r \in Rooms, CreateRoom(s, r)
      PROVE  Waiting'
  BY <1>0, <1>6 DEF Waiting, CreateRoom
<1>7. ASSUME NEW s \in Sessions, Timeout(s)
      PROVE  Waiting'
  BY <1>0, <1>7 DEF Waiting, Timeout
<1>8. ASSUME NEW s \in Sessions, NEW r \in Rooms, NEW name \in Names, EditRoom(s, r, name)
      PROVE  Waiting'
  <2>1. life[s] = "open" /\ stage[s] = "idle" /\ life' = life
    BY <1>8 DEF EditRoom
  <2>2. \/ stage' = [stage EXCEPT ![s] = "broadcast"] /\ request' = request
        \/ UNCHANGED <<stage, request>>
        \/ /\ stage' = [stage EXCEPT ![s] = "waiting"]
           /\ request' = [request EXCEPT ![s] = edits + 1]
    BY <1>8, EditRoomEffect
  <2> QED
    BY <1>0, <2>1, <2>2 DEF Waiting
<1>9. ASSUME NEW m \in Nodes, NEW n \in Nodes, Receive(m, n)
      PROVE  Waiting'
  <2>1. <<m, n>> \in Threads \ Sessions
    BY ThreadParts
  <2>2. CASE ReceiveRooms(m, n)
    <3>1. /\ life' = life /\ request' = request
          /\ \E x : stage' = [stage EXCEPT ![<<m, n>>] = x]
      BY <2>2 DEF ReceiveRooms
    <3> QED
      BY <1>0, <2>1, <3>1 DEF Waiting
  <2>3. CASE ReceiveEdit(m, n)
    BY <2>3 DEF Waiting, ReceiveEdit
  <2>4. CASE ReceiveAnswer(m, n)
    <3>1. life' = life
      BY <2>4 DEF ReceiveAnswer
    <3>2. \/ UNCHANGED <<stage, request>>
          \/ \E s \in Sessions :
               /\ stage[s] = "waiting"
               /\ request' = [request EXCEPT ![s] = 0]
               /\ stage'[s] = "idle"
               /\ \A t \in Threads : t # s /\ t # <<m, n>> => stage'[t] = stage[t]
      BY ZenonT(30), <2>4, ReceiveAnswerEffect
    <3> QED
      BY <1>0, <2>1, <3>1, <3>2 DEF Waiting
  <2> QED
    BY <1>9, <2>2, <2>3, <2>4 DEF Receive
<1>10. ASSUME NEW m \in Nodes, NEW n \in Nodes, NodesPart(m, n) \/ NodesJoin(m, n)
       PROVE  Waiting'
  BY <1>10 DEF Waiting, NodesPart, NodesJoin
<1>11. CASE UNCHANGED vars
  BY <1>11 DEF Waiting, vars
<1> QED
  BY <1>1, <1>2, <1>4, <1>5, <1>6, <1>7, <1>8, <1>9, <1>10, <1>11 DEF Next

LEMMA WaitingAlways == Spec => []Waiting
<1>1. Init => Waiting
  BY ThreadParts DEF Init, Waiting
<1> QED
  BY <1>1, TypedAlways, WaitingStep, PTL DEF Spec

-----------------------------------------------------------------------------
\* Members lists: a node has one for exactly the rooms it knows, but for those
\* of which a thread has not told the listeners yet.

Busy(n, r) == \E t \in Threads : Here(t) = n /\ stage[t] = "changed" /\ r \in changed[t]

Listed ==
  \A n \in Nodes, r \in Rooms : Busy(n, r) \/ (r \in lists[n] <=> Owners(n, r) # {})

LEMMA ListedKept ==
  ASSUME Listed, lists' = lists,
         \A n \in Nodes, r \in Rooms : Owners(n, r)' = {} <=> Owners(n, r) = {},
         \A t \in Threads : stage[t] = "changed" =>
           stage'[t] = "changed" /\ changed'[t] = changed[t]
  PROVE  Listed'
  BY DEF Listed, Busy

\* Renaming a room that somebody has, or hearing nothing, makes no room and
\* takes none away.
LEMMA SameOwners ==
  ASSUME Typed, NEW n \in Nodes, NEW r \in Rooms, NEW name \in Names,
         \/ maps[n][n][r] # NoName /\ maps' = [maps EXCEPT ![n][n][r] = name]
         \/ maps' = maps
  PROVE  \A k \in Nodes, q \in Rooms : Owners(k, q)' = Owners(k, q)
<1>1. maps \in [Nodes -> [Nodes -> RoomMaps]] /\ name # NoName
  BY RoomsAssumption DEF Typed, TypeOK
<1>2. \A a, b \in Nodes, q \in Rooms : maps'[a][b][q] # NoName <=> maps[a][b][q] # NoName
  <2>1. CASE maps[n][n][r] # NoName /\ maps' = [maps EXCEPT ![n][n][r] = name]
    <3>1. \A a, b \in Nodes, q \in Rooms :
            maps'[a][b][q] = IF a = n /\ b = n /\ q = r THEN name ELSE maps[a][b][q]
      BY <1>1, <2>1 DEF RoomMaps
    <3> QED
      BY <1>1, <2>1, <3>1
  <2> QED
    BY <2>1
<1> QED
  BY <1>2 DEF Owners

LEMMA SessionListed ==
  ASSUME Typed, Waiting, Listed, NEW s \in Sessions,
         \/ Connect(s) \/ Subscribe(s) \/ Disconnect(s) \/ PutRoom(s) \/ CreateFailed(s)
         \/ Timeout(s)
         \/ \E r \in Rooms : CreateRoom(s, r)
         \/ \E r \in Rooms, name \in Names : EditRoom(s, r, name)
  PROVE  Listed'
<1> USE DEF client, thread, work, cluster
<1>0. /\ changed \in [Threads -> SUBSET Rooms]
      /\ stage \in [Threads -> {"idle", "put", "changed", "broadcast", "publish",
                                "welcome", "deliver", "waiting"}]
      /\ maps \in [Nodes -> [Nodes -> RoomMaps]]
      /\ s \in Threads /\ NodeOf[s] \in Nodes /\ Here(s) = NodeOf[s]
  BY ThreadParts, RoomsAssumption DEF Typed, TypeOK
<1>1. CASE PutRoom(s)
  <2>1. PICK r \in changed[s] : Put(NodeOf[s], r, FirstName, links)
    BY <1>1 DEF PutRoom
  <2>2. /\ r \in Rooms /\ lists' = lists /\ changed' = changed
        /\ stage' = [stage EXCEPT ![s] = "changed"] /\ stage[s] = "put"
        /\ maps' = [maps EXCEPT ![NodeOf[s]][NodeOf[s]][r] = FirstName]
    BY <1>0, <1>1, <2>1 DEF PutRoom, Put
  <2>3. Busy(NodeOf[s], r)'
    BY <1>0, <2>2 DEF Busy
  <2>4. ASSUME NEW n \in Nodes, NEW q \in Rooms, ~ (n = NodeOf[s] /\ q = r)
        PROVE  Owners(n, q)' = Owners(n, q)
    <3>1. \A m \in Nodes : maps'[n][m][q] = maps[n][m][q]
      BY <1>0, <2>2, <2>4 DEF RoomMaps
    <3> QED
      BY <3>1 DEF Owners
  <2>5. \A n \in Nodes, q \in Rooms : Busy(n, q) => Busy(n, q)'
    BY <1>0, <2>2 DEF Busy
  <2> QED
    BY <2>2, <2>3, <2>4, <2>5 DEF Listed
<1>2. CASE \/ Connect(s) \/ Subscribe(s) \/ Disconnect(s) \/ CreateFailed(s) \/ Timeout(s)
           \/ \E r \in Rooms : CreateRoom(s, r)
  <2>1. maps' = maps /\ lists' = lists
    BY <1>2 DEF Connect, Subscribe, Disconnect, CreateFailed, Timeout, CreateRoom
  <2>2. \A t \in Threads : stage[t] = "changed" =>
          stage'[t] = "changed" /\ changed'[t] = changed[t]
    BY <1>0, <1>2 DEF Connect, Subscribe, Disconnect, CreateFailed, Timeout, CreateRoom, Waiting
  <2>3. \A n \in Nodes, q \in Rooms : Owners(n, q)' = Owners(n, q)
    BY <2>1 DEF Owners
  <2> QED
    BY <2>1, <2>2, <2>3, ListedKept
<1>3. ASSUME NEW r \in Rooms, NEW name \in Names, EditRoom(s, r, name)
      PROVE  Listed'
  <2>1. stage[s] = "idle" /\ lists' = lists /\ changed' = changed
    BY <1>3 DEF EditRoom
  <2>2. /\ \/ /\ maps[NodeOf[s]][NodeOf[s]][r] # NoName
              /\ maps' = [maps EXCEPT ![NodeOf[s]][NodeOf[s]][r] = name]
           \/ maps' = maps
        /\ \/ stage' = stage
           \/ \E x : stage' = [stage EXCEPT ![s] = x]
    BY <1>3, EditRoomEffect DEF Put
  <2>3. \A n \in Nodes, q \in Rooms : Owners(n, q)' = Owners(n, q)
    BY <1>0, <2>2, SameOwners
  <2>4. \A t \in Threads : stage[t] = "changed" => stage'[t] = "changed"
    BY <1>0, <2>1, <2>2
  <2> QED
    BY <2>1, <2>3, <2>4, ListedKept
<1> QED
  BY <1>1, <1>2, <1>3

\* The listeners are told: that the room has one owner matters here, for they
\* look at one part of the map only.
LEMMA StepListed ==
  ASSUME Typed, OneClaim, Listed, NEW t \in Threads, Step(t)
  PROVE  Listed'
<1>0. /\ changed \in [Threads -> SUBSET Rooms]
      /\ stage \in [Threads -> {"idle", "put", "changed", "broadcast", "publish",
                                "welcome", "deliver", "waiting"}]
      /\ lists \in [Nodes -> SUBSET Rooms]
      /\ Here(t) \in Nodes /\ PartOf(t) \in Nodes
  BY ThreadParts DEF Typed, TypeOK
<1>1. maps' = maps
  BY DEF Step, RoomsChanged, MergeRooms, Keep, SendRooms
<1>2. \A n \in Nodes, q \in Rooms : Owners(n, q)' = Owners(n, q)
  BY <1>1 DEF Owners
<1>3. CASE RoomsChanged(t)
  <2> DEFINE there == {r \in changed[t] : maps[Here(t)][PartOf(t)][r] # NoName}
  <2>1. /\ stage[t] = "changed" /\ stage' = [stage EXCEPT ![t] = "broadcast"]
        /\ changed' = [changed EXCEPT ![t] = {}]
        /\ lists' = [lists EXCEPT ![Here(t)] = (lists[Here(t)] \ changed[t]) \cup there]
    BY <1>3 DEF RoomsChanged
  <2>2. ASSUME NEW r \in changed[t]
        PROVE  r \in there <=> Owners(Here(t), r) # {}
    <3>1. r \in Rooms /\ Claims(PartOf(t), r)
      BY <1>0, <2>2 DEF Claims, Changing
    <3>2. \A k \in Nodes : maps[Here(t)][k][r] # NoName => k = PartOf(t)
      BY <1>0, <3>1 DEF OneClaim, Claims, Seen
    <3> QED
      BY <1>0, <2>2, <3>2 DEF Owners
  <2>3. ASSUME NEW n \in Nodes, NEW q \in Rooms
        PROVE  Busy(n, q)' \/ (q \in lists'[n] <=> Owners(n, q)' # {})
    <3>1. CASE n = Here(t) /\ q \in changed[t]
      <4>1. q \in lists'[n] <=> q \in there
        BY <1>0, <2>1, <3>1
      <4> QED
        BY <1>2, <2>2, <3>1, <4>1
    <3>2. CASE ~ (n = Here(t) /\ q \in changed[t])
      <4>1. q \in lists'[n] <=> q \in lists[n]
        BY <1>0, <2>1, <3>2
      <4>2. Busy(n, q) => Busy(n, q)'
        BY <1>0, <2>1, <3>2 DEF Busy
      <4> QED
        BY <1>2, <4>1, <4>2 DEF Listed
    <3> QED
      BY <3>1, <3>2
  <2> QED
    BY <2>3 DEF Listed
<1>4. CASE MergeRooms(t) \/ SendRooms(t)
  <2>1. /\ lists' = lists /\ changed' = changed
        /\ \A u \in Threads : stage[u] = "changed" => stage'[u] = "changed"
    BY <1>0, <1>4 DEF MergeRooms, Keep, SendRooms
  <2> QED
    BY <1>2, <2>1, ListedKept
<1> QED
  BY <1>3, <1>4 DEF Step

LEMMA ClusterListed ==
  ASSUME Typed, Waiting, Listed, NEW m \in Nodes, NEW n \in Nodes,
         Receive(m, n) \/ NodesPart(m, n) \/ NodesJoin(m, n)
  PROVE  Listed'
<1> USE DEF client, thread, work, cluster
<1>0. /\ changed \in [Threads -> SUBSET Rooms]
      /\ stage \in [Threads -> {"idle", "put", "changed", "broadcast", "publish",
                                "welcome", "deliver", "waiting"}]
      /\ maps \in [Nodes -> [Nodes -> RoomMaps]]
      /\ <<m, n>> \in Threads /\ Here(<<m, n>>) = n
  BY ThreadParts DEF Typed, TypeOK
<1>1. CASE ReceiveRooms(m, n)
  <2> DEFINE msg == Head(links[m][n])
             rooms == Changes(msg, maps[n][m])
  <2>1. /\ stage[<<m, n>>] = "idle" /\ lists' = lists
        /\ changed' = [changed EXCEPT ![<<m, n>>] = rooms]
        /\ stage' = [stage EXCEPT ![<<m, n>>] = IF rooms = {} THEN "idle" ELSE "changed"]
    BY <1>1 DEF ReceiveRooms, Hears
  <2>2. /\ \A a, b \in Nodes : maps'[a][b] =
             IF a = n /\ b = m THEN Applied(msg, maps[a][b]) ELSE maps[a][b]
        /\ msg \in Messages /\ msg.type \in {"put", "object"}
    BY <1>1, ReceiveRoomsEffect
  <2> HIDE DEF msg
  <2>3. ASSUME NEW q \in Rooms, q \notin rooms
        PROVE  Applied(msg, maps[n][m])[q] = maps[n][m][q]
    BY <1>0, <2>2, <2>3 DEF Changes, Applied, RoomMaps
  <2>4. ASSUME NEW k \in Nodes, NEW q \in Rooms, ~ (k = n /\ q \in rooms)
        PROVE  Owners(k, q)' = Owners(k, q)
    <3>1. \A b \in Nodes : maps'[k][b][q] = maps[k][b][q]
      BY <2>2, <2>3, <2>4
    <3> QED
      BY <3>1 DEF Owners
  <2> HIDE DEF rooms
  <2>5. \A q \in rooms : Busy(n, q)'
    BY <1>0, <2>1 DEF Busy
  <2>6. \A k \in Nodes, q \in Rooms : Busy(k, q) => Busy(k, q)'
    BY <1>0, <2>1 DEF Busy
  <2> QED
    BY <2>1, <2>4, <2>5, <2>6 DEF Listed
<1>2. CASE ReceiveEdit(m, n)
  <2>1. PICK r \in Rooms, name \in Names :
          \/ maps[n][n][r] # NoName /\ maps' = [maps EXCEPT ![n][n][r] = name]
          \/ maps' = maps
    BY <1>2, ReceiveEditMaps
  <2>2. lists' = lists /\ stage' = stage /\ changed' = changed
    BY <1>2 DEF ReceiveEdit
  <2>3. \A k \in Nodes, q \in Rooms : Owners(k, q)' = Owners(k, q)
    BY <2>1, SameOwners
  <2> QED
    BY <2>2, <2>3, ListedKept
<1>3. CASE ReceiveAnswer(m, n)
  <2>1. lists' = lists /\ changed' = changed /\ maps' = maps
    BY <1>3 DEF ReceiveAnswer
  <2>2. \A t \in Threads : stage[t] = "changed" => stage'[t] = "changed"
    BY <1>3, ReceiveAnswerEffect
  <2>3. \A k \in Nodes, q \in Rooms : Owners(k, q)' = Owners(k, q)
    BY <2>1 DEF Owners
  <2> QED
    BY <2>1, <2>2, <2>3, ListedKept
<1>4. CASE NodesPart(m, n) \/ NodesJoin(m, n)
  BY <1>4 DEF Listed, Busy, Owners, NodesPart, NodesJoin
<1> QED
  BY <1>1, <1>2, <1>3, <1>4 DEF Receive

LEMMA ListedAlways == Spec => []Listed
<1>1. ASSUME Init
      PROVE  Listed
  <2> SUFFICES ASSUME NEW n \in Nodes, NEW r \in Rooms
               PROVE  r \in lists[n] <=> Owners(n, r) # {}
    BY DEF Listed
  <2>1. \A m \in Nodes : maps[n][m][r] # NoName <=> LoadedBy[r] = m
    BY <1>1, RoomsAssumption DEF Init, Loaded
  <2>2. r \in lists[n] <=> LoadedBy[r] # NoNode
    BY <1>1 DEF Init
  <2> QED
    BY <2>1, <2>2, RoomsAssumption DEF Owners
<1>2. ASSUME Typed, Waiting, OneClaim, Listed, [Next]_vars
      PROVE  Listed'
  <2>1. CASE UNCHANGED vars
    BY <1>2, <2>1 DEF Listed, Busy, Owners, vars
  <2> QED
    BY <1>2, <2>1, SessionListed, StepListed, ClusterListed DEF Next
<1> QED
  BY <1>1, <1>2, TypedAlways, WaitingAlways, OneClaimAlways, PTL DEF Spec

\* At rest a node has a members list for exactly the rooms it knows.
THEOREM RoomsAreListed == Spec => []ListForEveryRoom
<1>1. ASSUME Typed, Listed
      PROVE  ListForEveryRoom
  <2> SUFFICES ASSUME \A t \in Threads : stage[t] \in {"idle", "waiting"},
                      NEW n \in Nodes, NEW r \in Rooms
               PROVE  r \in lists[n] <=> Find(n, r) # NoName
    BY DEF ListForEveryRoom, AtRest
  <2>1. ~ Busy(n, r)
    BY DEF Busy
  <2>2. Find(n, r) # NoName <=> Owners(n, r) # {}
    BY <1>1, MergeType
  <2> QED
    BY <1>1, <2>1, <2>2 DEF Listed
<1> QED
  BY <1>1, TypedAlways, ListedAlways, PTL

-----------------------------------------------------------------------------
\* What is shown.  When all changes at a node have been merged, what was merged
\* last and is not sent yet is the current list, and who is not about to get it
\* shows the current list already.

Settled(st, n) == \A t \in Threads : Here(t) = n => st[t] \notin {"changed", "broadcast"}

\* A list that none has overtaken is on its way to the clients of n.
Publishing(st, old, n) == \E t \in Threads \ old : Here(t) = n /\ st[t] = "publish"

\* Owners and Find, of any maps.
OwnersIn(M, n, r) == {m \in Nodes : M[n][m][r] # NoName}

Chosen(S) == CHOOSE m \in S : TRUE

FindIn(M, n, r) == IF OwnersIn(M, n, r) = {} THEN NoName ELSE M[n][Chosen(OwnersIn(M, n, r))][r]

\* The rooms are those that n knows; of the rooms of other nodes the names are
\* right too.
Current(M, n, list) ==
  \A r \in Rooms :
    /\ list[r] # NoName <=> OwnersIn(M, n, r) # {}
    /\ M[n][n][r] = NoName => list[r] = FindIn(M, n, r)

\* Who was overtaken has a list to send.
OvertakenHold == \A t \in overtaken : t \in Threads /\ stage[t] \in {"publish", "deliver"}

MergedCurrent ==
  \A t \in Threads \ overtaken :
    stage[t] \in {"publish", "deliver"} /\ Settled(stage, Here(t))
      => Current(maps, Here(t), merged[t])

ShownCurrent ==
  \A s \in Sessions \ missed :
    /\ life[s] = "open" /\ stage[s] \notin {"welcome", "deliver"}
    /\ Settled(stage, NodeOf[s]) /\ ~ Publishing(stage, overtaken, NodeOf[s])
    => Current(maps, NodeOf[s], shown[s])

Display == OvertakenHold /\ MergedCurrent /\ ShownCurrent

LEMMA OfTheMaps ==
  ASSUME NEW n \in Nodes, NEW r \in Rooms
  PROVE  Owners(n, r) = OwnersIn(maps, n, r) /\ Find(n, r) = FindIn(maps, n, r)
  BY DEF Owners, OwnersIn, Find, FindIn, Chosen

\* What is found of a room depends on what the maps have of it.
LEMMA FindKept ==
  ASSUME NEW n \in Nodes, NEW r \in Rooms, \A m \in Nodes : maps'[n][m][r] = maps[n][m][r]
  PROVE  /\ OwnersIn(maps', n, r) = OwnersIn(maps, n, r)
         /\ FindIn(maps', n, r) = FindIn(maps, n, r)
<1>1. OwnersIn(maps', n, r) = OwnersIn(maps, n, r)
  BY DEF OwnersIn
<1>2. OwnersIn(maps, n, r) # {} => Chosen(OwnersIn(maps, n, r)) \in Nodes
  BY DEF Chosen, OwnersIn
<1> QED
  BY <1>1, <1>2 DEF FindIn

\* A new name for a room of the node itself changes no list of rooms, nor the
\* names of others.
LEMMA CurrentRenamed ==
  ASSUME Typed, NEW k \in Nodes, NEW r \in Rooms, NEW name \in Names,
         \/ maps[k][k][r] # NoName /\ maps' = [maps EXCEPT ![k][k][r] = name]
         \/ maps' = maps,
         NEW n \in Nodes, NEW list, Current(maps, n, list)
  PROVE  Current(maps', n, list)
<1>0. CASE maps' = maps
  BY <1>0
<1>a. CASE maps[k][k][r] # NoName /\ maps' = [maps EXCEPT ![k][k][r] = name]
  <2>1. maps \in [Nodes -> [Nodes -> RoomMaps]] /\ name # NoName
    BY RoomsAssumption DEF Typed, TypeOK
  <2>2. \A a, b \in Nodes, q \in Rooms :
          maps'[a][b][q] = IF a = k /\ b = k /\ q = r THEN name ELSE maps[a][b][q]
    BY <1>a, <2>1 DEF RoomMaps
  <2>3. \A q \in Rooms : OwnersIn(maps', n, q) = OwnersIn(maps, n, q)
    <3>1. \A m \in Nodes, q \in Rooms : maps'[n][m][q] = NoName <=> maps[n][m][q] = NoName
      BY <1>a, <2>1, <2>2
    <3> QED
      BY <3>1 DEF OwnersIn
  <2>4. \A q \in Rooms : maps'[n][n][q] = NoName <=> maps[n][n][q] = NoName
    BY <1>a, <2>1, <2>2
  <2>5. ASSUME NEW q \in Rooms, maps[n][n][q] = NoName
        PROVE  FindIn(maps', n, q) = FindIn(maps, n, q)
    <3>1. \A m \in Nodes : maps'[n][m][q] = maps[n][m][q]
      BY <1>a, <2>2, <2>5
    <3> QED
      BY <3>1, FindKept
  <2> QED
    BY <2>3, <2>4, <2>5 DEF Current
<1> QED
  BY <1>0, <1>a

\* The merge of the maps is current.
LEMMA MergeCurrent ==
  ASSUME Typed, NEW n \in Nodes
  PROVE  Current(maps, n, Merge(n))
  BY MergeType, OfTheMaps DEF Current

\* What holds of a step that sends nothing: it takes no thread from its
\* changes to rest, it merges nothing, and it is about no list that is shown.
Undisturbed ==
  /\ \A t \in Threads :
       /\ stage[t] \in {"changed", "broadcast"} => stage'[t] \in {"changed", "broadcast"}
       /\ stage'[t] \in {"publish", "deliver"} => stage'[t] = stage[t]
       /\ stage[t] \in {"publish", "deliver", "welcome"} => stage'[t] = stage[t]
  /\ merged' = merged /\ overtaken' = overtaken
  /\ \A s \in Sessions : life'[s] = "open" =>
       \/ stage'[s] = "welcome"
       \/ life[s] = "open" /\ shown'[s] = shown[s] /\ (s \in missed => s \in missed')
  /\ \A n \in Nodes : Settled(stage', n) =>
       \A list : Current(maps, n, list) => Current(maps', n, list)

LEMMA DisplayKept ==
  ASSUME Display, Undisturbed
  PROVE  Display'
<1>1. \A n : /\ Settled(stage', n) => Settled(stage, n)
             /\ Publishing(stage, overtaken, n) => Publishing(stage', overtaken', n)
  BY DEF Undisturbed, Settled, Publishing
<1>2. OvertakenHold'
  BY DEF Display, OvertakenHold, Undisturbed
<1>3. MergedCurrent'
  <2> SUFFICES ASSUME NEW t \in Threads \ overtaken', stage'[t] \in {"publish", "deliver"},
                      Settled(stage', Here(t))
               PROVE  Current(maps', Here(t), merged'[t])
    BY DEF MergedCurrent
  <2>1. /\ Here(t) \in Nodes /\ t \notin overtaken
        /\ stage[t] \in {"publish", "deliver"} /\ merged'[t] = merged[t]
    BY ThreadParts DEF Undisturbed
  <2>2. Current(maps, Here(t), merged[t])
    BY <1>1, <2>1 DEF Display, MergedCurrent
  <2> QED
    BY <2>1, <2>2 DEF Undisturbed
<1>4. ShownCurrent'
  <2> SUFFICES ASSUME NEW s \in Sessions, s \notin missed', life'[s] = "open",
                      stage'[s] \notin {"welcome", "deliver"},
                      Settled(stage', NodeOf[s]), ~ Publishing(stage', overtaken', NodeOf[s])
               PROVE  Current(maps', NodeOf[s], shown'[s])
    BY DEF ShownCurrent
  <2>1. /\ NodeOf[s] \in Nodes /\ s \in Threads
        /\ s \notin missed /\ life[s] = "open" /\ shown'[s] = shown[s]
        /\ stage[s] \notin {"welcome", "deliver"}
    BY ThreadParts, RoomsAssumption DEF Undisturbed
  <2>2. Current(maps, NodeOf[s], shown[s])
    BY <1>1, <2>1 DEF Display, ShownCurrent
  <2> QED
    BY <2>1, <2>2 DEF Undisturbed
<1> QED
  BY <1>2, <1>3, <1>4 DEF Display

\* What is current at a node stays so when its maps do.
LEMMA CurrentKept ==
  ASSUME NEW n \in Nodes, \A m \in Nodes, r \in Rooms : maps'[n][m][r] = maps[n][m][r],
         NEW list, Current(maps, n, list)
  PROVE  Current(maps', n, list)
<1>1. \A r \in Rooms : /\ OwnersIn(maps', n, r) = OwnersIn(maps, n, r)
                       /\ FindIn(maps', n, r) = FindIn(maps, n, r)
  BY FindKept
<1> QED
  BY <1>1 DEF Current

\* The steps of sessions: whoever makes a room will tell the listeners, and
\* the owner that renames one has it broadcast.
LEMMA SessionUndisturbed ==
  ASSUME Typed, Waiting, NEW s \in Sessions,
         \/ Connect(s) \/ Subscribe(s) \/ Disconnect(s)
         \/ \E r \in Rooms : CreateRoom(s, r)
         \/ PutRoom(s) \/ CreateFailed(s)
         \/ \E r \in Rooms, name \in Names : EditRoom(s, r, name)
         \/ Timeout(s)
  PROVE  Undisturbed
<1> USE DEF client, thread, work, cluster
<1>0. /\ life \in [Sessions -> {"new", "open", "gone"}]
      /\ stage \in [Threads -> {"idle", "put", "changed", "broadcast", "publish",
                                "welcome", "deliver", "waiting"}]
      /\ shown \in [Sessions -> RoomMaps]
      /\ changed \in [Threads -> SUBSET Rooms]
      /\ maps \in [Nodes -> [Nodes -> RoomMaps]]
      /\ \A u \in Sessions : u \in Threads /\ Here(u) = NodeOf[u] /\ NodeOf[u] \in Nodes
  BY ThreadParts, RoomsAssumption DEF Typed, TypeOK
<1>1. CASE Connect(s)
  <2>1. life[s] = "new" /\ stage[s] = "idle"
    BY <1>1 DEF Connect, Waiting
  <2>2. /\ life' = [life EXCEPT ![s] = "open"] /\ stage' = [stage EXCEPT ![s] = "welcome"]
        /\ UNCHANGED <<merged, overtaken, shown, missed, maps>>
    BY <1>1 DEF Connect
  <2> QED
    BY <1>0, <2>1, <2>2 DEF Undisturbed
<1>2. CASE Subscribe(s)
  BY <1>2 DEF Subscribe, Undisturbed
<1>3. CASE Disconnect(s)
  BY <1>0, <1>3 DEF Disconnect, Undisturbed
<1>4. CASE (\E r \in Rooms : CreateRoom(s, r)) \/ CreateFailed(s) \/ Timeout(s)
  <2>1. /\ stage[s] \in {"idle", "put", "waiting"}
        /\ \E x \in {"idle", "put"} : stage' = [stage EXCEPT ![s] = x]
        /\ UNCHANGED <<merged, overtaken, life, shown, missed, maps>>
    BY <1>4 DEF CreateRoom, CreateFailed, Timeout
  <2> QED
    BY <1>0, <2>1 DEF Undisturbed
<1>5. CASE PutRoom(s)
  <2>1. /\ stage[s] = "put" /\ stage' = [stage EXCEPT ![s] = "changed"]
        /\ UNCHANGED <<merged, overtaken, life, shown, missed>>
    BY <1>5 DEF PutRoom
  <2>2. PICK r \in changed[s] : maps' = [maps EXCEPT ![NodeOf[s]][NodeOf[s]][r] = FirstName]
    BY <1>5 DEF PutRoom, Put
  <2>3. ASSUME NEW n \in Nodes, Settled(stage', n), NEW list, Current(maps, n, list)
        PROVE  Current(maps', n, list)
    <3>1. n # NodeOf[s]
      BY <1>0, <2>1, <2>3 DEF Settled
    <3>2. \A m \in Nodes, q \in Rooms : maps'[n][m][q] = maps[n][m][q]
      BY <1>0, <2>2, <3>1
    <3> QED
      BY <2>3, <3>2, CurrentKept
  <2> QED
    BY <1>0, <2>1, <2>3 DEF Undisturbed
<1>6. ASSUME NEW r \in Rooms, NEW name \in Names, EditRoom(s, r, name)
      PROVE  Undisturbed
  <2>1. stage[s] = "idle" /\ UNCHANGED <<merged, overtaken, life, shown, missed>>
    BY <1>6 DEF EditRoom
  <2>2. \/ /\ maps' = [maps EXCEPT ![NodeOf[s]][NodeOf[s]][r] = name]
           /\ stage' = [stage EXCEPT ![s] = "broadcast"]
        \/ /\ maps' = maps
           /\ stage' = stage \/ stage' = [stage EXCEPT ![s] = "waiting"]
    BY <1>6, EditRoomEffect DEF Put
  <2>3. ASSUME NEW n \in Nodes, Settled(stage', n), NEW list, Current(maps, n, list)
        PROVE  Current(maps', n, list)
    <3>1. CASE maps' = maps
      BY <2>3, <3>1
    <3>2. CASE /\ maps' = [maps EXCEPT ![NodeOf[s]][NodeOf[s]][r] = name]
               /\ stage' = [stage EXCEPT ![s] = "broadcast"]
      <4>1. n # NodeOf[s]
        BY <1>0, <2>3, <3>2 DEF Settled
      <4>2. \A m \in Nodes, q \in Rooms : maps'[n][m][q] = maps[n][m][q]
        BY <1>0, <3>2, <4>1
      <4> QED
        BY <2>3, <4>2, CurrentKept
    <3> QED
      BY <2>2, <3>1, <3>2
  <2> QED
    BY <1>0, <2>1, <2>2, <2>3 DEF Undisturbed
<1> QED
  BY <1>1, <1>2, <1>3, <1>4, <1>5, <1>6

\* What nodes hear of each other: rooms that come or go are told to the
\* listeners first.
LEMMA ClusterUndisturbed ==
  ASSUME Typed, Waiting, NEW m \in Nodes, NEW n \in Nodes,
         Receive(m, n) \/ NodesPart(m, n) \/ NodesJoin(m, n)
  PROVE  Undisturbed
<1> USE DEF client, thread, work, cluster
<1>0. /\ stage \in [Threads -> {"idle", "put", "changed", "broadcast", "publish",
                                "welcome", "deliver", "waiting"}]
      /\ maps \in [Nodes -> [Nodes -> RoomMaps]]
      /\ <<m, n>> \in Threads \ Sessions /\ Here(<<m, n>>) = n
      /\ \A s \in Sessions : s \in Threads
  BY ThreadParts DEF Typed, TypeOK
<1>1. CASE ReceiveRooms(m, n)
  <2> DEFINE msg == Head(links[m][n])
             rooms == Changes(msg, maps[n][m])
  <2>1. /\ stage[<<m, n>>] = "idle"
        /\ stage' = [stage EXCEPT ![<<m, n>>] = IF rooms = {} THEN "idle" ELSE "changed"]
        /\ UNCHANGED <<merged, overtaken, life, shown, missed>>
    BY <1>1 DEF ReceiveRooms, Hears
  <2>2. /\ \A a, b \in Nodes : maps'[a][b] =
             IF a = n /\ b = m THEN Applied(msg, maps[a][b]) ELSE maps[a][b]
        /\ msg \in Messages /\ msg.type \in {"put", "object"}
    BY <1>1, ReceiveRoomsEffect
  <2> HIDE DEF msg
  <2>3. ASSUME NEW k \in Nodes, Settled(stage', k), NEW list, Current(maps, k, list)
        PROVE  Current(maps', k, list)
    <3>1. k = n => rooms = {}
      BY <1>0, <2>1, <2>3 DEF Settled
    <3>2. k = n => \A q \in Rooms : Applied(msg, maps[n][m])[q] = maps[n][m][q]
      BY <1>0, <2>2, <3>1 DEF Changes, Applied
    <3>3. \A b \in Nodes, q \in Rooms : maps'[k][b][q] = maps[k][b][q]
      BY <2>2, <3>2
    <3> QED
      BY <2>3, <3>3, CurrentKept
  <2> HIDE DEF rooms
  <2> QED
    BY <1>0, <2>1, <2>3 DEF Undisturbed
<1>2. CASE ReceiveEdit(m, n)
  <2>1. PICK r \in Rooms, name \in Names :
          \/ maps[n][n][r] # NoName /\ maps' = [maps EXCEPT ![n][n][r] = name]
          \/ maps' = maps
    BY <1>2, ReceiveEditMaps
  <2>2. \A k \in Nodes : \A list : Current(maps, k, list) => Current(maps', k, list)
    BY <2>1, CurrentRenamed
  <2>3. UNCHANGED <<client, thread>>
    BY <1>2 DEF ReceiveEdit
  <2> QED
    BY <2>2, <2>3 DEF Undisturbed
<1>3. CASE ReceiveAnswer(m, n)
  <2>1. UNCHANGED <<client, merged, overtaken, maps>>
    BY <1>3 DEF ReceiveAnswer
  <2>2. /\ stage[<<m, n>>] = "idle"
        /\ \/ stage' = stage
           \/ \E s \in Sessions :
                /\ stage[s] = "waiting" /\ stage'[s] = "idle"
                /\ stage'[<<m, n>>] \in {"idle", "broadcast"}
                /\ \A t \in Threads : t # s /\ t # <<m, n>> => stage'[t] = stage[t]
    BY <1>3, ReceiveAnswerEffect
  <2> QED
    BY <1>0, <2>1, <2>2 DEF Undisturbed
<1>4. CASE NodesPart(m, n) \/ NodesJoin(m, n)
  BY <1>4 DEF NodesPart, NodesJoin, Undisturbed
<1> QED
  BY <1>1, <1>2, <1>3, <1>4 DEF Receive

\* A thread at work: whoever is sent an older list than the last one is among
\* those who miss it.
LEMMA StepDisplay ==
  ASSUME Typed, Display, NEW t \in Threads, Step(t)
  PROVE  Display'
<1> USE DEF client, thread, work, cluster
<1>0. /\ stage \in [Threads -> {"idle", "put", "changed", "broadcast", "publish",
                                "welcome", "deliver", "waiting"}]
      /\ merged \in [Threads -> RoomMaps]
      /\ \A u \in Threads : Here(u) \in Nodes
      /\ \A s \in Sessions : s \in Threads /\ Here(s) = NodeOf[s] /\ NodeOf[s] \in Nodes
  BY ThreadParts, RoomsAssumption DEF Typed, TypeOK
<1>1. CASE RoomsChanged(t)
  <2>1. /\ stage[t] = "changed" /\ stage' = [stage EXCEPT ![t] = "broadcast"]
        /\ UNCHANGED <<merged, overtaken, life, shown, missed, maps>>
    BY <1>1 DEF RoomsChanged
  <2>2. Undisturbed
    BY <1>0, <2>1 DEF Undisturbed
  <2> QED
    BY <2>2, DisplayKept
<1>2. CASE MergeRooms(t)
  <2> DEFINE n == Here(t)
  <2>1. /\ stage[t] \in {"broadcast", "welcome"}
        /\ overtaken' = IF stage[t] = "broadcast" THEN overtaken \cup Older(t) ELSE overtaken
        /\ stage' = [stage EXCEPT ![t] = IF stage[t] = "broadcast" THEN "publish" ELSE "deliver"]
        /\ merged' = [merged EXCEPT ![t] = Merge(n)]
        /\ UNCHANGED <<life, shown, missed, maps>>
    BY <1>2 DEF MergeRooms, Keep
  <2>2. Current(maps, n, Merge(n))
    BY <1>0, MergeCurrent
  <2>3. /\ merged'[t] = Merge(n) /\ \A u \in Threads : u # t => merged'[u] = merged[u]
        /\ stage'[t] = IF stage[t] = "broadcast" THEN "publish" ELSE "deliver"
        /\ \A u \in Threads : u # t => stage'[u] = stage[u]
    BY <1>0, <2>1
  <2>7. t \notin overtaken
    BY <2>1 DEF Display, OvertakenHold
  <2>4. OvertakenHold'
    BY <2>1, <2>3, <2>7 DEF Display, OvertakenHold, Older
  <2>5. MergedCurrent'
    <3> SUFFICES ASSUME NEW u \in Threads \ overtaken', stage'[u] \in {"publish", "deliver"},
                        Settled(stage', Here(u))
                 PROVE  Current(maps', Here(u), merged'[u])
      BY DEF MergedCurrent
    <3>1. CASE u = t
      BY <2>1, <2>2, <2>3, <3>1
    <3>2. CASE u # t
      <4>1. u \notin overtaken /\ stage[u] \in {"publish", "deliver"}
        BY <2>1, <2>3, <3>2
      <4>2. stage[t] = "broadcast" => Here(u) # n
        BY <2>1, <4>1 DEF Older
      <4>3. Settled(stage, Here(u))
        BY <2>1, <2>3, <4>2 DEF Settled
      <4>4. Current(maps, Here(u), merged[u])
        BY <4>1, <4>3 DEF Display, MergedCurrent
      <4> QED
        BY <2>1, <2>3, <3>2, <4>4
    <3> QED
      BY <3>1, <3>2
  <2>6. ShownCurrent'
    <3> SUFFICES ASSUME NEW s \in Sessions, s \notin missed, life[s] = "open",
                        stage'[s] \notin {"welcome", "deliver"},
                        Settled(stage', NodeOf[s]), ~ Publishing(stage', overtaken', NodeOf[s])
                 PROVE  Current(maps, NodeOf[s], shown[s])
      BY <2>1 DEF ShownCurrent
    <3>1. stage[t] = "broadcast" => NodeOf[s] # n
      BY <2>1, <2>3, <2>7 DEF Publishing, Older
    <3>2. stage[t] = "welcome" => s # t
      BY <2>3
    <3>3. Settled(stage, NodeOf[s]) /\ ~ Publishing(stage, overtaken, NodeOf[s])
      BY <2>1, <2>3, <3>1 DEF Settled, Publishing, Older
    <3>4. stage[s] \notin {"welcome", "deliver"}
      BY <1>0, <2>1, <2>3, <3>1, <3>2
    <3> QED
      BY <3>3, <3>4 DEF Display, ShownCurrent
  <2> QED
    BY <2>4, <2>5, <2>6 DEF Display
<1>3. CASE SendRooms(t)
  <2> DEFINE n == Here(t)
  <2>1. /\ stage[t] \in {"publish", "deliver"} /\ stage' = [stage EXCEPT ![t] = "idle"]
        /\ merged' = [merged EXCEPT ![t] = NoRooms]
        /\ missed' = IF t \in overtaken THEN missed \cup Told(t)
                     ELSE IF stage[t] = "publish" THEN (missed \ Told(t)) \cup Unreached(t)
                     ELSE missed
        /\ overtaken' = overtaken \ {t}
        /\ \A s \in Sessions : shown'[s] = IF s \in Told(t) THEN merged[t] ELSE shown[s]
        /\ UNCHANGED <<life, maps>>
    BY <1>3 DEF SendRooms
  <2>2. /\ stage'[t] = "idle" /\ \A u \in Threads : u # t => stage'[u] = stage[u]
        /\ \A u \in Threads : u # t => merged'[u] = merged[u]
    BY <1>0, <2>1
  <2>3. \A k : Settled(stage', k) => Settled(stage, k)
    BY <2>1, <2>2 DEF Settled
  <2>4. OvertakenHold'
    BY <2>1, <2>2 DEF Display, OvertakenHold
  <2>5. MergedCurrent'
    <3> SUFFICES ASSUME NEW u \in Threads \ overtaken', stage'[u] \in {"publish", "deliver"},
                        Settled(stage', Here(u))
                 PROVE  Current(maps', Here(u), merged'[u])
      BY DEF MergedCurrent
    <3>1. u # t /\ u \notin overtaken /\ stage[u] \in {"publish", "deliver"}
      BY <2>1, <2>2
    <3>2. Current(maps, Here(u), merged[u])
      BY <2>3, <3>1 DEF Display, MergedCurrent
    <3> QED
      BY <2>1, <2>2, <3>1, <3>2
  <2>6. ShownCurrent'
    <3> SUFFICES ASSUME NEW s \in Sessions, s \notin missed', life[s] = "open",
                        stage'[s] \notin {"welcome", "deliver"},
                        Settled(stage', NodeOf[s]), ~ Publishing(stage', overtaken', NodeOf[s])
                 PROVE  Current(maps, NodeOf[s], shown'[s])
      BY <2>1 DEF ShownCurrent
    <3>1. Settled(stage, NodeOf[s])
      BY <2>3
    <3>2. CASE s \in Told(t)
      <4>1. NodeOf[s] = n
        BY <3>2 DEF Told
      <4>2. t \notin overtaken
        BY <2>1, <3>2
      <4>3. Current(maps, n, merged[t])
        BY <2>1, <3>1, <4>1, <4>2 DEF Display, MergedCurrent
      <4> QED
        BY <2>1, <3>2, <4>1, <4>3
    <3>3. CASE s \notin Told(t)
      <4>1. s \notin missed /\ shown'[s] = shown[s]
        BY <2>1, <3>3
      <4>2. s = t => stage[t] = "publish"
        BY <1>0, <2>1, <3>3 DEF Told
      <4>3. stage[s] \notin {"welcome", "deliver"}
        BY <1>0, <2>2, <4>2
      <4>4. stage[t] = "publish" /\ t \notin overtaken => NodeOf[s] # n
        BY <2>1, <3>3, <4>3 DEF Told, Unreached
      <4>5. ~ Publishing(stage, overtaken, NodeOf[s])
        BY <2>1, <2>2, <4>4 DEF Publishing
      <4> QED
        BY <3>1, <4>1, <4>3, <4>5 DEF Display, ShownCurrent
    <3> QED
      BY <3>2, <3>3
  <2> QED
    BY <2>4, <2>5, <2>6 DEF Display
<1> QED
  BY <1>1, <1>2, <1>3 DEF Step

LEMMA DisplayAlways == Spec => []Display
<1>1. ASSUME Init
      PROVE  Display
  <2>1. /\ overtaken = {} /\ \A t \in Threads : stage[t] = "idle"
        /\ \A s \in Sessions : life[s] = "new"
    BY <1>1 DEF Init
  <2> QED
    BY <2>1 DEF Display, OvertakenHold, MergedCurrent, ShownCurrent
<1>2. ASSUME Typed, Waiting, Display, [Next]_vars
      PROVE  Display'
  <2>1. ASSUME UNCHANGED vars
        PROVE  Undisturbed
    BY <2>1 DEF vars, Undisturbed
  <2> QED
    BY <1>2, <2>1, DisplayKept, SessionUndisturbed, StepDisplay, ClusterUndisturbed DEF Next
<1> QED
  BY <1>1, <1>2, TypedAlways, WaitingAlways, PTL DEF Spec

\* At rest whoever is connected, and has missed no list, shows a current one.
LEMMA ShownAtRest ==
  ASSUME Typed, Display, AtRest, NEW s \in Sessions \ missed, life[s] = "open", NEW r \in Rooms
  PROVE  /\ shown[s][r] # NoName <=> Find(NodeOf[s], r) # NoName
         /\ maps[NodeOf[s]][NodeOf[s]][r] = NoName => shown[s][r] = Find(NodeOf[s], r)
<1>1. NodeOf[s] \in Nodes /\ s \in Threads
  BY ThreadParts, RoomsAssumption
<1>2. /\ Settled(stage, NodeOf[s]) /\ ~ Publishing(stage, overtaken, NodeOf[s])
      /\ stage[s] \notin {"welcome", "deliver"}
  BY <1>1 DEF AtRest, Settled, Publishing
<1>3. Current(maps, NodeOf[s], shown[s])
  BY <1>2 DEF Display, ShownCurrent
<1>4. /\ Owners(NodeOf[s], r) = OwnersIn(maps, NodeOf[s], r)
      /\ Find(NodeOf[s], r) = FindIn(maps, NodeOf[s], r)
  BY <1>1, OfTheMaps
<1>5. Find(NodeOf[s], r) # NoName <=> Owners(NodeOf[s], r) # {}
  BY <1>1, MergeType
<1> QED
  BY <1>3, <1>4, <1>5 DEF Current

\* At rest every client that has missed no list shows exactly the rooms its
\* node knows.
THEOREM KnownRoomsAreShown == Spec => []RoomsShown
<1>1. Typed /\ Display => RoomsShown
  BY ShownAtRest DEF RoomsShown
<1> QED
  BY <1>1, TypedAlways, DisplayAlways, PTL

\* At rest it shows the names of other nodes' rooms too.
THEOREM RemoteNamesAreShown == Spec => []RemoteNamesShown
<1>1. Typed /\ Display => RemoteNamesShown
  BY ShownAtRest DEF RemoteNamesShown
<1> QED
  BY <1>1, TypedAlways, DisplayAlways, PTL

=============================================================================
