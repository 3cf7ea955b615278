------------------------------- MODULE Rooms -------------------------------
(***************************************************************************)
(* RoomsService with the two services that drive it, RoomCreateService and *)
(* RoomEditService: the list of the chat rooms.  One OortStringMap of      *)
(* RoomInfo per node is replicated to every other node; whenever rooms     *)
(* come or go each node merges what it sees into one list and publishes    *)
(* the list to its own clients.                                            *)
(*                                                                         *)
(* A thread serves a session, or processes what one node hears of another; *)
(* it may be overtaken between a change of the map, the listeners of the   *)
(* change, the merge of the maps and the publication of the result.  What  *)
(* tells rooms of one id apart is their name; ids are never given twice.   *)
(***************************************************************************)
EXTENDS OortLinks

CONSTANTS
  Sessions,
  Rooms,            \* the ids of rooms
  Names,
  NoName,           \* there is no such room
  FirstName,        \* what rooms are called before they are edited
  NodeOf,           \* the node a session connects to
  NoNode,
  LoadedBy,         \* the node whose rooms file has a room, if any
  MaxEdits,         \* bound: how often clients ask to rename a room
  MaxPartings       \* bound: how often two nodes lose each other

Threads == Sessions \cup (Nodes \X Nodes)

ASSUME RoomsAssumption ==
  /\ Sessions \cap (Nodes \X Nodes) = {}
  /\ NoName \notin Names /\ FirstName \in Names
  /\ NoNode \notin Nodes
  /\ NodeOf \in [Sessions -> Nodes]
  /\ LoadedBy \in [Rooms -> Nodes \cup {NoNode}]
  /\ MaxEdits \in Nat /\ MaxPartings \in Nat

VARIABLES
  life,        \* whether a client is connected
  subscribed,  \* the sessions that are subscribed to /rooms
  shown,       \* the room list that a client shows
  missed,      \* (history variable) the clients that a list was not sent to
               \* because they had their first list and no subscription, or
               \* that were sent an older list after it
  stage,       \* where a thread is
  changed,     \* the rooms whose change a thread has to tell the listeners
  merged,      \* the list a thread has merged and not sent yet
  overtaken,   \* (history variable) the threads whose list is an older one,
               \* for another thread has merged for a broadcast meanwhile
  request,     \* the edit a session waits for, 0 when none
  maps,        \* maps[n][m]: the part of roomInfos owned by m, seen at n
  lists,       \* lists[n]: the rooms that n has a members list for
  ids,         \* the room ids given out so far
  links,       \* what is under way between nodes
  joined,      \* which nodes reach which
  edits,       \* how often clients have asked to rename a room
  partings     \* how often nodes have parted

vars == <<life, subscribed, shown, missed, stage, changed, merged, overtaken, request, maps,
          lists, ids, links, joined, edits, partings>>

client == <<life, subscribed, shown, missed>>
work == <<changed, merged, overtaken>>
thread == <<stage, work>>
cluster == <<joined, partings>>

RoomMaps == [Rooms -> Names \cup {NoName}]

NoRooms == [r \in Rooms |-> NoName]

Messages ==
  [type : {"put"}, room : Rooms, name : Names]
    \cup [type : {"object"}, rooms : RoomMaps]
    \cup [type : {"edit"}, from : Sessions, id : 1 .. MaxEdits, room : Rooms, name : Names]
    \cup [type : {"edited", "refused"}, from : Sessions, id : 1 .. MaxEdits]

TypeOK ==
  /\ life \in [Sessions -> {"new", "open", "gone"}]
  /\ subscribed \in SUBSET Sessions
  /\ shown \in [Sessions -> RoomMaps]
  /\ missed \in SUBSET Sessions
  /\ stage \in [Threads -> {"idle", "put", "changed", "broadcast", "publish",
                            "welcome", "deliver", "waiting"}]
  /\ changed \in [Threads -> SUBSET Rooms]
  /\ merged \in [Threads -> RoomMaps]
  /\ overtaken \in SUBSET Threads
  /\ request \in [Sessions -> 0 .. MaxEdits]
  /\ maps \in [Nodes -> [Nodes -> RoomMaps]]
  /\ lists \in [Nodes -> SUBSET Rooms]
  /\ ids \in SUBSET Rooms
  /\ links \in [Nodes -> [Nodes -> Seq(Messages)]]
  /\ joined \in [Nodes -> SUBSET Nodes]
  /\ edits \in 0 .. MaxEdits
  /\ partings \in 0 .. MaxPartings

Loaded(m) == [r \in Rooms |-> IF LoadedBy[r] = m THEN FirstName ELSE NoName]

\* Every node has started, loaded its rooms and joined the others.
Init ==
  /\ life = [s \in Sessions |-> "new"]
  /\ subscribed = {}
  /\ shown = [s \in Sessions |-> NoRooms]
  /\ missed = {}
  /\ stage = [t \in Threads |-> "idle"]
  /\ changed = [t \in Threads |-> {}]
  /\ merged = [t \in Threads |-> NoRooms]
  /\ overtaken = {}
  /\ request = [s \in Sessions |-> 0]
  /\ maps = [n \in Nodes |-> [m \in Nodes |-> Loaded(m)]]
  /\ lists = [n \in Nodes |-> {r \in Rooms : LoadedBy[r] # NoNode}]
  /\ ids = {r \in Rooms : LoadedBy[r] # NoNode}
  /\ links = NoLinks
  /\ joined = AllJoined
  /\ edits = 0
  /\ partings = 0

-----------------------------------------------------------------------------
\* The merge of the maps, and who gets it.

Here(t) == IF t \in Sessions THEN NodeOf[t] ELSE t[2]

\* The part of the map that the thread changes: its node's own, or the
\* sender's.
PartOf(t) == IF t \in Sessions THEN NodeOf[t] ELSE t[1]

Owners(n, r) == {m \in Nodes : maps[n][m][r] # NoName}

\* findInfo and find look at all the parts, get at the node's own.
Find(n, r) == IF Owners(n, r) = {} THEN NoName
              ELSE maps[n][CHOOSE m \in Owners(n, r) : TRUE][r]

\* Slip: the parts are not merged.
MergeParts(n) == [m \in Nodes |-> maps[n][m]]

Merge(n) == [r \in Rooms |-> Find(n, r)]

\* putAndShare: the node changes its own part and tells the other nodes.
Put(n, r, name, rest) ==
  /\ maps' = [maps EXCEPT ![n][n][r] = name]
  /\ links' = Publish(rest, n, joined[n], [type |-> "put", room |-> r, name |-> name])

\* The threads that have a list to send that is older than the one t merges.
Older(t) == {u \in Threads : Here(u) = Here(t) /\ stage[u] \in {"publish", "deliver"}}

\* A thread has a list to send; when it is for a broadcast, the lists that
\* others have are older ones.
Keep(t, list) ==
  /\ stage[t] \in {"broadcast", "welcome"}
  /\ merged' = [merged EXCEPT ![t] = list]
  /\ overtaken' = IF stage[t] = "broadcast" THEN overtaken \cup Older(t) ELSE overtaken
  /\ stage' = [stage EXCEPT ![t] = IF @ = "broadcast" THEN "publish" ELSE "deliver"]
  /\ UNCHANGED <<client, changed, request, maps, lists, ids, links, cluster, edits>>

\* Slip: only the rooms of the node are listed.
MergeOwn(t) == Keep(t, maps[Here(t)][Here(t)])

\* The first half of broadcastRooms and of deliverRooms ...
MergeRooms(t) == Keep(t, Merge(Here(t)))

\* Who is sent the list: the subscribers of the node, or the new session.
Told(t) ==
  {s \in Sessions : /\ life[s] = "open" /\ NodeOf[s] = Here(t)
                    /\ IF stage[t] = "publish" THEN s \in subscribed ELSE s = t}

\* A list that is published does not reach them, nor will they merge it.
Unreached(t) ==
  {s \in Sessions \ subscribed :
     life[s] = "open" /\ NodeOf[s] = Here(t) /\ stage[s] # "welcome"}

\* ... and the second one: the client replaces the list it shows, whatever
\* other threads have sent in between.
SendRooms(t) ==
  /\ stage[t] \in {"publish", "deliver"}
  /\ shown' = [s \in Sessions |-> IF s \in Told(t) THEN merged[t] ELSE shown[s]]
  /\ missed' =
       IF t \in overtaken THEN missed \cup Told(t)
       ELSE IF stage[t] = "publish" THEN (missed \ Told(t)) \cup Unreached(t) ELSE missed
  /\ stage' = [stage EXCEPT ![t] = "idle"]
  /\ merged' = [merged EXCEPT ![t] = NoRooms]
  /\ overtaken' = overtaken \ {t}
  /\ UNCHANGED <<life, subscribed, changed, request, maps, lists, ids, links, cluster, edits>>

-----------------------------------------------------------------------------
\* Sessions come and go.

\* sessionAdded has the list of the rooms delivered.
Connect(s) ==
  /\ life[s] = "new"
  /\ life' = [life EXCEPT ![s] = "open"]
  /\ stage' = [stage EXCEPT ![s] = "welcome"]
  /\ UNCHANGED <<subscribed, shown, missed, work, request, maps, lists, ids, links,
                 cluster, edits>>

\* The client subscribes when it has the answer to its handshake, which the
\* server sends after sessionAdded.
Subscribe(s) ==
  /\ life[s] = "open" /\ stage[s] = "idle"
  /\ s \notin subscribed
  /\ subscribed' = subscribed \cup {s}
  /\ UNCHANGED <<life, shown, missed, thread, request, maps, lists, ids, links, cluster, edits>>

Disconnect(s) ==
  /\ life[s] = "open"
  /\ life' = [life EXCEPT ![s] = "gone"]
  /\ subscribed' = subscribed \ {s}
  /\ shown' = [shown EXCEPT ![s] = NoRooms]
  /\ missed' = missed \ {s}
  /\ UNCHANGED <<thread, request, maps, lists, ids, links, cluster, edits>>

-----------------------------------------------------------------------------
\* RoomCreateService: an id is asked for, and used when it arrives.

CreateRoom(s, r) ==
  /\ life[s] = "open" /\ stage[s] = "idle" /\ s \in subscribed
  /\ r \notin ids
  /\ ids' = ids \cup {r}
  /\ changed' = [changed EXCEPT ![s] = {r}]
  /\ stage' = [stage EXCEPT ![s] = "put"]
  /\ UNCHANGED <<client, merged, overtaken, request, maps, lists, links, cluster, edits>>

\* Slip: the room is put into the map of this node alone.
PutUnshared(s) ==
  /\ stage[s] = "put"
  /\ \E r \in changed[s] : maps' = [maps EXCEPT ![NodeOf[s]][NodeOf[s]][r] = FirstName]
  /\ stage' = [stage EXCEPT ![s] = "changed"]
  /\ UNCHANGED <<client, work, request, lists, ids, links, cluster, edits>>

PutRoom(s) ==
  /\ stage[s] = "put"
  /\ \E r \in changed[s] : Put(NodeOf[s], r, FirstName, links)
  /\ stage' = [stage EXCEPT ![s] = "changed"]
  /\ UNCHANGED <<client, work, request, lists, ids, cluster, edits>>

\* The generator fails, or cannot be reached; the client is told.
CreateFailed(s) ==
  /\ stage[s] = "put"
  /\ stage' = [stage EXCEPT ![s] = "idle"]
  /\ changed' = [changed EXCEPT ![s] = {}]
  /\ UNCHANGED <<client, merged, overtaken, request, maps, lists, ids, links, cluster, edits>>

\* Slip: rooms that are known already are not broadcast.
RoomsKnown(t) ==
  /\ stage[t] = "changed"
  /\ LET there == {r \in changed[t] : maps[Here(t)][PartOf(t)][r] # NoName}
     IN /\ lists' = [lists EXCEPT ![Here(t)] = (@ \ changed[t]) \cup there]
        /\ stage' = [stage EXCEPT ![t] =
             IF there = changed[t] /\ there \subseteq lists[Here(t)] THEN "idle" ELSE "broadcast"]
  /\ changed' = [changed EXCEPT ![t] = {}]
  /\ UNCHANGED <<client, merged, overtaken, request, maps, ids, links, cluster, edits>>

\* Slip: nothing is done about rooms that are gone.
RoomsAdded(t) ==
  /\ stage[t] = "changed"
  /\ lists' = [lists EXCEPT ![Here(t)] =
       @ \cup {r \in changed[t] : maps[Here(t)][PartOf(t)][r] # NoName}]
  /\ changed' = [changed EXCEPT ![t] = {}]
  /\ stage' = [stage EXCEPT ![t] = "broadcast"]
  /\ UNCHANGED <<client, merged, overtaken, request, maps, ids, links, cluster, edits>>

\* onPut and onRemoved give each room a members list or destroy it; then the
\* rooms are broadcast, by the listener when another node owns them, else by
\* the service that created the room.  One broadcast stands for those of the
\* rooms that change together, which all send the same list.
RoomsChanged(t) ==
  /\ stage[t] = "changed"
  /\ LET there == {r \in changed[t] : maps[Here(t)][PartOf(t)][r] # NoName}
     IN lists' = [lists EXCEPT ![Here(t)] = (@ \ changed[t]) \cup there]
  /\ changed' = [changed EXCEPT ![t] = {}]
  /\ stage' = [stage EXCEPT ![t] = "broadcast"]
  /\ UNCHANGED <<client, merged, overtaken, request, maps, ids, links, cluster, edits>>

-----------------------------------------------------------------------------
\* RoomEditService: a room is renamed by the node that owns it.

\* Slip: the node of the client renames the room itself.
EditHere(s, r, name) ==
  /\ life[s] = "open" /\ stage[s] = "idle"
  /\ shown[s][r] # NoName
  /\ edits < MaxEdits
  /\ edits' = edits + 1
  /\ Put(NodeOf[s], r, name, links)
  /\ stage' = [stage EXCEPT ![s] = "broadcast"]
  /\ UNCHANGED <<client, work, request, lists, ids, cluster>>

\* The owner renames the room if the user is known there and a member of the
\* room, which others decide.  The client is answered and the rooms are
\* broadcast on its node only.
EditOwn(s, r, name) ==
  /\ r \in Rooms /\ maps[NodeOf[s]][NodeOf[s]][r] # NoName
  /\ \/ /\ Put(NodeOf[s], r, name, links)
        /\ stage' = [stage EXCEPT ![s] = "broadcast"]
     \/ UNCHANGED <<maps, links, stage>>
  /\ UNCHANGED request

\* The edit is forwarded and the session waits; it is lost when the owner is
\* out of reach.
ForwardEdit(s, r, name) ==
  \E m \in Owners(NodeOf[s], r) \ {NodeOf[s]} :
    /\ links' = Publish(links, NodeOf[s], joined[NodeOf[s]] \cap {m},
                        [type |-> "edit", from |-> s, id |-> edits + 1,
                         room |-> r, name |-> name])
    /\ stage' = [stage EXCEPT ![s] = "waiting"]
    /\ request' = [request EXCEPT ![s] = edits + 1]
    /\ UNCHANGED maps

\* A client asks to rename a room it shows.  When nobody owns it any more
\* the request fails.
EditRoom(s, r, name) ==
  /\ life[s] = "open" /\ stage[s] = "idle"
  /\ shown[s][r] # NoName
  /\ edits < MaxEdits
  /\ edits' = edits + 1
  /\ \/ EditOwn(s, r, name)
     \/ ForwardEdit(s, r, name)
     \/ Owners(NodeOf[s], r) = {} /\ UNCHANGED <<maps, links, stage, request>>
  /\ UNCHANGED <<client, work, lists, ids, cluster>>

\* No answer has come in time.
Timeout(s) ==
  /\ stage[s] = "waiting"
  /\ stage' = [stage EXCEPT ![s] = "idle"]
  /\ request' = [request EXCEPT ![s] = 0]
  /\ UNCHANGED <<client, work, maps, lists, ids, links, cluster, edits>>

-----------------------------------------------------------------------------
\* What n hears of m; the thread of <<m, n>> must be done with what it had.

Hears(m, n, types) ==
  /\ stage[<<m, n>>] = "idle"
  /\ links[m][n] # <<>>
  /\ Head(links[m][n]).type \in types

\* What a message makes of the part S of its sender.
Applied(msg, S) ==
  IF msg.type = "put" THEN [S EXCEPT ![msg.room] = msg.name] ELSE msg.rooms

\* The listeners are told of every put, and of what an object brings or takes.
Changes(msg, S) ==
  IF msg.type = "put" THEN {msg.room} ELSE {r \in Rooms : S[r] # msg.rooms[r]}

ReceiveRooms(m, n) ==
  /\ Hears(m, n, {"put", "object"})
  /\ LET msg == Head(links[m][n])
         rooms == Changes(msg, maps[n][m])
     IN /\ maps' = [maps EXCEPT ![n][m] = Applied(msg, @)]
        /\ changed' = [changed EXCEPT ![<<m, n>>] = rooms]
        /\ stage' = [stage EXCEPT ![<<m, n>>] = IF rooms = {} THEN "idle" ELSE "changed"]
  /\ links' = Consume(links, m, n)
  /\ UNCHANGED <<client, merged, overtaken, request, lists, ids, cluster, edits>>

\* onForward at the node that the client believes the owner: an unknown user
\* or room is ignored, a user that is not a member is refused.
ReceiveEdit(m, n) ==
  /\ Hears(m, n, {"edit"})
  /\ LET msg == Head(links[m][n])
         rest == Consume(links, m, n)
         Answer(type) == [type |-> type, from |-> msg.from, id |-> msg.id]
         known == maps[n][n][msg.room] # NoName
     IN \/ /\ known
           /\ maps' = [maps EXCEPT ![n][n][msg.room] = msg.name]
           /\ links' = Publish(Publish(rest, n, joined[n],
                                 [type |-> "put", room |-> msg.room, name |-> msg.name]),
                               n, joined[n] \cap {m}, Answer("edited"))
        \/ /\ known
           /\ links' = Publish(rest, n, joined[n] \cap {m}, Answer("refused"))
           /\ UNCHANGED maps
        \/ /\ links' = rest
           /\ UNCHANGED maps
  /\ UNCHANGED <<client, thread, request, lists, ids, cluster, edits>>

\* onForwardSucceeded and onForwardFailed; an answer that nobody waits for
\* any more is dropped.
ReceiveAnswer(m, n) ==
  /\ Hears(m, n, {"edited", "refused"})
  /\ LET msg == Head(links[m][n])
     IN IF request[msg.from] = msg.id
        THEN /\ stage' = [stage EXCEPT
                  ![msg.from] = "idle",
                  ![<<m, n>>] = IF msg.type = "edited" THEN "broadcast" ELSE @]
             /\ request' = [request EXCEPT ![msg.from] = 0]
        ELSE UNCHANGED <<stage, request>>
  /\ links' = Consume(links, m, n)
  /\ UNCHANGED <<client, work, maps, lists, ids, cluster, edits>>

\* What is under way is lost, and each node removes the other one's rooms.
NodesPart(m, n) ==
  /\ n \in joined[m]
  /\ partings < MaxPartings
  /\ links' = Sever(links, m, n, [type |-> "object", rooms |-> NoRooms])
  /\ joined' = Part(joined, m, n)
  /\ partings' = partings + 1
  /\ UNCHANGED <<client, thread, request, maps, lists, ids, edits>>

NodesJoin(m, n) ==
  /\ m # n /\ n \notin joined[m]
  /\ links' = Exchange(links, m, n, [type |-> "object", rooms |-> maps[m][m]],
                       [type |-> "object", rooms |-> maps[n][n]])
  /\ joined' = Join(joined, m, n)
  /\ UNCHANGED <<client, thread, request, maps, lists, ids, edits, partings>>

-----------------------------------------------------------------------------
\* What a thread does once it has something to do.
Step(t) == RoomsChanged(t) \/ MergeRooms(t) \/ SendRooms(t)

Receive(m, n) == ReceiveRooms(m, n) \/ ReceiveEdit(m, n) \/ ReceiveAnswer(m, n)

Next ==
  \/ \E s \in Sessions : Connect(s)
  \/ \E s \in Sessions : Subscribe(s)
  \/ \E s \in Sessions : Disconnect(s)
  \/ \E s \in Sessions, r \in Rooms : CreateRoom(s, r)
  \/ \E s \in Sessions : PutRoom(s)
  \/ \E s \in Sessions : CreateFailed(s)
  \/ \E s \in Sessions, r \in Rooms, name \in Names : EditRoom(s, r, name)
  \/ \E s \in Sessions : Timeout(s)
  \/ \E t \in Threads : Step(t)
  \/ \E m, n \in Nodes : Receive(m, n)
  \/ \E m, n \in Nodes : NodesPart(m, n)
  \/ \E m, n \in Nodes : NodesJoin(m, n)

Spec == Init /\ [][Next]_vars

-----------------------------------------------------------------------------
\* Properties.

\* No node ever sees a room in the parts of two nodes, though edits are
\* executed away from the client and owners come and go: only then is the
\* union of the maps a list of rooms, and the owner of a room defined
\* (findOortURLFor).
OneOwner ==
  \A n \in Nodes, r \in Rooms : \A m, k \in Owners(n, r) : m = k

\* No thread is at work, nothing is under way and whoever connected has
\* subscribed.
AtRest ==
  /\ \A t \in Threads : stage[t] \in {"idle", "waiting"}
  /\ \A m, n \in Nodes : links[m][n] = <<>>
  /\ \A s \in Sessions : life[s] = "open" => s \in subscribed

\* At rest, nodes that are joined agree on the rooms and their names, and a
\* node that has parted leaves no room behind.
NodesAgree ==
  AtRest => \A m, n \in Nodes : m # n =>
    maps[n][m] = IF n \in joined[m] THEN maps[m][m] ELSE NoRooms

\* At rest a node has a members list for exactly the rooms it knows, so a
\* room that is shown can be joined ("it calls the RoomMembersService to
\* create/destroy a member list for that room", README.adoc).
ListForEveryRoom ==
  AtRest => \A n \in Nodes, r \in Rooms : r \in lists[n] <=> Find(n, r) # NoName

\* At rest every client shows exactly the rooms that its node knows
\* ("broadcast the new room list to all clients in all nodes", RoomsService).
\* Two clients may differ, until the next list is published: who had its
\* first list and not yet a subscription when the last one was broadcast, and
\* who was sent an older list after it, by a thread that had merged it before
\* (nothing keeps broadcastRooms from overtaking itself).
RoomsShown ==
  AtRest => \A s \in Sessions \ missed, r \in Rooms : life[s] = "open" =>
    (shown[s][r] # NoName <=> Find(NodeOf[s], r) # NoName)

\* At rest clients show the names of the rooms as well ("and the change
\* broadcast to all nodes", RoomEditService).
NamesShown ==
  AtRest => \A s \in Sessions \ missed : life[s] = "open" => shown[s] = Merge(NodeOf[s])

\* The same for the rooms of other nodes: wherever the edit came from, the
\* nodes that do not own the room broadcast it when they hear of it.
RemoteNamesShown ==
  AtRest => \A s \in Sessions \ missed, r \in Rooms :
    life[s] = "open" /\ maps[NodeOf[s]][NodeOf[s]][r] = NoName
      => shown[s][r] = Find(NodeOf[s], r)
=============================================================================
