---------------------------- MODULE RoomMembers ----------------------------
(***************************************************************************)
(* RoomMembersService with the two services that drive it, RoomJoinService *)
(* and RoomLeaveService: who is in which chat room.  Every node keeps one  *)
(* OortList of members per room, created when it learns of the room and    *)
(* destroyed when the node that owns the room leaves; a user is added to   *)
(* the part of the list that belongs to the user's node.                   *)
(*                                                                         *)
(* The messages of one session are handled one after the other, those of   *)
(* different sessions and sessionRemoved by different threads.  Between    *)
(* the update of a list, the broadcast its callback publishes, the merge   *)
(* and the delivery of its result a thread may be overtaken by any other.  *)
(***************************************************************************)
EXTENDS OortLinks

CONSTANTS
  UserIds,
  Sessions,
  Rooms,              \* the rooms of the cluster, none is created on the way
  UserOf,             \* the user a session authenticates as
  NodeOf,             \* the node a session connects to
  OwnerOf,            \* the node that owns a room
  Level,              \* Membership.ordinal() of a user or a room
  NoRoom,
  MaxRequests,        \* bound: how often clients ask to join or leave a room
  MaxPartings         \* bound: how often two nodes lose each other

ASSUME RoomMembersAssumption ==
  /\ NoRoom \notin Rooms
  /\ UserOf \in [Sessions -> UserIds]
  /\ NodeOf \in [Sessions -> Nodes]
  /\ OwnerOf \in [Rooms -> Nodes]
  /\ Level \in [UserIds \cup Rooms -> 0 .. 2]
  /\ MaxRequests \in Nat /\ MaxPartings \in Nat

VARIABLES
  life,      \* what the server does with a session
  step,      \* where the handler of a session's message is
  room,      \* the room that message is about
  merged,    \* the members the handler has read and not delivered yet
  todo,      \* the rooms sessionRemoved has still to leave
  leaving,   \* the room whose "leave" sessionRemoved has still to broadcast
  lists,     \* lists[n]: the rooms that node n has a members list for
  copies,    \* copies[n][m][r]: the part of r's list owned by m, seen at n
  updates,   \* the list updates under way between nodes
  casts,     \* the broadcasts under way between nodes
  joined,    \* which nodes reach which
  subs,      \* the rooms whose /members channel a client listens to
  roster,    \* what a client knows of a room from what it was sent since
  inRoom,    \* the rooms a client was told that it joined, and not left since
  requests,  \* how often clients have asked
  partings,  \* how often nodes have parted
  \* Three history variables, which no action reads.
  late,      \* <<s, r>>: s added its user to r when the removal of s had
             \* passed r, and nothing took the user out of r since
  ousted,    \* <<s, r>>: since s was added to r another session of the user
             \* took the user out, or the list was destroyed
  mistold    \* <<n, r, u>>: the last thing the clients of n were told of u
             \* in r is that u left, while n had u among its members

vars == <<life, step, room, merged, todo, leaving, lists, copies, updates, casts,
          joined, subs, roster, inRoom, requests, partings, late, ousted, mistold>>

nodes == <<lists, copies, updates, joined, partings>>
server == <<nodes, requests>>
client == <<subs, roster, inRoom>>
handler == <<step, room, merged>>
removal == <<life, todo, leaving>>
history == <<late, ousted, mistold>>

Updates ==
  [type : {"add", "remove"}, room : Rooms, user : UserIds]
    \cup [type : {"object"}, rooms : SUBSET Rooms, parts : [Rooms -> SUBSET UserIds],
           pull : BOOLEAN]
    \cup [type : {"found", "left"}]

Casts == [action : {"join", "leave"}, room : Rooms, user : UserIds]

TypeOK ==
  /\ life \in [Sessions -> {"new", "open", "closing", "gone"}]
  /\ step \in [Sessions -> {"none", "add", "joined", "merge", "deliver", "remove", "left"}]
  /\ room \in [Sessions -> Rooms \cup {NoRoom}]
  /\ merged \in [Sessions -> SUBSET UserIds]
  /\ todo \in [Sessions -> SUBSET Rooms]
  /\ leaving \in [Sessions -> Rooms \cup {NoRoom}]
  /\ lists \in [Nodes -> SUBSET Rooms]
  /\ copies \in [Nodes -> [Nodes -> [Rooms -> SUBSET UserIds]]]
  /\ updates \in [Nodes -> [Nodes -> Seq(Updates)]]
  /\ casts \in [Nodes -> [Nodes -> Seq(Casts)]]
  /\ joined \in [Nodes -> SUBSET Nodes]
  /\ subs \in [Sessions -> SUBSET Rooms]
  /\ roster \in [Sessions -> [Rooms -> SUBSET UserIds]]
  /\ inRoom \in [Sessions -> SUBSET Rooms]
  /\ requests \in 0 .. MaxRequests
  /\ partings \in 0 .. MaxPartings
  /\ late \in SUBSET (Sessions \X Rooms)
  /\ ousted \in SUBSET (Sessions \X Rooms)
  /\ mistold \in SUBSET (Nodes \X Rooms \X UserIds)

NoMembers == [r \in Rooms |-> {}]

Init ==
  /\ life = [s \in Sessions |-> "new"]
  /\ step = [s \in Sessions |-> "none"]
  /\ room = [s \in Sessions |-> NoRoom]
  /\ merged = [s \in Sessions |-> {}]
  /\ todo = [s \in Sessions |-> {}]
  /\ leaving = [s \in Sessions |-> NoRoom]
  /\ lists = [n \in Nodes |-> Rooms]
  /\ copies = [n \in Nodes |-> [m \in Nodes |-> NoMembers]]
  /\ updates = NoLinks
  /\ casts = NoLinks
  /\ joined = AllJoined
  /\ subs = [s \in Sessions |-> {}]
  /\ roster = [s \in Sessions |-> NoMembers]
  /\ inRoom = [s \in Sessions |-> {}]
  /\ requests = 0
  /\ partings = 0
  /\ late = {} /\ ousted = {} /\ mistold = {}

-----------------------------------------------------------------------------
\* What the services share.

\* Membership.implies.
Implies(level, other) == level >= other

\* Slip: the parts are not merged.
Unmerged(n, r) == {copies[n][m][r] : m \in Nodes}

\* The members of a room that node n sees: the union of all the parts.
Members(n, r) == UNION {copies[n][m][r] : m \in Nodes}

Own(n, r) == copies[n][n][r]

\* The user of s is added to or removed from the part of its node, which
\* shares the update.  A list that is gone takes no update.
Update(s, type, r) ==
  LET n == NodeOf[s]
      u == UserOf[s]
  IN IF r \in lists[n]
     THEN /\ copies' = [copies EXCEPT ![n][n][r] = IF type = "add" THEN @ \cup {u} ELSE @ \ {u}]
          /\ updates' = Publish(updates, n, joined[n], [type |-> type, room |-> r, user |-> u])
     ELSE UNCHANGED <<copies, updates>>

\* The sessions that share the user of s on its node, s among them.
SameUser(s) == {t \in Sessions : NodeOf[t] = NodeOf[s] /\ UserOf[t] = UserOf[s]}

\* sessionRemoved has not yet taken the user of s out of room r.
RemovalAhead(s, r) == life[s] = "open" \/ (life[s] = "closing" /\ r \in todo[s])

\* The user of s is out of room r, for all the sessions of the user.
TookOut(s, r) ==
  /\ late' = late \ (SameUser(s) \X {r})
  /\ ousted' = ousted \cup ((SameUser(s) \ {s}) \X {r})

\* A change of members reaches the clients that n serves and have subscribed.
Heard(n, action, r, u) ==
  [s \in Sessions |->
    IF NodeOf[s] = n /\ r \in subs[s]
    THEN [roster[s] EXCEPT ![r] = IF action = "join" THEN @ \cup {u} ELSE @ \ {u}]
    ELSE roster[s]]

Tell(n, action, r, u) ==
  /\ roster' = Heard(n, action, r, u)
  /\ mistold' = IF action = "leave" /\ u \in Own(n, r)
                THEN mistold \cup {<<n, r, u>>} ELSE mistold \ {<<n, r, u>>}

\* broadcastMembers: the clients of this node hear of it at once, those of
\* the other nodes when the broadcast gets there.
Broadcast(s, action, r) ==
  LET n == NodeOf[s]
  IN casts' = Publish(casts, n, joined[n], [action |-> action, room |-> r, user |-> UserOf[s]])

-----------------------------------------------------------------------------
\* A session opens; a client joins a room.

Connect(s) ==
  /\ life[s] = "new"
  /\ life' = [life EXCEPT ![s] = "open"]
  /\ UNCHANGED <<todo, leaving, handler, server, casts, client, history>>

\* The client subscribes to the members of the room and asks to join it; the
\* request fails when the room is unknown or the levels do not allow it.
JoinRoom(s, r) ==
  /\ life[s] = "open" /\ step[s] = "none"
  /\ requests < MaxRequests
  /\ requests' = requests + 1
  /\ subs' = [subs EXCEPT ![s] = @ \cup {r}]
  /\ \/ /\ r \in lists[NodeOf[s]]
        /\ Implies(Level[r], Level[UserOf[s]])
        /\ step' = [step EXCEPT ![s] = "add"]
        /\ room' = [room EXCEPT ![s] = r]
     \/ /\ r \notin lists[NodeOf[s]] \/ ~ Implies(Level[r], Level[UserOf[s]])
        /\ UNCHANGED <<step, room>>
  /\ UNCHANGED <<merged, removal, nodes, casts, roster, inRoom, history>>

AddMember(s) ==
  /\ step[s] = "add"
  /\ room[s] \in lists[NodeOf[s]]
  /\ Update(s, "add", room[s])
  /\ step' = [step EXCEPT ![s] = "joined"]
  /\ late' = IF RemovalAhead(s, room[s]) THEN late ELSE late \cup {<<s, room[s]>>}
  /\ ousted' = ousted \ (SameUser(s) \X {room[s]})
  /\ UNCHANGED <<room, merged, removal, lists, joined, requests, partings, casts, client,
                 mistold>>

\* The list was destroyed after the checks: the join fails.
JoinFailed(s) ==
  /\ step[s] = "add"
  /\ room[s] \notin lists[NodeOf[s]]
  /\ step' = [step EXCEPT ![s] = "none"]
  /\ room' = [room EXCEPT ![s] = NoRoom]
  /\ UNCHANGED <<merged, removal, server, casts, client, history>>

\* Slip: the clients of this node are forgotten.
TellOtherNodes(s) ==
  /\ step[s] = "joined"
  /\ Broadcast(s, "join", room[s])
  /\ inRoom' = [inRoom EXCEPT ![s] = IF life[s] = "open" THEN @ \cup {room[s]} ELSE @]
  /\ step' = [step EXCEPT ![s] = "merge"]
  /\ UNCHANGED <<room, merged, removal, server, subs, roster, history>>

\* The callback of the update: broadcast, then the answer to the client.
BroadcastJoin(s) ==
  /\ step[s] = "joined"
  /\ Broadcast(s, "join", room[s])
  /\ Tell(NodeOf[s], "join", room[s], UserOf[s])
  /\ inRoom' = [inRoom EXCEPT ![s] = IF life[s] = "open" THEN @ \cup {room[s]} ELSE @]
  /\ step' = [step EXCEPT ![s] = "merge"]
  /\ UNCHANGED <<room, merged, removal, server, subs, late, ousted>>

\* deliverMembers, in two steps: the parts are read and the result is sent.
MergeMembers(s) ==
  /\ step[s] = "merge"
  /\ \/ /\ room[s] \in lists[NodeOf[s]]
        /\ merged' = [merged EXCEPT ![s] = Members(NodeOf[s], room[s])]
        /\ step' = [step EXCEPT ![s] = "deliver"]
        /\ UNCHANGED room
     \/ /\ room[s] \notin lists[NodeOf[s]]
        /\ step' = [step EXCEPT ![s] = "none"]
        /\ room' = [room EXCEPT ![s] = NoRoom]
        /\ UNCHANGED merged
  /\ UNCHANGED <<removal, server, casts, client, history>>

DeliverMembers(s) ==
  /\ step[s] = "deliver"
  /\ roster' = [roster EXCEPT ![s][room[s]] =
                  IF room[s] \in subs[s] THEN @ \cup merged[s] ELSE @]
  /\ step' = [step EXCEPT ![s] = "none"]
  /\ room' = [room EXCEPT ![s] = NoRoom]
  /\ merged' = [merged EXCEPT ![s] = {}]
  /\ UNCHANGED <<removal, server, casts, subs, inRoom, history>>

-----------------------------------------------------------------------------
\* A client leaves a room.

\* The client no longer listens as soon as it asks, whatever comes of it: the
\* request fails when the room is unknown.  Nothing checks that the user is a
\* member of the room.
LeaveRoom(s, r) ==
  /\ life[s] = "open" /\ step[s] = "none"
  /\ requests < MaxRequests
  /\ requests' = requests + 1
  /\ subs' = [subs EXCEPT ![s] = @ \ {r}]
  /\ roster' = [roster EXCEPT ![s][r] = {}]
  /\ \/ /\ r \in lists[NodeOf[s]]
        /\ step' = [step EXCEPT ![s] = "remove"]
        /\ room' = [room EXCEPT ![s] = r]
     \/ /\ r \notin lists[NodeOf[s]]
        /\ UNCHANGED <<step, room>>
  /\ UNCHANGED <<merged, removal, nodes, casts, inRoom, history>>

RemoveMember(s) ==
  /\ step[s] = "remove"
  /\ room[s] \in lists[NodeOf[s]]
  /\ Update(s, "remove", room[s])
  /\ step' = [step EXCEPT ![s] = "left"]
  /\ TookOut(s, room[s])
  /\ UNCHANGED <<room, merged, removal, lists, joined, requests, partings, casts, client,
                 mistold>>

\* The list was destroyed meanwhile: the client is answered all the same.
NothingToLeave(s) ==
  /\ step[s] = "remove"
  /\ room[s] \notin lists[NodeOf[s]]
  /\ inRoom' = [inRoom EXCEPT ![s] = @ \ {room[s]}]
  /\ step' = [step EXCEPT ![s] = "none"]
  /\ room' = [room EXCEPT ![s] = NoRoom]
  /\ UNCHANGED <<merged, removal, server, casts, subs, roster, history>>

\* Slip: the client gets no answer.
LeaveUnanswered(s) ==
  /\ step[s] = "left"
  /\ Broadcast(s, "leave", room[s])
  /\ Tell(NodeOf[s], "leave", room[s], UserOf[s])
  /\ step' = [step EXCEPT ![s] = "none"]
  /\ room' = [room EXCEPT ![s] = NoRoom]
  /\ UNCHANGED <<merged, removal, server, subs, inRoom, late, ousted>>

\* The callback broadcasts, then the client is answered.
BroadcastLeave(s) ==
  /\ step[s] = "left"
  /\ Broadcast(s, "leave", room[s])
  /\ Tell(NodeOf[s], "leave", room[s], UserOf[s])
  /\ inRoom' = [inRoom EXCEPT ![s] = @ \ {room[s]}]
  /\ step' = [step EXCEPT ![s] = "none"]
  /\ room' = [room EXCEPT ![s] = NoRoom]
  /\ UNCHANGED <<merged, removal, server, subs, late, ousted>>

-----------------------------------------------------------------------------
\* sessionRemoved: the user leaves every room there is a list for.

\* Slip: only the rooms of this node are looked at.
CloseOwnRooms(s) ==
  /\ life[s] = "open"
  /\ life' = [life EXCEPT ![s] = "closing"]
  /\ todo' = [todo EXCEPT ![s] = {r \in lists[NodeOf[s]] : OwnerOf[r] = NodeOf[s]}]
  /\ subs' = [subs EXCEPT ![s] = {}]
  /\ roster' = [roster EXCEPT ![s] = NoMembers]
  /\ inRoom' = [inRoom EXCEPT ![s] = {}]
  /\ UNCHANGED <<leaving, handler, server, casts, history>>

Close(s) ==
  /\ life[s] = "open"
  /\ life' = [life EXCEPT ![s] = "closing"]
  /\ todo' = [todo EXCEPT ![s] = lists[NodeOf[s]]]
  /\ subs' = [subs EXCEPT ![s] = {}]
  /\ roster' = [roster EXCEPT ![s] = NoMembers]
  /\ inRoom' = [inRoom EXCEPT ![s] = {}]
  /\ UNCHANGED <<leaving, handler, server, casts, history>>

\* Slip: the removal waits until all the nodes can be reached.
RemoveJoined(s, r) ==
  /\ life[s] = "closing" /\ leaving[s] = NoRoom
  /\ r \in todo[s]
  /\ joined[NodeOf[s]] = Nodes \ {NodeOf[s]}
  /\ Update(s, "remove", r)
  /\ todo' = [todo EXCEPT ![s] = @ \ {r}]
  /\ leaving' = [leaving EXCEPT ![s] = r]
  /\ TookOut(s, r)
  /\ UNCHANGED <<life, handler, lists, joined, requests, partings, casts, client, mistold>>

RemoveFrom(s, r) ==
  /\ life[s] = "closing" /\ leaving[s] = NoRoom
  /\ r \in todo[s]
  /\ Update(s, "remove", r)
  /\ todo' = [todo EXCEPT ![s] = @ \ {r}]
  /\ leaving' = [leaving EXCEPT ![s] = r]
  /\ TookOut(s, r)
  /\ UNCHANGED <<life, handler, lists, joined, requests, partings, casts, client, mistold>>

BroadcastRemoval(s) ==
  /\ leaving[s] # NoRoom
  /\ Broadcast(s, "leave", leaving[s])
  /\ Tell(NodeOf[s], "leave", leaving[s], UserOf[s])
  /\ leaving' = [leaving EXCEPT ![s] = NoRoom]
  /\ UNCHANGED <<life, todo, handler, server, subs, inRoom, late, ousted>>

Closed(s) ==
  /\ life[s] = "closing" /\ leaving[s] = NoRoom /\ todo[s] = {}
  /\ life' = [life EXCEPT ![s] = "gone"]
  /\ UNCHANGED <<todo, leaving, handler, server, casts, client, history>>

-----------------------------------------------------------------------------
\* What comes from other nodes.

\* n learns from m of the rooms m owns: "found" when the nodes join, "left"
\* when they part.  roomAdded leaves a list that is there alone.
Created(msg, m, n) ==
  {r \in Rooms \ lists[n] : msg.type = "found" /\ OwnerOf[r] = m}

\* Slip: the lists of a node that left are kept.
NoneDestroyed(msg, m, n) == {}

Destroyed(msg, m, n) ==
  {r \in lists[n] : msg.type = "left" /\ OwnerOf[r] = m}

\* What an update says of the sender's part S of the list of room r.
Applied(msg, r, S) ==
  CASE msg.type = "add" /\ msg.room = r       -> S \cup {msg.user}
    [] msg.type = "remove" /\ msg.room = r    -> S \ {msg.user}
    [] msg.type = "object" /\ r \in msg.rooms -> msg.parts[r]
    [] msg.type = "left"                       -> {}
    [] OTHER                                   -> S

\* The parts of the lists in R that node n owns.
Parts(n, R, pull) ==
  [type |-> "object", rooms |-> R,
   parts |-> [r \in Rooms |-> IF r \in R THEN Own(n, r) ELSE {}], pull |-> pull]

\* n takes the oldest update of m.  A list that is created starts empty and
\* asks the other nodes for their parts, one that is destroyed loses all
\* that it holds, and an update of a list that is not there is lost.
ReceiveUpdate(m, n) ==
  /\ updates[m][n] # <<>>
  /\ LET msg == Head(updates[m][n])
         rest == Consume(updates, m, n)
         kept == lists[n] \ Destroyed(msg, m, n)
         created == Created(msg, m, n)
         emptied == {s \in Sessions : NodeOf[s] = n} \X Destroyed(msg, m, n)
     IN /\ lists' = [lists EXCEPT ![n] = kept \cup created]
        /\ copies' = [copies EXCEPT ![n] =
             [k \in Nodes |-> [r \in Rooms |->
               IF r \notin kept THEN {}
               ELSE IF k = m THEN Applied(msg, r, @[k][r]) ELSE @[k][r]]]]
        /\ updates' =
             IF created # {}
             THEN Publish(rest, n, joined[n],
                    [type |-> "object", rooms |-> created, parts |-> NoMembers, pull |-> TRUE])
             ELSE IF msg.type = "object" /\ msg.pull
             THEN Publish(rest, n, joined[n] \cap {m}, Parts(n, msg.rooms \cap lists[n], FALSE))
             ELSE rest
        /\ late' = late \ emptied
        /\ ousted' = ousted \cup emptied
  /\ UNCHANGED <<joined, requests, partings, removal, handler, casts, client, mistold>>

ReceiveCast(m, n) ==
  /\ casts[m][n] # <<>>
  /\ LET msg == Head(casts[m][n])
     IN Tell(n, msg.action, msg.room, msg.user)
  /\ casts' = Consume(casts, m, n)
  /\ UNCHANGED <<removal, handler, server, subs, inRoom, late, ousted>>

\* What is under way is lost; the clients are told nothing.
NodesPart(m, n) ==
  /\ n \in joined[m]
  /\ partings < MaxPartings
  /\ updates' = Sever(updates, m, n, [type |-> "left"])
  /\ casts' = [casts EXCEPT ![m][n] = <<>>, ![n][m] = <<>>]
  /\ joined' = Part(joined, m, n)
  /\ partings' = partings + 1
  /\ UNCHANGED <<lists, copies, requests, removal, handler, client, history>>

NodesJoin(m, n) ==
  /\ m # n /\ n \notin joined[m]
  /\ updates' = Exchange(Exchange(updates, m, n, [type |-> "found"], [type |-> "found"]),
                         m, n, Parts(m, lists[m], FALSE), Parts(n, lists[n], FALSE))
  /\ joined' = Join(joined, m, n)
  /\ UNCHANGED <<lists, copies, requests, partings, removal, handler, casts, client, history>>

-----------------------------------------------------------------------------
\* What a thread does once it has a message to handle or a session to remove.
Step(s) ==
  \/ AddMember(s) \/ JoinFailed(s)
  \/ BroadcastJoin(s)
  \/ MergeMembers(s)
  \/ DeliverMembers(s)
  \/ RemoveMember(s) \/ NothingToLeave(s)
  \/ BroadcastLeave(s)
  \/ \E r \in Rooms : RemoveFrom(s, r)
  \/ BroadcastRemoval(s)
  \/ Closed(s)

Next ==
  \/ \E s \in Sessions : Connect(s) \/ Close(s) \/ Step(s)
  \/ \E s \in Sessions, r \in Rooms : JoinRoom(s, r) \/ LeaveRoom(s, r)
  \/ \E m, n \in Nodes : ReceiveUpdate(m, n)
  \/ \E m, n \in Nodes : ReceiveCast(m, n)
  \/ \E m, n \in Nodes : NodesPart(m, n)
  \/ \E m, n \in Nodes : NodesJoin(m, n)

Spec == Init /\ [][Next]_vars

\* Some thread runs on or some update arrives, as long as there is one;
\* clients, broadcasts and the connections between nodes do as they like.
Fairness ==
  WF_vars(\/ \E s \in Sessions : Step(s)
          \/ \E m, n \in Nodes : ReceiveUpdate(m, n))

FairSpec == Spec /\ Fairness

-----------------------------------------------------------------------------
\* Properties.

\* A member of a room is backed by a session of that user on the node that
\* owns the entry, one that is open or has its removal from the room still
\* ahead: sessionRemoved takes a user out of every room it joined ("if a
\* user disconnects without explicitly leaving the rooms it joined",
\* README.adoc).
NoGhostMember ==
  \A n \in Nodes, r \in Rooms : \A u \in Own(n, r) :
    \E s \in Sessions : NodeOf[s] = n /\ UserOf[s] = u /\ RemovalAhead(s, r)

\* The code keeps it but for one way to stay behind: a join that was being
\* handled when its session was removed adds the user after sessionRemoved
\* has passed that room, and nothing has taken the user out since.  However
\* else sessions are removed, lists destroyed and created anew, and several
\* sessions of one user come and go, no ghost remains.
GhostsJoinedLate ==
  \A n \in Nodes, r \in Rooms : \A u \in Own(n, r) :
    \E s \in Sessions : /\ NodeOf[s] = n /\ UserOf[s] = u
                        /\ RemovalAhead(s, r) \/ <<s, r>> \in late

\* A client that was told it joined a room is a member of it on its node
\* until it leaves, unless the list was destroyed since or another session of
\* the user on the node has taken the user out: a list holds users, and one
\* session that leaves or ends takes the user out for all of them.
JoinedIsMember ==
  \A s \in Sessions : \A r \in inRoom[s] :
    \/ step[s] = "left" /\ room[s] = r
    \/ <<s, r>> \in ousted
    \/ UserOf[s] \in Own(NodeOf[s], r)

\* No thread is at work and nothing is under way.
AtRest ==
  /\ \A s \in Sessions : step[s] = "none" /\ life[s] # "closing"
  /\ \A m, n \in Nodes : updates[m][n] = <<>> /\ casts[m][n] = <<>>

\* At rest a client that joined a room and listens knows of every member on
\* its node, whoever came and went while its own join was being handled: what
\* the merge did not see yet is broadcast after the client has subscribed.
\* The one exception is a user that two sessions bring in and take out at
\* once, or one whose session ends while its join is handled: the leave may be
\* told after the user has been added again.
RosterMissesNobody ==
  AtRest => \A s \in Sessions : \A r \in inRoom[s] \cap subs[s] :
    \A u \in Own(NodeOf[s], r) : u \in roster[s][r] \/ <<NodeOf[s], r, u>> \in mistold

\* When nothing is under way, nodes that are joined have a list for each
\* other's rooms and agree on each other's parts, whatever parted, joined,
\* was destroyed and created anew before.
NodesAgree ==
  (\A m, n \in Nodes : updates[m][n] = <<>>) =>
    \A m, n \in Nodes : m # n =>
      IF n \in joined[m]
      THEN \A r \in Rooms :
             /\ OwnerOf[r] = m => r \in lists[n]
             /\ r \in lists[m] \cap lists[n] => copies[n][m][r] = Own(m, r)
      ELSE \A r \in Rooms :
             /\ OwnerOf[r] = m => r \notin lists[n]
             /\ copies[n][m][r] = {}

\* Time and again no node lists a user whose sessions on that user's node are
\* all closed: every removal comes to its end and reaches the nodes, though
\* joins go on and nodes part meanwhile.  Two cases are left out.  A join that
\* was late leaves its ghost everywhere.  And while the user's node has no
\* list for the room, because it lost the node that owns it, there is nothing
\* to share: a third node keeps what it had been told before.
GoneEverywhere ==
  []<>(\A s \in Sessions, n \in Nodes, r \in Rooms :
         /\ life[s] \in {"closing", "gone"}
         /\ r \in lists[NodeOf[s]]
         => \/ UserOf[s] \notin copies[n][NodeOf[s]][r]
            \/ \E t \in SameUser(s) : life[t] = "open" \/ <<t, r>> \in late)
=============================================================================
