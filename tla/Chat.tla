-------------------------------- MODULE Chat --------------------------------
(***************************************************************************)
(* ChatService with ChatHistoryArchiveService and                          *)
(* ChatHistoryRequestService, and what the clients show.  A chat is        *)
(* published to the clients of all nodes, and on its own way archived on   *)
(* the node that owns the room; whoever joins a room asks that node for    *)
(* the latest chats, which replace what the client shows.  Live chats and  *)
(* the history overtake each other.                                        *)
(*                                                                         *)
(* The archive of a room is the log that ChatHistory implements.  Clients  *)
(* are logged in; a client is in one room at a time and sends its next     *)
(* request when the last one was handled.                                  *)
(***************************************************************************)
EXTENDS OortLinks, FiniteSets

CONSTANTS
  Sessions,
  Rooms,
  NodeOf,      \* the node a session is connected to
  OwnerOf,     \* the node that owns a room
  MaxEntries,  \* how many chats a history has
  NoRoom,
  MaxChats,    \* bound: how many chats are sent
  MaxJoins,    \* bound: how often clients join a room
  MaxPartings  \* bound: how often two nodes lose each other

ASSUME ChatAssumption ==
  /\ NodeOf \in [Sessions -> Nodes]
  /\ OwnerOf \in [Rooms -> Nodes]
  /\ NoRoom \notin Rooms
  /\ MaxEntries \in Nat \ {0}
  /\ MaxChats \in Nat /\ MaxJoins \in Nat /\ MaxPartings \in Nat

VARIABLES
  open,      \* the sessions that are connected
  room,      \* the room of a client (_room)
  subs,      \* the rooms whose chats a session is subscribed to
  shown,     \* the chats that a client shows (#chat-history)
  step,      \* what the thread of a session has to do next
  target,    \* the room that a session is joining
  sent,      \* all chats, each the n-th of its sender
  log,       \* the archive of a room, at its owner
  knows,     \* knows[n]: the nodes whose rooms n has in its map
  casts,     \* chats on their way to the clients of other nodes
  calls,     \* forwarded actions and their results
  joined,    \* which nodes reach which
  joins,     \* how often clients have joined a room
  partings,  \* how often nodes have parted
  lost,      \* (history variable) chats whose archival found no owner
  unheard,   \* (history variable) <<n, c>>: chat c did not get to node n
  overtaken  \* (history variable) what a client may miss: the chats that were
             \* sent before it asked for a history and, once it has one, those
             \* that were sent before and that the history does not have

vars == <<open, room, subs, shown, step, target, sent, log, knows, casts, calls, joined,
          joins, partings, lost, unheard, overtaken>>

display == <<shown, overtaken>>
cluster == <<knows, joined, partings>>

Chats == [from : Sessions, n : 1 .. MaxChats, room : Rooms]

\* Slip: one chat too many.
OneMore(s) == SubSeq(s, IF Len(s) > MaxEntries THEN Len(s) - MaxEntries ELSE 1, Len(s))

\* The last MaxEntries chats of a log.
Latest(s) == SubSeq(s, IF Len(s) > MaxEntries THEN Len(s) - MaxEntries + 1 ELSE 1, Len(s))

Elements(s) == {s[i] : i \in DOMAIN s}

Histories == {h \in Seq(Chats) : Len(h) <= MaxEntries}

Calls ==
  [type : {"archive"}, chat : Chats]
    \cup [type : {"ask"}, to : Sessions, room : Rooms]
    \cup [type : {"history"}, to : Sessions, chats : Histories, archived : SUBSET Chats]

TypeOK ==
  /\ open \in SUBSET Sessions
  /\ room \in [Sessions -> Rooms \cup {NoRoom}]
  /\ subs \in [Sessions -> SUBSET Rooms]
  /\ shown \in [Sessions -> Seq(Chats)]
  /\ step \in [Sessions -> {"idle", "join", "archive"}]
  /\ target \in [Sessions -> Rooms \cup {NoRoom}]
  /\ sent \in SUBSET Chats
  /\ log \in [Rooms -> Seq(Chats)]
  /\ knows \in [Nodes -> SUBSET Nodes]
  /\ casts \in [Nodes -> [Nodes -> Seq(Chats)]]
  /\ calls \in [Nodes -> [Nodes -> Seq(Calls)]]
  /\ joined \in [Nodes -> SUBSET Nodes]
  /\ joins \in 0 .. MaxJoins
  /\ partings \in 0 .. MaxPartings
  /\ lost \in SUBSET Chats
  /\ unheard \in SUBSET (Nodes \X Chats)
  /\ overtaken \in [Sessions -> SUBSET Chats]

Init ==
  /\ open = Sessions
  /\ room = [s \in Sessions |-> NoRoom]
  /\ subs = [s \in Sessions |-> {}]
  /\ shown = [s \in Sessions |-> <<>>]
  /\ step = [s \in Sessions |-> "idle"]
  /\ target = [s \in Sessions |-> NoRoom]
  /\ sent = {}
  /\ log = [r \in Rooms |-> <<>>]
  /\ knows = [n \in Nodes |-> Nodes]
  /\ casts = NoLinks
  /\ calls = NoLinks
  /\ joined = AllJoined
  /\ joins = 0
  /\ partings = 0
  /\ lost = {}
  /\ unheard = {}
  /\ overtaken = [s \in Sessions |-> {}]

-----------------------------------------------------------------------------
\* What the client does with what it is sent.

Subscribers(n, c) == {s \in open : NodeOf[s] = n /\ c.room \in subs[s]}

\* onChat appends a line.
OnChat(n, c) ==
  shown' = [s \in Sessions |-> IF s \in Subscribers(n, c) THEN Append(shown[s], c) ELSE shown[s]]

\* onChatHistory replaces everything, whichever room the chats are from.
OnChatHistory(s, chats, archived) ==
  IF s \in open
  THEN /\ shown' = [shown EXCEPT ![s] = chats]
       /\ overtaken' = [overtaken EXCEPT ![s] = sent \ archived]
  ELSE UNCHANGED display

OnRoomJoined(s, r) == room' = IF s \in open THEN [room EXCEPT ![s] = r] ELSE room

\* onRoomLeft empties the chats.
OnRoomLeft(s) == shown' = [shown EXCEPT ![s] = <<>>]

-----------------------------------------------------------------------------
\* Joining and leaving, as far as chats are concerned.

\* findRoomInfo, findOortURLFor
Finds(n, r) == OwnerOf[r] \in knows[n]

\* A client that is in no room subscribes, and its request to join follows.
\* It stays subscribed if the request fails.
Subscribe(s, r) ==
  /\ s \in open /\ step[s] = "idle" /\ room[s] = NoRoom
  /\ joins < MaxJoins
  /\ joins' = joins + 1
  /\ subs' = [subs EXCEPT ![s] = @ \cup {r}]
  /\ target' = [target EXCEPT ![s] = r]
  /\ step' = [step EXCEPT ![s] = "join"]
  /\ UNCHANGED <<open, room, display, sent, log, casts, calls, cluster, lost, unheard>>

\* Slip: the history is looked up on the node of the client.
AskHere(s, r) ==
  /\ OnChatHistory(s, IF OwnerOf[r] = NodeOf[s] THEN Latest(log[r]) ELSE <<>>, Elements(log[r]))
  /\ UNCHANGED calls

\* deliverChatHistory: the owner is asked, which may be the node itself or
\* out of reach; then the client gets no history.
Ask(s, r) ==
  \/ /\ OwnerOf[r] = NodeOf[s]
     /\ OnChatHistory(s, Latest(log[r]), Elements(log[r]))
     /\ UNCHANGED calls
  \/ /\ OwnerOf[r] # NodeOf[s]
     /\ calls' = Publish(calls, NodeOf[s], joined[NodeOf[s]] \cap {OwnerOf[r]},
                         [type |-> "ask", to |-> s, room |-> r])
     /\ overtaken' = [overtaken EXCEPT ![s] = sent]
     /\ UNCHANGED shown

\* The join succeeds, or it is refused: for the reasons that RoomMembers has,
\* or because the room is not known.
JoinRoom(s) ==
  /\ step[s] = "join"
  /\ step' = [step EXCEPT ![s] = "idle"]
  /\ target' = [target EXCEPT ![s] = NoRoom]
  /\ \/ /\ Finds(NodeOf[s], target[s])
        /\ OnRoomJoined(s, target[s])
        /\ Ask(s, target[s])
     \/ UNCHANGED <<room, display, calls>>
  /\ UNCHANGED <<open, subs, sent, log, casts, cluster, joins, lost, unheard>>

\* The client cannot chat any more and is unsubscribed.  What it shows is
\* emptied by the answer, which is given if the room is known.
LeaveRoom(s) ==
  /\ s \in open /\ step[s] = "idle" /\ room[s] # NoRoom
  /\ room' = [room EXCEPT ![s] = NoRoom]
  /\ subs' = [subs EXCEPT ![s] = @ \ {room[s]}]
  /\ IF Finds(NodeOf[s], room[s]) THEN OnRoomLeft(s) ELSE UNCHANGED shown
  /\ UNCHANGED <<open, step, target, sent, log, casts, calls, cluster, joins, lost, unheard,
                 overtaken>>

\* The session is gone, whatever its thread is doing.
Disconnect(s) ==
  /\ s \in open
  /\ open' = open \ {s}
  /\ room' = [room EXCEPT ![s] = NoRoom]
  /\ subs' = [subs EXCEPT ![s] = {}]
  /\ shown' = [shown EXCEPT ![s] = <<>>]
  /\ overtaken' = [overtaken EXCEPT ![s] = {}]
  /\ UNCHANGED <<step, target, sent, log, casts, calls, cluster, joins, lost, unheard>>

-----------------------------------------------------------------------------
\* ChatService: a chat is published, then archived.

Sent(s) == {c \in sent : c.from = s}

NextChat(s) == [from |-> s, n |-> Cardinality(Sent(s)) + 1, room |-> room[s]]

SendChat(s) ==
  /\ s \in open /\ step[s] = "idle" /\ room[s] # NoRoom
  /\ Cardinality(sent) < MaxChats
  /\ sent' = sent \cup {NextChat(s)}
  /\ OnChat(NodeOf[s], NextChat(s))
  /\ casts' = Publish(casts, NodeOf[s], joined[NodeOf[s]], NextChat(s))
  /\ unheard' = unheard \cup ((Nodes \ (joined[NodeOf[s]] \cup {NodeOf[s]})) \X {NextChat(s)})
  /\ step' = [step EXCEPT ![s] = "archive"]
  /\ UNCHANGED <<open, room, subs, target, log, calls, cluster, joins, lost, overtaken>>

\* The chat that the thread of s has published.
Published(s) == CHOOSE c \in Sent(s) : \A d \in Sent(s) : d.n <= c.n

\* Slip: the chat is archived by whichever node it was sent to.
ArchiveHere(s) ==
  /\ step[s] = "archive"
  /\ step' = [step EXCEPT ![s] = "idle"]
  /\ LET c == Published(s)
     IN log' = IF OwnerOf[c.room] = NodeOf[s] THEN [log EXCEPT ![c.room] = Append(@, c)] ELSE log
  /\ UNCHANGED <<open, room, subs, display, target, sent, casts, calls, cluster, joins, lost,
                 unheard>>

\* archive: without an owner, or when it is out of reach, the chat is not
\* archived and nobody is told.
ArchiveChat(s) ==
  /\ step[s] = "archive"
  /\ step' = [step EXCEPT ![s] = "idle"]
  /\ LET c == Published(s)
         n == NodeOf[s]
         owner == OwnerOf[c.room]
     IN \/ /\ owner = n
           /\ log' = [log EXCEPT ![c.room] = Append(@, c)]
           /\ UNCHANGED <<calls, lost>>
        \/ /\ owner # n /\ Finds(n, c.room) /\ owner \in joined[n]
           /\ calls' = Publish(calls, n, {owner}, [type |-> "archive", chat |-> c])
           /\ UNCHANGED <<log, lost>>
        \/ /\ owner # n /\ ~ (Finds(n, c.room) /\ owner \in joined[n])
           /\ lost' = lost \cup {c}
           /\ UNCHANGED <<log, calls>>
  /\ UNCHANGED <<open, room, subs, display, target, sent, casts, cluster, joins, unheard>>

-----------------------------------------------------------------------------
\* What n gets from m.

\* Slip: the owner of the room archives what it hears as well.
HearAndArchive(m, n) ==
  /\ casts[m][n] # <<>>
  /\ LET c == Head(casts[m][n])
     IN /\ OnChat(n, c)
        /\ log' = IF OwnerOf[c.room] = n THEN [log EXCEPT ![c.room] = Append(@, c)] ELSE log
  /\ casts' = Consume(casts, m, n)
  /\ UNCHANGED <<open, room, subs, step, target, sent, calls, cluster, joins, lost, unheard,
                 overtaken>>

\* The channels /chat/* are observed.
ReceiveCast(m, n) ==
  /\ casts[m][n] # <<>>
  /\ OnChat(n, Head(casts[m][n]))
  /\ casts' = Consume(casts, m, n)
  /\ UNCHANGED <<open, room, subs, step, target, sent, log, calls, cluster, joins, lost, unheard,
                 overtaken>>

Hears(m, n, type) == calls[m][n] # <<>> /\ Head(calls[m][n]).type = type

\* ChatHistoryArchiveService.onForward
ReceiveArchive(m, n) ==
  /\ Hears(m, n, "archive")
  /\ LET c == Head(calls[m][n]).chat IN log' = [log EXCEPT ![c.room] = Append(@, c)]
  /\ calls' = Consume(calls, m, n)
  /\ UNCHANGED <<open, room, subs, display, step, target, sent, casts, cluster, joins, lost,
                 unheard>>

\* ChatHistoryRequestService.onForward
ReceiveAsk(m, n) ==
  /\ Hears(m, n, "ask")
  /\ LET msg == Head(calls[m][n])
     IN calls' = Publish(Consume(calls, m, n), n, joined[n] \cap {m},
                         [type |-> "history", to |-> msg.to, chats |-> Latest(log[msg.room]),
                          archived |-> Elements(log[msg.room])])
  /\ UNCHANGED <<open, room, subs, display, step, target, sent, log, casts, cluster, joins, lost,
                 unheard>>

\* onForwardSucceeded: a session that has joined a room has a user, for it
\* was given one when it shook hands and keeps it.
ReceiveHistory(m, n) ==
  /\ Hears(m, n, "history")
  /\ LET msg == Head(calls[m][n]) IN OnChatHistory(msg.to, msg.chats, msg.archived)
  /\ calls' = Consume(calls, m, n)
  /\ UNCHANGED <<open, room, subs, step, target, sent, log, casts, cluster, joins, lost, unheard>>

\* The request has timed out before its answer comes.  onForwardFailed did
\* nothing, and the answer is for a request that is not known any more.
LateHistory(m, n) ==
  /\ Hears(m, n, "history")
  /\ calls' = Consume(calls, m, n)
  /\ UNCHANGED <<open, room, subs, display, step, target, sent, log, casts, cluster, joins, lost,
                 unheard>>

Dropped(links, m, n) == [links EXCEPT ![m][n] = <<>>, ![n][m] = <<>>]

UnderWay(links, m, n) == Elements(links[m][n])

\* What is under way is lost.  A request for a history that is lost, or its
\* answer, times out, which the client does not notice.
NodesPart(m, n) ==
  /\ n \in joined[m]
  /\ partings < MaxPartings
  /\ partings' = partings + 1
  /\ joined' = Part(joined, m, n)
  /\ casts' = Dropped(casts, m, n)
  /\ calls' = Dropped(calls, m, n)
  /\ unheard' = unheard \cup ({n} \X UnderWay(casts, m, n)) \cup ({m} \X UnderWay(casts, n, m))
  /\ LET dropped == UnderWay(calls, m, n) \cup UnderWay(calls, n, m)
     IN lost' = lost \cup {msg.chat : msg \in {x \in dropped : x.type = "archive"}}
  /\ UNCHANGED <<open, room, subs, display, step, target, sent, log, knows, joins>>

NodesJoin(m, n) ==
  /\ m # n /\ n \notin joined[m]
  /\ joined' = Join(joined, m, n)
  /\ UNCHANGED <<open, room, subs, display, step, target, sent, log, knows, casts, calls, joins,
                 partings, lost, unheard>>

\* The rooms of m arrive at n, or n takes them out of its map, some time
\* after the nodes joined or parted.
RoomsFollow(m, n) ==
  /\ m # n
  /\ m \in knows[n] <=> m \notin joined[n]
  /\ knows' = [knows EXCEPT ![n] = IF m \in joined[n] THEN @ \cup {m} ELSE @ \ {m}]
  /\ UNCHANGED <<open, room, subs, display, step, target, sent, log, casts, calls, joined, joins,
                 partings, lost, unheard>>

-----------------------------------------------------------------------------
Next ==
  \/ \E s \in Sessions, r \in Rooms : Subscribe(s, r)
  \/ \E s \in Sessions : JoinRoom(s)
  \/ \E s \in Sessions : LeaveRoom(s)
  \/ \E s \in Sessions : Disconnect(s)
  \/ \E s \in Sessions : SendChat(s)
  \/ \E s \in Sessions : ArchiveChat(s)
  \/ \E m, n \in Nodes : ReceiveCast(m, n)
  \/ \E m, n \in Nodes : ReceiveArchive(m, n)
  \/ \E m, n \in Nodes : ReceiveAsk(m, n)
  \/ \E m, n \in Nodes : ReceiveHistory(m, n)
  \/ \E m, n \in Nodes : LateHistory(m, n)
  \/ \E m, n \in Nodes : NodesPart(m, n)
  \/ \E m, n \in Nodes : NodesJoin(m, n)
  \/ \E m, n \in Nodes : RoomsFollow(m, n)

Spec == Init /\ [][Next]_vars

-----------------------------------------------------------------------------
\* Properties.

\* No thread is at work and nothing is under way.
AtRest ==
  /\ \A s \in Sessions : step[s] = "idle"
  /\ \A m, n \in Nodes : casts[m][n] = <<>> /\ calls[m][n] = <<>>

\* At rest every chat is in the archive of its room exactly once ("Every
\* chat message is archived", README.adoc), unless its owner could not be
\* reached; then it is not there at all.
ArchivedOnce ==
  AtRest => \A c \in sent :
    Cardinality({i \in DOMAIN log[c.room] : log[c.room][i] = c}) = IF c \in lost THEN 0 ELSE 1

\* The chats of a sender are archived in the order in which they were sent,
\* though they are forwarded and the nodes part in between.
SenderOrder ==
  \A r \in Rooms : \A i, j \in DOMAIN log[r] :
    i < j /\ log[r][i].from = log[r][j].from => log[r][i].n < log[r][j].n

\* At rest a client shows the latest chats of its room, whatever overtook
\* what: those of the history, and all that came after it.  Only a chat that
\* was published before the history came and archived after it was read may
\* be missing, and what did not get to the node at all.  A client whose
\* request failed, timed out or was lost has no history, but every chat that
\* was sent after it asked.
ShowsLatest ==
  AtRest => \A s \in open : room[s] # NoRoom =>
    \A c \in Elements(Latest(log[room[s]])) \ overtaken[s] :
      <<NodeOf[s], c>> \notin unheard => c \in Elements(shown[s])
=============================================================================
