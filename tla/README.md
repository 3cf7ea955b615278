# A TLA+ model of the Oort chat demo

This directory holds the formal model of the CometD Oort chat demo
(`src/main/java/org/cometd/demo`, `src/main/webapp`): TLA+ modules
translated from the services and the client, TLC configurations that check them on small
instances, and proofs that TLAPS checks for all instances. Paths below are
relative to the repository; `service/` stands for
`src/main/java/org/cometd/demo/service/` and `require.js` for
`src/main/webapp/require-2.3.6.js`.

To parse, check and prove:

    tlasany Users.tla
    tlc -workers 2 -config MCUsers.cfg MCUsers
    tlapm UsersProofs.tla

`PROJECT.json` lists the components, the runs, the source lines that each
definition models, a mutation of the model that breaks each checked property, the
disagreements found between code and documentation, the hazards of the code and
the theorems.

## 1. The system

A cluster of nodes, each a web server with the same services. Browsers connect to
one node. Nodes share data by Oort objects: each node owns a part (a map, a list, a
number), changes only its own part, and keeps a copy of the parts of the others,
which it updates from their messages. A *merge* combines the parts. Channels that
are observed by Oort are broadcast to the clients of all nodes.

Who runs what: the server calls session listeners and message handlers on the
thread that has the request in hand. Messages of one session are handled one after
the other; those of different sessions, what arrives from other nodes, and the
removal of a session (a disconnect comes on a connection of its own, an expiry from
a timer) run at the same time. The services use concurrent maps and no locks, except
for `ChatHistoryInfo`.

| component | state | operations | talks to |
|---|---|---|---|
| `SecurityPolicy` | the `USER_INFO` attribute of a session | `canHandshake` | all services read the attribute |
| `UsersService` | `userToSession`, Seti, the map `userInfos` | `sessionAdded`, `sessionRemoved`, `find` | replicated map |
| `UserCountService` | the counter of the node | `/service/init`, `sessionRemoved` | replicated number; broadcasts the sum |
| `RoomMembersService` | one list of members per room | `join`, `leave`, `sessionRemoved`, `roomAdded`, `roomRemoved`, `deliverMembers`, `isMember` | replicated lists; broadcasts joins and leaves to all nodes |
| `RoomsService` | the map `roomInfos` | `sessionAdded`, `onPut`, `onRemoved`, `broadcastRooms`, lookups | replicated map; calls `RoomMembersService`; publishes the list on its own node |
| `RoomJoinService`, `RoomLeaveService` | none | one handler each | `RoomsService`, `RoomMembersService`, history |
| `RoomCreateService` | the id generator | `createRoom` | the node that is master of the ids; `RoomsService` |
| `RoomEditService` | forwarded requests that wait | handler, `onForward`, `onForwardSucceeded`, `onForwardFailed` | the node that owns the room |
| `ChatService` | none | `chat` | broadcast to all nodes; archive |
| `ChatHistoryService`, `ChatHistoryInfo` | the latest chats of each room | `archive`, `retrieve` | none |
| `ChatHistoryArchiveService`, `ChatHistoryRequestService` | none | forward a chat, or a request, to the owner of the room | `ChatHistoryService` of that node |
| `application.js` | `_room`, `_members`, the two subscriptions of a room, the page | what the user clicks, handlers of everything above, the listener of handshakes | its node |
| `require.js` | the registry of modules, what they wait for, the queue of definitions, timers | `require`, `define`, scripts that arrive or fail | the page, which it starts by calling the callback of `application.js` |
| `StartupServlet`, model records, JSON conversion, resources | none that changes | creation of the services in order | - |

What makes each of them correct:

- *Users*: a user is in the map of a node exactly while a session of the user is
  connected there; copies converge; nothing is left behind.
- *Members*: every member has a session behind it; whoever was told to have joined
  is a member; a client shows the members there are; nodes agree.
- *Rooms*: a room has one owner; nodes agree; every room has a members list; every
  client ends up showing the rooms and the names its node knows.
- *Chat history*: no chat is lost by concurrent calls, and the latest are shown.
- *Chat*: every chat is archived once, in the order of its sender; a client ends up
  showing the latest chats of its room.
- *User count*: the number of a node is that of its sessions that have announced
  themselves; the sum that is shown last is the sum.
- *Room ids*: no id is given twice (assumed).
- *Client*: the room, the members that are shown, the text field, the subscriptions and
  the memberships on the server fit together once everything is answered.
- *Loader*: a module is made by its own definition and after what it depends on, cycles
  apart; no call is forgotten: its callback runs, or an error says what it waits for.

What is hard: the interleaving of handlers with the removal of their session; the
merge of a list that is sent later; updates and broadcasts that travel
independently; nodes that part and join; requests that are forwarded and time out; a user
who clicks before the answers are there; scripts that arrive in any order, late or never.
`PROJECT.json` lists these hazards with their lines and the properties about them.

## 2. Modules

| module | models |
|---|---|
| `OortLinks` | the transport: what a node publishes and when the others receive it |
| `Users` | `UsersService`, the handshake of `SecurityPolicy` |
| `RoomMembers` | `RoomMembersService`, `RoomJoinService`, `RoomLeaveService`, `Membership.implies`, what a client shows of members |
| `Rooms` | `RoomsService`, `RoomCreateService`, `RoomEditService`, what a client shows of rooms |
| `Chat` | `ChatService`, `ChatHistoryArchiveService`, `ChatHistoryRequestService`, what a client shows of chats |
| `ChatLog` | what the storage of chats promises (abstract) |
| `ChatHistory` | `ChatHistoryService`, `ChatHistoryInfo`; implements `ChatLog` |
| `UserCount` | `UserCountService`, the count that a client shows |
| `Client` | `application.js`, against a server that answers later |
| `Loader` | `require.js`, which starts the client |
| `MC...` | the instances for TLC |
| `UsersProofs`, `RoomMembersProofs`, `RoomsProofs`, `ChatProofs`, `ChatHistoryProofs`, `UserCountProofs`, `ClientProofs`, `LoaderProofs` | theorems |

`Users`, `RoomMembers`, `Rooms`, `Chat` and `UserCount` extend `OortLinks`. Definitions
whose comment begins with *Slip* are not part of the model: each is a definition with a bug
that a programmer might make, and is used to see that a property notices it.

### OortLinks (external)

Oort is a library, so these operators state only what the services rely on: for each
ordered pair of nodes a queue of messages, received in the order in which they were
published; when two nodes part, what is under way is lost and each side handles
`left`; when they join, each sends the whole of what it owns. A user's own node
changes its part and runs the callback on the calling thread.

### Users

`pc` is where the thread that runs a listener for a session is; every access to
`userToSession`, `seti` and `userInfos` is a step, because two sessions of one user
run their listeners at once. `infos[n][m]` is the part that node `m` owns as node
`n` sees it. A session without the attribute (`NoUser`) is another Oort node. The
listener of a session is finished before its removal begins, as the server calls
both in that order.

### RoomMembers

`step` is where the handler of a session's message is: for a join `add` (the checks
have passed), `joined` (the list is updated, the callback has still to broadcast),
`merge`, `deliver`; for a leave `remove`, `left`. `life`, `todo` and `leaving` follow
`sessionRemoved`, which may begin while a handler is at work. `lists[n]` is the key
set of `roomToMembers`, `copies[n][m][r]` the part of the list of room `r` that `m`
owns, seen at `n`. A list that a node creates asks the others for their parts; one that it
destroys loses all parts, its own too, and an update of a list that is not there is
lost. Updates and broadcasts are two families of queues: the callback that
broadcasts runs within the local processing of the update, so either may get to
another node first. Rooms are the rooms of the files, and are reported to a node or
taken away from it when the owner joins or leaves. When that happens between the checks
and the update, the join fails (`JoinFailed`), and a leave is answered although nothing is
left (`NothingToLeave`).

`roster` is what a client shows of a room. It is kept per room and the client
unsubscribes when its leave is answered; the real client's single `_members` and
the moment at which it unsubscribes are in `Client`.

### Rooms

A *thread* is that of a session or that of a link between two nodes; `stage` is
where it is: a change of the map, the listeners (`changed`), the merge (`broadcast`,
`welcome`) and the sending of the result (`publish`, `deliver`). `maps[n][m]` is the
part of `roomInfos` owned by `m`, seen at `n`; a room is its id and its name, which
is all that an edit changes. `ids` are the ids given out, which stands for the id
generator; that it never gives one twice is assumed here. A client has one request
at a time; other clients make for the interleavings. Whether a user is known and a
member of the room at the owner is kept by the other modules and free here, so an
edit may be done, refused or ignored. `missed` is a history variable: the connected clients
that a list was not sent to because it was published between their first list and
their subscription. Nodes have started, loaded their rooms and
joined each other when the model begins.

### Chat

A chat is named by its sender, its number and its room. `SendChat` publishes it to the
clients of the node and to the queues `casts` of the others; `ArchiveChat` is the rest of
the same handler, and sends it to the owner by `calls`, the queues of forwarded
actions and their results, which are independent of `casts`. `log[r]` is the archive of a
room as `ChatHistory` promises it, so one step adds to it or reads it. `knows[n]` are the
nodes whose rooms `n` has in its map: it follows `joined` some time later, so a node may know a room
whose owner is gone, or not know one whose owner is back. A join may be refused, for
reasons that are in `RoomMembers`; the client stays subscribed then. History variables: `lost`
are the chats whose archival found no owner, `unheard` the chats that did not get to a node,
and `overtaken[s]` those that were sent before client `s` had its history, and that the history
does not have.

### ChatHistory and ChatLog

Each call of `archive` or `retrieve` runs on its own; an object is named by the call that
created it. `archived` is a history variable, the chats added for a room in order.
`ChatLog` has no objects: a log per room, appended by `Archive`, and `Retrieve`,
which answers the latest `MaxEntries` chats. The refinement maps the log to
`archived`; `Add` is `Archive`, and the answer is given when `retrieve` finds no
object or when the object it found is copied for conversion.

### UserCount

A thread of a session is at `change` (the counter), `sum` or `publish`; `/service/init` and
the removal of the same session may run at once. `values[n][m]` is the counter of `m` as `n`
sees it; counters and published sums share the queues between nodes, so each link is one
channel in order. The session between two nodes is removed when they part, and
`sessionRemoved` ignores it: `NodesPart` leaves the counters alone. `disturbed` is a history
variable: the nodes for which the latest change overlapped another or came from a node that
reaches others than they do, or that have lost or found a node since.

### Client

One client: the page (`room`, `members`, `handle`, `listeners`, `enabled`, `listed`,
`exits`, `title`, `form`), what it has sent and not yet been handled (`sent`), what the
server has sent (`inbox`), and what the server knows of it (`subs`, `roster`). `handle`
stands for `_membersSubscription` and `_chatSubscription`, which are always set and used
together, and `listeners[r]` counts the subscriptions that the CometD library holds, of
which it reports the first and the end of the last. Each click is one action, guarded by
what the page offers at that moment: the icons of the list of rooms (`MayJoin`, `MayLeave`),
the forms, the text field. The answer to an edit has no place in the order of answers
(`edited`), as another node may give it. `LoseSession` is a session that the server has
forgotten: the library shakes hands again and `resubscribe` runs. `HandleJoin` and the
others are the handlers of the services as the client sees them: each may refuse; the
modules above say when.

`gaps` is a history variable that names the known ways in which the page gets out of step
with the server, described with the runs; each property of `Client` names the gaps that it
needs to exclude, and holds after all others. `carried` is one, too: who was shown when the
server took the subscription to the room, or is named by the messages about it that were
under way then (`Named`). `ShowsMembers` lets these stay, and nobody else.

### Loader

A `program` is a page: what each module and each call of `require` depends on, the calls of
`define` in a script (named or not), and the calls of `require` in it. The state is that of
a context of `require.js`: `registry`, the flags of each `Module` (`enabled`, `inited`,
`defined`, `defining`, `error`), `matched` (the dependencies whose values a module has:
`depCount` and `depMatched`), `queue` and `queued` (`globalDefQueue`, `defQueue`,
`defQueueMap`), `ticks` (`nextTick`), `timer` (`checkLoadedTimeoutId`), `checking`
(`inCheckLoaded`). The browser runs one `task` at a time: a script that arrived and its
`completeLoad`, a `require` put off to the next tick, the timer. Within a task functions
call each other to any depth; `enables` and `emits` are the calls still to be made, taken in
any order, which includes the order of the code. `Check` is `Module.check` for whoever calls
it. A factory may fail (`Throw`), which ends the task since no error callback is registered:
`req.onError` throws. `factory[m]` says for which module the factory was written that `m`
was given, which is how a definition bound to the wrong script shows. The file is vendored,
and it is modelled because it is the part of the client that runs before everything else and
where the order of arrivals matters most.

`Reached(n, edges)` is what a walk along `edges` gets to: the least set that is closed under
them, so that `breakCycle`, which walks recursively, needs no recursion. Pages are restricted
by `LoaderAssumption` to what the application's page is like. A define without a name is for
the module of its script, and a script has one define for its own module at most: after a
second one without a name `completeLoad` would end its loop (line 1585 of `require.js`) and leave the rest of
the queue to the next script. A script that calls `require` has no define, and each call is
made in one place. The modules are finite in number.

## 3. Runs

All runs of the first block pass. Deadlock is not checked: sessions, requests and
partings are finite in number, and nobody has to act, so each instance stops.

| configuration | instance | what it shows |
|---|---|---|
| `MCUsers` | 2 nodes, 2 users, 3 sessions, 1 parting | `NoOrphanInfo`, `NothingLeftBehind`, `ReplicasConverge` for users with any number of sessions |
| `MCUsersKnown` | 2 nodes, 1 user, 2 sessions, 1 parting; one session per user and node | `Registered`, and under fairness `KnownEverywhere` |
| `MCRoomMembers` | 2 nodes, 1 room, 2 sessions, 2 requests, 1 parting; `QuietRemoval` | `NoGhostMember`, `NodesAgree`, and under fairness `GoneEverywhere` |
| `MCRoomMembersNode` | 1 node, 2 rooms and users of both levels; one session per user | `JoinedIsMember`, `RosterMissesNobody` |
| `MCRooms` | 2 nodes, 2 clients, a room loaded and one created, 1 edit, 1 parting | `OneOwner`, `NodesAgree`, `ListForEveryRoom`, `RoomsShown`, `RemoteNamesShown` |
| `MCChat` | 2 nodes, 2 clients, 2 rooms, 2 chats, 2 joins, 1 parting, 1 chat kept | `ArchivedOnce`, `SenderOrder`, `ShowsLatest` |
| `MCChatHistory` | 2 rooms, 5 archives, 2 requests, 2 chats kept | `KeepsLatest`, `IsChatLog` |
| `MCUserCount` | 2 nodes, 3 sessions, 2 threads or messages at once, 1 parting | `CountsUsers`, `NodesAgree`, `ShowsTotal` |
| `MCClient` | 2 rooms, this user and another, 5 clicks, 1 move, 1 lost session | `NowhereElse`, `HearsItsRoom`, `ChatsFromMembers`, `InputHasRoom`, `ShowsMembers` |
| `MCLoader` | 5 pages of 4 modules and 3 calls, 1 failing factory | `InOrder`, `OwnFactory`, `TimeoutsAreReal`, `NothingForgotten`, and under fairness `Settles` |

Runs that end in a violation. In each of them the code does something else than what
a comment or the documentation says; the trace is the way there.

| configuration | property | what happens |
|---|---|---|
| `MCRoomMembersGhost` | `NoGhostMember` | a session is removed between the checks of its join and the update: the user stays a member |
| `MCRoomsEdit` | `NamesShown` | a room is renamed from another node: the clients of its owner keep the old name |

Two more disagreements are in the models and have no run. `sessionRemoved` of `UsersService`
(line 99) removes the `UserInfo` by user id whichever session ends: a user with two sessions
on a node is gone from the map when one of them ends, while `README.adoc` (line 51) has
every node know all users; in `Users`, `Registered` fails when `OneSessionPerUser` is
`FALSE`. And `RoomJoinService` (line 81) asks whether the level of the room implies that of
the user, while its comment (line 35) has it the other way round: in `RoomMembers` a bronze
user joins a gold room (`MCRoomMembersNode` has both levels).

**Idealisations that are constants.** Some properties do not hold of the code as it
stands, and would hide everything else that can go wrong. They are checked with a
constant that excludes the one known cause:

- `OneSessionPerUser` (Users, RoomMembers): the registry and the lists hold users, not
  sessions, so the end of one session takes the entry of the other.
- `QuietRemoval`: no session is removed while its message is handled
  (`MCRoomMembersGhost` is the instance without it).
- `SerialBroadcast`: of the threads of a node one at a time merges and sends the room
  list. With `SerialBroadcast = FALSE` two rooms that are created at once violate
  `RoomsShown`: the list that was merged first is published last.

`RoomsShown` and `RemoteNamesShown` leave out the clients in `missed`: a room whose broadcast falls
between the first list of a client and its subscription is shown to it only with the next list.
`ShowsLatest` leaves out the chats in `overtaken`: live chats that come before the history are
replaced by it, and those not archived when it was read are gone from the display. In both cases
the code does nothing to close the gap, and the history variable says exactly whom or what it
may concern, which is what the properties assert.

More things that the code does were met while modelling and are not excluded by any
property: a member who leaves between `merge` and `deliver` of a members list comes back on
the client that joins, and members that are dropped with the list of a node that left are
not announced to clients; a live chat that comes after the history may be in it as well and
is shown twice; the history of a room that was left, when it comes late, replaces the chats
of the next room.

What the client does in a hurry, by the names of `gaps`:

- `ahead`: a second room is joined before the first join is answered, or after it was
  refused. `leaveRoom` does nothing without `_room`, so the first subscription and
  membership stay.
- `again`: a room is left, or another joined, while a leave is on its way: a second leave is
  sent. When its answer finds no room, `onRoomLeft` fails with an error.
- `refused`: a leave is refused by the server; the client has unsubscribed already.
- `strayed`: the answer to an edit makes its room the current one, even if it was left in
  between.
- `forgotten`, `cut`: after a new handshake the client subscribes to its room again but does
  not join it: it shows a room it is no member of, and may chat in it. Messages that were
  under way are lost.

`_members` is not emptied when rooms are changed (`ShowsMembers` bounds what is left over),
and the name of the room stays on the page after a logout.

What the loader does: after a timeout or an error of a factory `checkLoaded` leaves
`inCheckLoaded` set and does nothing any more, so a module missing later is not reported
(`checking`). A factory that fails loses the calls that were still to be made in its task,
and may leave definitions without a name in the queue, which the next script takes for its
own (`aborted`). `OwnFactory`, `TimeoutsAreReal` and `NothingForgotten` leave out what comes
after such an error, and so does the part of `InOrder` that two modules which run in the wrong
order need each other: a module with the factory of another waits for what that one needs.

In `UserCount` a session that ends without having sent `/service/init` is subtracted all the
same, so a count may be negative, and of two changes at once clients may go on showing the
older sum, until the next change. Where nodes do not all reach each other, a node publishes
the sum of what it sees to nodes that see more or less than it does, and their clients show it.

`NoOrphanInfo`, `NothingLeftBehind`, `ReplicasConverge`, `OneOwner`, `NodesAgree`,
`ListForEveryRoom`, `ArchivedOnce`, `SenderOrder`, `KeepsLatest`, `IsChatLog`,
`CountsUsers` and `NodesAgree` of `RoomMembers` and `UserCount` need none of these.

**Bounds.** `MaxPartings` bounds how often nodes lose each other; one parting with the
joining after it shows lost updates, destroyed and re-created lists and the exchange of
whole objects. `MaxRequests`, `MaxEdits`, `MaxJoins`, `MaxChats` bound what clients ask for:
two requests from two sessions are the shortest races of a join with a leave or another
join, six on a single node let each of three sessions join and leave. Two chats with a
history of one show the order of a sender, a history that is full and one that is overtaken;
two joins put both clients into a room, or one of them into two rooms one after the other.
Sessions are used once, so three of them give two that overlap and one that comes after.
Queues need no bound: every message answers one of the bounded actions. Sessions, users and
nodes of `MCUsers` are symmetric; that run has no liveness property.

In `MCUserCount` at most `MaxBusy` threads and messages are about when another thread
starts, so two changes overlap in every way. In `MCClient` five clicks are a login, two
joins, and two more to leave, join again, chat or edit in between; a member that comes or
goes, and a lost session, may fall anywhere. `MCLoader` has a chain as in `application.js`,
a cycle of two and a ring of three modules, and two scripts that bring a definition of
another module along, which also has a script of its own.

In `MCRoomMembers` two requests and one parting are enough for a member whose removal meets
a destroyed list or a lost update. `NodesAgree` of RoomMembers is checked for two nodes and
proved for any number (`ListsAgree`): the part of a list that a node has lost is asked for
again when its list comes back, from every node that it is joined with. It says nothing of
the part of a node that has destroyed its list, which a third node may go on holding.

**Fairness.** It is assumed where a run has a liveness property (`Users`, `RoomMembers`,
`Loader`). Steps of a thread that has work, and the receipt of messages that are under way,
are weakly fair: the server runs each handler to its end, and connections deliver. In
`RoomMembers` this is one condition for all of them together, which is weaker: something
that can go on does, and requests are finite in number. In `Loader` the browser runs the
task at hand, what was put off and timers, and time passes; that scripts arrive, or fail, is
not assumed. Clients and sessions do as they like, and so do nodes that part or join.

## 4. Proofs

Checked by TLAPS for any number of nodes, users, sessions, rooms and calls, from the
assumptions on the constants that each module names.

- `UsersProofs`: `TypeCorrect`; `NoOrphans`; `NothingIsLeftBehind`; `RegisteredAlways` (if
  users have one session per node); `Convergence`. The inductive invariants say, for each
  step of a listener, what the thread that is there still has to do: an entry of the map is
  owed to a session that is connected, `userToSession` names only sessions whose thread has
  not forgotten it, and so on. `Convergence` follows what the *last* message about a user in
  a queue says; publishing appends one, consuming applies the oldest, and a parting or a
  joining replaces what the queue says of every user.
- `RoomMembersProofs`: `TypeCorrect`; `NoGhosts`: if removals are quiet, every member of a
  list is backed by a session that is open or has the removal from that room ahead. The
  invariant is strengthened by: a handler at work belongs to an open session, and a session
  that is closing has every room it may be a member of in `todo`.
  `JoinedAreMembers`: with one session per user and no partings, whoever was told to have
  joined is a member; `OwnRoomsKeepMembers` has the same for the rooms of the user's own
  node, whatever nodes part. A parting takes the members of a room of another node away, so
  nothing more can be said. The invariant (`MemberInv`): no other session of the user is
  alive, the list of the room is there, and a handler between its update and its broadcast
  has the user in the list. `RostersMissNobody`: with quiet removals, and users who stay on
  one node (`UsersStay`; a leave on one node would otherwise take the name of a member on
  another node from the page), a client at rest shows every member on its node. The
  invariant (`RosterInv`) says of every member whom a client does not show yet who will
  tell: its own handler has still to merge or to deliver, or the handler of the other has
  still to broadcast. `ListsAgree`: nodes agree once no update is under way. `Agreement`
  follows, for every two nodes and room, what the last message about the part of the list
  says, and whether a node that has no list, or a new one, has still to ask for it.
- `RoomsProofs`: `TypeCorrect`; `RoomsHaveOneOwner`: a room that is in the part of a node,
  on any node or in any queue, is claimed by that node alone (`OneClaim`). `NodesComeToAgree`:
  what is under way brings each copy to the owner's part (`Converges`).
  `RoomsAreListed`: a node has a list for exactly the rooms it sees, but for those that a
  thread has changed and has still to tell the listeners of (`Listed`). `KnownRoomsAreShown`
  and `RemoteNamesAreShown`, both with `SerialBroadcast`: a result that is merged and not
  yet sent is current, and so is what a client shows, unless a thread on the node is between
  its change and its publication (`Display`); a session that waits for an answer does
  nothing else (`Waiting`).
- `ChatProofs`: `TypeCorrect`, which needs that the chats of a sender are numbered without
  a gap (`Numbered`). `ArchivedInOrder` and `ChatsAreArchived`: each chat is in exactly one
  place, with its sender's handler, on its way to the archive, in it, or `lost`, and those of
  a sender are in these places in the order of their numbers (`Archives`). `LatestAreShown`:
  what a client shows is the end of the archive, or what the live chats and the history
  under way will make it (`Displays`); a queue between nodes that are not joined is empty
  (`Linked`). `ArchivesAreLogs`: the archives in `Chat` are a `ChatLog`, without requests.
  `ChatHistory` takes for granted that each call of `archive` has a chat of its own, and
  promises a `ChatLog`; `Chat` makes such calls only, and builds on that promise. That
  `Latest` is the same in both is the lemma `LatestOfLog`. No run has this property; it was
  checked by TLC on the instance of `MCChat`.
- `ChatHistoryProofs`: `TypeCorrect` (no history grows beyond `MaxEntries`), `LatestKept`,
  and `HistoryIsLog`: `ChatHistory` implements `ChatLog`. The invariant: a call about to add
  or read has the object of its room, an object that is not in the map is empty, each chat
  is added once, and the object of a room holds the latest chats. `KeepIsLatest` is the
  lemma on sequences that `ChatHistoryInfo.add` keeps the latest of the log.
- `UserCountProofs`: `UsersCounted` (a counter is the number of those counted less those
  subtracted) and `CountersAgree`. The invariant adds that the removal of a session begins
  when it goes, and that the last message about a counter in a queue, or the copy when there
  is none, has the counter of the node, or nothing if it is not reached (`Converging`); sums
  that are published in between do not matter. What a sum is needs induction, so
  the set `W` of the numbers that may be under way is existentially quantified in the
  invariant; the types that the proof needs are in `Typed`. `SumsAreShown` goes without
  knowing what a sum is as well: equal counters have equal sums (`SameSum`). Its invariant
  (`Alone`): as long as some node is undisturbed, one node at most has a thread at work or
  messages under way, and what the clients of an undisturbed node show is the sum, or the sum
  has still to be computed, or it is the last message under way to them.
- `ClientProofs`: all six invariants, for any number of clicks, rooms, users, moves and lost
  sessions, without hypotheses; what the properties exclude is in the state (`gaps`). `Held`:
  a subscription that the client refers to is counted in `listeners`. `OneByOne` and `Aims`:
  unless one of the four gaps that they name has happened, there is one leave and one join
  on its way at most, in this order, the leave about `room` and the join about `handle`.
  From this follow `InputOn` (the text field takes input only in a room that is not being
  left) and `Whereabouts` (wherever the user is a member, the client knows it or an answer
  is on its way). `Speaking`, `Hearing` and `Showing` add that membership, the subscription
  and the members that the client shows will be right once the messages under way are
  processed: the last `join` or `leave`, `subscribe` or `unsubscribe`, or message that names
  a user, decides.
- `LoaderProofs`: all five invariants, for every finite page and any number of failing factories.
  `TypeCorrect` needs to know what flags, registry and pending calls have to do with each
  other (`TypeInv`): who waits is registered, who is told of a definition listens to it, a
  task that has ended leaves nothing behind. `FactoriesMatch`: between two tasks the queue is
  empty, and what is in it while a script is completed are the defines of that script, or
  what they left, with `found` saying whether its own was among them (`Taking`).
  `DependenciesFirst`: nobody runs without a value that was not given up (`OrderInv`), and as
  long as factories match, who waits for whom is what the scripts say, so that a cycle of
  waits is one of the page (`WaitsNeeded`). `ReportedInTime`: a script that has arrived has
  made its module unless it is being executed (`ArrivedMade`). `NoCallForgotten`: a call is in
  one of its script, `ticks`, the task and the registry (`CallsInv`); every dependency that a
  registered node lacks is registered, enabled and either loading or waiting itself
  (`Linked`); and once `checkLoaded` has ended without setting the timer, nothing loads and no
  cycle is left (`Settled`). If nothing that a call needs was reported, what it waits for waits
  in turn for something, without end; modules being finite in number, such a path closes
  (`EndlessPathCloses`, by well-founded induction on the sets of nodes that are left), and
  `breakCycle` would have given up an edge of the cycle.

The five modules about services that share data begin with the same lemmas on the queues of
`OortLinks`, each with those that it needs.

The proofs changed the models in five places where small bounds had hidden something.
`InputHasRoom` and `ChatsFromMembers` of `Client` held in the run only because five clicks
are too few: after an edit that was answered late, a second leave or a refused leave, the
text field may take input without a room or a membership, so they exclude these gaps as
well. `carried` was taken when the user clicked; members may also become known between the
click and the subscription. And with three nodes of which two do not reach each other
`ShowsTotal` was false: `disturbed` now has the nodes that a sum reaches which is not
theirs. The invariants of these three were checked by TLC with larger bounds before they
were proved.

In `Loader` the old `InOrder` said that the script of the dependency is not being loaded,
which is false for a module that came with the script of another while its own is under way:
what counts is that it has its factory. And after an error half-way factories are mixed up,
so that modules may wait for each other which by the page do not. The page with such a mixed
cycle, and one with two defines for the module of one script, which breaks `OwnFactory` and is
now excluded by `LoaderAssumption`, are not among those of `MCLoader`. The inductive
invariants were checked by TLC on the instance of the run before they were proved.

Only model-checked: liveness (`KnownEverywhere`, `GoneEverywhere`, `Settles`), which needs
fairness and `ENABLED`. Every invariant of a passing run is proved, and so is the refinement.

## 5. Not modelled, and the plan

Not modelled: the start of a node (`StartupServlet`; what arrives while a service starts is
listed as a hazard), JSON conversion (no state), `stop` of the services, page layout, Oort
and CometD beyond `OortLinks`. The id generator of `RoomCreateService` is a library class:
`Rooms` assumes that it gives no id twice, and what its master does after a restart is not
in this repository. Of `require.js`: plugins, `shim`, `bundles` and packages of the
configuration, `map`, `undef`, error callbacks, fallback paths and web workers, which the
application does not use, and the computation of urls from names.

What is left, in this order:

1. Compositions: rooms that are created at runtime in `RoomMembers`; `Client` with the
   members of `RoomMembers`; the start of a node, with the map started before its listeners.
2. An abstract replicated value, of which each copy is an older value of the original,
   implemented by `Users`, `Rooms` and `UserCount`.
