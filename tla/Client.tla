------------------------------- MODULE Client -------------------------------
(***************************************************************************)
(* The browser client, application.js, as its user and the answers of the  *)
(* server drive it.  Messages of the client reach the server in order, and *)
(* what the server sends reaches the client in order; in between, the user *)
(* goes on clicking whatever the page offers.  Only the answer to an edit  *)
(* has no place in that order: another node may give it.                   *)
(*                                                                         *)
(* The two subscriptions of a room are made and given up together, and are *)
(* one here.  The services have modules of their own; of what they do only *)
(* what the client can tell apart is kept: its node, with the rooms and    *)
(* the users of that node.  A user changes the members of a room first and *)
(* the clients hear of it later, and what a session leaves behind when it  *)
(* ends is cleaned up while the next one is already at work.               *)
(***************************************************************************)
EXTENDS Naturals, Sequences, FiniteSets

CONSTANTS
  Rooms,
  NoRoom,
  Users,        \* those who may be in a room
  Me,           \* the user of this client
  MaxEvents     \* bound: what the user of this client does, the other users
                \* do and the network does, see Event

ASSUME ClientAssumption ==
  /\ NoRoom \notin Rooms
  /\ Me \in Users
  /\ MaxEvents \in Nat

VARIABLES
  login,      \* whether the user is logged out, shaking hands or connected
  room,       \* _room
  members,    \* _members
  handle,     \* _membersSubscription and _chatSubscription
  listeners,  \* how many subscriptions to a room the client holds
  enabled,    \* whether the text field takes input
  listed,     \* whether the rooms are listed
  exits,      \* the rooms that are listed with the icon to leave
  title,      \* the room that #room-name names
  form,       \* the forms that are open, of a new room and of an edit
  sent,       \* what the client has sent
  inbox,      \* what the server has sent
  subs,       \* the rooms the session is subscribed to
  roster,     \* the members of a room
  doing,      \* where the handler of a join or a leave of the session is
  about,      \* the room that it is about
  merged,     \* the members it has read and not delivered yet
  removing,   \* how often the user is still to be taken out of a room for
              \* sessions that have ended
  late,       \* how many joins of sessions that have ended go on
  news,       \* the changes of members that are still to be broadcast
  edited,     \* the rooms whose edit is done and not answered
  gaps,       \* (history variable) what of gap has happened, see below
  carried,    \* (history variable) who was shown when the subscription to
              \* the room began, or is by the messages that came before it
  foreign,    \* (history variable) whether a chat came from no member
  ghosts,     \* (history variable) the rooms the user was added to by a join
              \* of a session that had been removed from them
  misled,     \* (history variable) <<r, u>>: what the server last sent of u
              \* in r was not so when it was sent
  events      \* how much of all that has happened

page == <<room, members, handle, listeners, enabled, listed, exits, title, form>>
handler == <<doing, about, merged>>
former == <<removing, late>>
server == <<subs, roster, edited, handler, former, news>>
history == <<gaps, carried, foreign, ghosts, misled>>
vars == <<login, page, sent, inbox, server, history, events>>

\* What a page that is used in a hurry, or with a poor connection, runs into:
\* joining while the client holds the subscriptions of another join; leaving
\* while a leave is on its way; a leave that is refused; an answer to an edit
\* for a room that is not the current one; a session that the server forgot,
\* when all was quiet or with messages under way; a join that is handled before
\* a former session has been removed from the room.
Gaps == {"ahead", "again", "refused", "strayed", "forgotten", "cut", "early"}

Messages ==
  [type : {"subscribe", "unsubscribe", "join", "leave", "edit", "chat"}, room : Rooms]
    \cup [type : {"create"}]
Answers ==
  [type : {"joined", "left", "edited"}, room : Rooms]
    \cup [type : {"members"}, room : Rooms, action : {"join", "leave"}, users : SUBSET Users]
    \cup [type : {"rooms", "created", "status"}]
News == [action : {"join", "leave"}, room : Rooms, user : Users]

TypeOK ==
  /\ login \in {"out", "shaking", "in"}
  /\ room \in Rooms \cup {NoRoom} /\ handle \in Rooms \cup {NoRoom}
  /\ title \in Rooms \cup {NoRoom}
  /\ members \in SUBSET Users /\ carried \in SUBSET Users
  /\ listeners \in [Rooms -> 0 .. MaxEvents]
  /\ enabled \in BOOLEAN /\ listed \in BOOLEAN
  /\ exits \in SUBSET Rooms
  /\ form \in SUBSET {"new", "edit"}
  /\ sent \in Seq(Messages) /\ inbox \in Seq(Answers)
  /\ subs \in SUBSET Rooms /\ roster \in [Rooms -> SUBSET Users]
  /\ edited \in SUBSET Rooms
  /\ doing \in {"none", "joined", "merge", "deliver", "left"}
  /\ about \in Rooms \cup {NoRoom}
  /\ merged \in SUBSET Users
  /\ removing \in [Rooms -> Nat] /\ late \in [Rooms -> Nat] /\ news \in [News -> Nat]
  /\ ghosts \in SUBSET Rooms /\ misled \in SUBSET (Rooms \X Users)
  /\ gaps \in SUBSET Gaps
  /\ foreign \in BOOLEAN
  /\ events \in 0 .. MaxEvents

\* The page: new Chat, and nobody logged in.
Init ==
  /\ login = "out"
  /\ room = NoRoom /\ handle = NoRoom /\ title = NoRoom
  /\ members = {} /\ carried = {}
  /\ listeners = [r \in Rooms |-> 0]
  /\ enabled = FALSE /\ listed = FALSE
  /\ exits = {} /\ form = {}
  /\ sent = <<>> /\ inbox = <<>>
  /\ subs = {} /\ roster \in [Rooms -> SUBSET (Users \ {Me})] /\ edited = {}
  /\ doing = "none" /\ about = NoRoom /\ merged = {}
  /\ removing = [r \in Rooms |-> 0] /\ late = [r \in Rooms |-> 0]
  /\ news = [m \in News |-> 0]
  /\ gaps = {} /\ foreign = FALSE /\ ghosts = {} /\ misled = {}
  /\ events = 0

\* To lose a session counts as much as a logout and the login that follows.
Event(n) == events + n <= MaxEvents /\ events' = events + n

Click == login = "in" /\ Event(1)

-----------------------------------------------------------------------------
\* Logging in and out.

Login ==
  /\ login = "out"
  /\ Event(1)
  /\ login' = "shaking"
  /\ enabled' = FALSE
  /\ form' = form \ {"new"}
  /\ UNCHANGED <<room, members, handle, listeners, listed, exits, title, sent, inbox, server,
                 history>>

\* Slip: the server is not told.
ResubscribeHere ==
  /\ listeners' = [r \in Rooms |-> IF r = handle THEN 1 ELSE 0]
  /\ sent' = <<>>

\* The client library drops what it held of the former session.
Resubscribe ==
  /\ listeners' = [r \in Rooms |-> IF r = handle THEN 1 ELSE 0]
  /\ sent' = IF handle # NoRoom THEN <<[type |-> "subscribe", room |-> handle]>> ELSE <<>>

\* The listener of /meta/handshake; the server sends the rooms to each new
\* session.
Handshake ==
  /\ login = "shaking"
  /\ login' = "in"
  /\ Resubscribe
  /\ inbox' = <<[type |-> "rooms"]>>
  /\ UNCHANGED <<room, members, handle, enabled, listed, exits, title, form, server, history,
                 events>>

\* The room of the message that the server has taken, if it is of that type.
Taken(type) ==
  {r \in Rooms : doing = "none" /\ sent # <<>> /\ Head(sent) = [type |-> type, room |-> r]}

Once(R, counts) == [r \in Rooms |-> counts[r] + IF r \in R THEN 1 ELSE 0]

Untold(action, r, u) == [action |-> action, room |-> r, user |-> u]

\* A session ends.  sessionRemoved has still to take the user out of every
\* room; the handler of a message of the session goes on, its answers are lost.
Gone ==
  /\ subs' = {} /\ edited' = {} /\ inbox' = <<>>
  /\ doing' = "none" /\ about' = NoRoom /\ merged' = {}
  /\ \E joins \in SUBSET Taken("join") : late' = Once(joins, late)
  /\ \E leaves \in SUBSET Taken("leave") : removing' = Once(leaves, Once(Rooms, removing))
  /\ news' = [m \in News |->
       IF \/ doing = "joined" /\ m = Untold("join", about, Me)
          \/ doing = "left" /\ m = Untold("leave", about, Me)
       THEN news[m] + 1 ELSE news[m]]
  /\ UNCHANGED <<roster, ghosts, misled>>

\* #room-name is left as it is.
Logout ==
  /\ Click
  /\ login' = "out"
  /\ room' = NoRoom /\ members' = {} /\ handle' = NoRoom
  /\ listeners' = [r \in Rooms |-> 0]
  /\ listed' = FALSE /\ exits' = {}
  /\ sent' = <<>>
  /\ Gone
  /\ gaps' = {} /\ carried' = {} /\ foreign' = FALSE
  /\ UNCHANGED <<enabled, title, form>>

\* The session expires, what is under way is lost, and the client library
\* shakes hands again of its own accord.
LoseSession ==
  /\ login = "in"
  /\ Event(2)
  /\ login' = "shaking"
  /\ sent' = <<>>
  /\ Gone
  /\ gaps' = gaps \cup {"forgotten"}
                  \cup (IF sent = <<>> /\ inbox = <<>> /\ doing = "none" THEN {}
                        ELSE {"cut"})
  /\ UNCHANGED <<page, carried, foreign>>

-----------------------------------------------------------------------------
\* What the user does in the page.

\* The library tells the server of the first subscription to a channel, and
\* of the end of the last.
Subscribe(r, held) == IF held[r] = 0 THEN <<[type |-> "subscribe", room |-> r]>> ELSE <<>>

Unsubscribe(h) == IF h # NoRoom /\ listeners[h] = 1
                  THEN <<[type |-> "unsubscribe", room |-> h]>> ELSE <<>>

Released(h) == [r \in Rooms |-> IF r = h THEN listeners[r] - 1 ELSE listeners[r]]

Awaited(type) == \E i \in DOMAIN sent : sent[i].type = type
Coming(type) == doing = type \/ \E i \in DOMAIN inbox : inbox[i].type = type

\* leaveRoom, when there is a room: the messages it sends.
Leaving == IF room = NoRoom THEN <<>>
           ELSE <<[type |-> "leave", room |-> room]>> \o Unsubscribe(handle)

\* The icons of the list of rooms.
MayJoin(r) == listed /\ r \notin exits
MayLeave == exits # {}

LeavingAlready == room # NoRoom /\ (Awaited("leave") \/ Coming("left"))

\* Slip: the subscription is given up and not forgotten.
LeaveWithHandle ==
  /\ MayLeave /\ room # NoRoom
  /\ Click
  /\ enabled' = FALSE
  /\ sent' = sent \o Leaving
  /\ listeners' = Released(handle)
  /\ UNCHANGED <<login, room, members, handle, listed, exits, title, form, inbox, server,
                 history>>

\* Slip: the text field goes on taking input.
LeaveWithInput ==
  /\ MayLeave /\ room # NoRoom
  /\ Click
  /\ sent' = sent \o Leaving
  /\ listeners' = Released(handle)
  /\ handle' = NoRoom
  /\ UNCHANGED <<login, room, members, enabled, listed, exits, title, form, inbox, server,
                 history>>

\* Whichever room has the icon that was clicked, _room is left.
LeaveRoom ==
  /\ MayLeave /\ room # NoRoom
  /\ Click
  /\ enabled' = FALSE
  /\ sent' = sent \o Leaving
  /\ listeners' = Released(handle)
  /\ handle' = NoRoom
  /\ gaps' = IF LeavingAlready THEN gaps \cup {"again"} ELSE gaps
  /\ UNCHANGED <<login, room, members, listed, exits, title, form, inbox, server, carried,
                 foreign, ghosts, misled>>

\* The messages that give up the current room come first; the new
\* subscription replaces the old one.
Join(r, leaving, input) ==
  /\ MayJoin(r)
  /\ Click
  /\ LET left == IF room = NoRoom THEN listeners ELSE Released(handle)
     IN /\ listeners' = [left EXCEPT ![r] = @ + 1]
        /\ sent' = sent \o leaving \o Subscribe(r, left) \o <<[type |-> "join", room |-> r]>>
  /\ handle' = r
  /\ enabled' = input
  /\ gaps' = gaps \cup (IF room = NoRoom /\ handle # NoRoom THEN {"ahead"} ELSE {})
                  \cup (IF LeavingAlready THEN {"again"} ELSE {})
  /\ UNCHANGED <<login, room, members, listed, exits, title, form, inbox, server, carried,
                 foreign, ghosts, misled>>

\* Slip: leaving for another room does not disable the text field.
JoinWithInput(r) == Join(r, Leaving, enabled)

\* leaveRoom, which does nothing without a room, is called first.
JoinRoom(r) == Join(r, Leaving, enabled /\ room = NoRoom)

\* newRoom opens the form, createRoom sends what it holds; the form stays open
\* until the answer comes or the user cancels it.
OpenNewRoom ==
  /\ "new" \notin form
  /\ Click
  /\ form' = form \cup {"new"}
  /\ UNCHANGED <<login, room, members, handle, listeners, enabled, listed, exits, title, sent,
                 inbox, server, history>>

CreateRoom ==
  /\ "new" \in form
  /\ Click
  /\ sent' = Append(sent, [type |-> "create"])
  /\ UNCHANGED <<login, page, inbox, server, history>>

CancelNewRoom ==
  /\ "new" \in form
  /\ Click
  /\ form' = form \ {"new"}
  /\ UNCHANGED <<login, room, members, handle, listeners, enabled, listed, exits, title, sent,
                 inbox, server, history>>

\* _uiSetRoomName: a form that is open there is lost.
SetRoomName(r) == title' = r /\ form' = form \ {"edit"}

\* editRoom and saveRoom: the form is for the room that #room-name names.
OpenEdit ==
  /\ title # NoRoom /\ "edit" \notin form
  /\ Click
  /\ form' = form \cup {"edit"}
  /\ UNCHANGED <<login, room, members, handle, listeners, enabled, listed, exits, title, sent,
                 inbox, server, history>>

SaveRoom ==
  /\ "edit" \in form
  /\ Click
  /\ sent' = Append(sent, [type |-> "edit", room |-> title])
  /\ UNCHANGED <<login, page, inbox, server, history>>

CancelEdit ==
  /\ "edit" \in form
  /\ Click
  /\ SetRoomName(title)
  /\ UNCHANGED <<login, room, members, handle, listeners, enabled, listed, exits, sent, inbox,
                 server, history>>

\* Without a room the handler of the key fails.
SendText ==
  /\ enabled /\ room # NoRoom
  /\ Click
  /\ sent' = Append(sent, [type |-> "chat", room |-> room])
  /\ UNCHANGED <<login, page, inbox, server, history>>

-----------------------------------------------------------------------------
\* What the client does with what it hears.

Hear(type) ==
  /\ login = "in"
  /\ inbox # <<>> /\ Head(inbox).type = type
  /\ inbox' = Tail(inbox)
  /\ UNCHANGED <<login, sent, server, events>>

Shown(message) == IF message.action = "join" THEN members \cup message.users
                  ELSE members \ message.users

\* Slip: whoever leaves stays.
OnMembersJoined ==
  /\ Hear("members")
  /\ members' = IF listeners[Head(inbox).room] > 0
                THEN members \cup Shown(Head(inbox)) ELSE members
  /\ UNCHANGED <<room, handle, listeners, enabled, listed, exits, title, form, history>>

\* A message on a channel without a listener goes nowhere.
OnMembers ==
  /\ Hear("members")
  /\ members' = IF listeners[Head(inbox).room] > 0 THEN Shown(Head(inbox)) ELSE members
  /\ UNCHANGED <<room, handle, listeners, enabled, listed, exits, title, form, history>>

OnRoomJoined ==
  /\ Hear("joined")
  /\ LET r == Head(inbox).room
     IN /\ room' = r /\ SetRoomName(r)
        /\ exits' = IF listed THEN exits \cup {r} ELSE exits
  /\ enabled' = TRUE
  /\ UNCHANGED <<members, handle, listeners, listed, history>>

\* Without a room the handler fails before it changes anything.  The names
\* of the members go from the page, and stay in _members.
OnRoomLeft ==
  /\ Hear("left")
  /\ LET r == Head(inbox).room
     IN IF room = NoRoom THEN UNCHANGED <<room, title, form, exits>>
        ELSE /\ exits' = exits \ {r}
             /\ IF room = r
                THEN room' = NoRoom /\ SetRoomName(NoRoom)
                ELSE UNCHANGED <<room, title, form>>
  /\ UNCHANGED <<members, handle, listeners, enabled, listed, history>>

\* _room becomes the edited room, whatever it was.
OnRoomEdit ==
  /\ Hear("edited")
  /\ LET r == Head(inbox).room
     IN /\ room' = r /\ SetRoomName(r)
        /\ gaps' = IF r # room THEN gaps \cup {"strayed"} ELSE gaps
  /\ UNCHANGED <<members, handle, listeners, enabled, listed, exits, carried, foreign, ghosts,
                 misled>>

OnRoomCreate ==
  /\ Hear("created")
  /\ form' = form \ {"new"}
  /\ UNCHANGED <<room, members, handle, listeners, enabled, listed, exits, title, history>>

\* The list is drawn anew, and the name of the room with it.
OnRooms ==
  /\ Hear("rooms")
  /\ listed' = TRUE
  /\ exits' = {room} \ {NoRoom}
  /\ IF room # NoRoom THEN SetRoomName(room) ELSE UNCHANGED <<title, form>>
  /\ UNCHANGED <<room, members, handle, listeners, enabled, history>>

OnStatus ==
  /\ Hear("status")
  /\ UNCHANGED <<page, history>>

-----------------------------------------------------------------------------
\* The server.

\* The messages of a session are handled one after the other.
Handle(type) ==
  /\ login = "in" /\ doing = "none"
  /\ sent # <<>> /\ Head(sent).type = type
  /\ sent' = Tail(sent)
  /\ UNCHANGED <<login, page, events>>

Told(r, action, us) ==
  IF r \in subs THEN <<[type |-> "members", room |-> r, action |-> action, users |-> us]>>
  ELSE <<>>

Answer(messages) == inbox' = inbox \o messages

\* The users that the messages under way about a room name.
Named(r) == UNION {inbox[i].users : i \in {j \in DOMAIN inbox : /\ inbox[j].type = "members"
                                                               /\ inbox[j].room = r}}

HandleSubscription ==
  /\ LET r == Head(sent).room
     IN \/ /\ Handle("subscribe")
           /\ subs' = subs \cup {r}
           /\ carried' = members \cup Named(r)
        \/ /\ Handle("unsubscribe")
           /\ subs' = subs \ {r}
           /\ UNCHANGED carried
  /\ UNCHANGED <<inbox, roster, edited, handler, former, news, gaps, foreign, ghosts, misled>>

\* The clients are sent that u has joined or left.
Tell(action, r, u) ==
  misled' = IF (action = "join") <=> (u \in roster[r])
            THEN misled \ {<<r, u>>} ELSE misled \cup {<<r, u>>}

\* The user is not let in, or is.
HandleJoin ==
  /\ Handle("join")
  /\ LET r == Head(sent).room
     IN \/ /\ Answer(<<[type |-> "status"]>>)
           /\ UNCHANGED <<roster, handler, gaps, ghosts>>
        \/ /\ roster' = [roster EXCEPT ![r] = @ \cup {Me}]
           /\ doing' = "joined" /\ about' = r
           /\ gaps' = IF removing[r] > 0 THEN gaps \cup {"early"} ELSE gaps
           /\ ghosts' = ghosts \ {r}
           /\ UNCHANGED <<inbox, merged>>
  /\ UNCHANGED <<subs, edited, former, news, carried, foreign, misled>>

\* The callback of the update: the others hear of it, and the client is sent
\* the room.
JoinHandled ==
  /\ doing = "joined"
  /\ Tell("join", about, Me)
  /\ Answer(Told(about, "join", {Me}) \o <<[type |-> "joined", room |-> about]>>)
  /\ doing' = "merge"
  /\ UNCHANGED <<login, page, sent, subs, roster, edited, about, merged, former, news, gaps,
                 carried, foreign, ghosts, events>>

\* deliverMembers, in two steps.
MergeMembers ==
  /\ doing = "merge"
  /\ doing' = "deliver"
  /\ merged' = roster[about]
  /\ UNCHANGED <<login, page, sent, inbox, subs, roster, edited, about, former, news, history,
                 events>>

DeliverMembers ==
  /\ doing = "deliver"
  /\ Answer(<<[type |-> "members", room |-> about, action |-> "join", users |-> merged]>>)
  /\ misled' = (misled \ ({about} \X merged)) \cup ({about} \X (merged \ roster[about]))
  /\ doing' = "none" /\ about' = NoRoom /\ merged' = {}
  /\ UNCHANGED <<login, page, sent, subs, roster, edited, former, news, gaps, carried, foreign,
                 ghosts, events>>

\* Slip: the others are told, and the user stays in the list.
HandleLeaveOnlyTold ==
  /\ Handle("leave")
  /\ doing' = "left" /\ about' = Head(sent).room
  /\ UNCHANGED <<inbox, subs, roster, edited, merged, former, news, history>>

\* The leave is refused when the room is not known.
HandleLeave ==
  /\ Handle("leave")
  /\ LET r == Head(sent).room
     IN \/ /\ Answer(<<[type |-> "status"]>>)
           /\ gaps' = gaps \cup {"refused"}
           /\ UNCHANGED <<roster, handler, ghosts>>
        \/ /\ roster' = [roster EXCEPT ![r] = @ \ {Me}]
           /\ doing' = "left" /\ about' = r
           /\ ghosts' = ghosts \ {r}
           /\ UNCHANGED <<inbox, merged, gaps>>
  /\ UNCHANGED <<subs, edited, former, news, carried, foreign, misled>>

LeaveHandled ==
  /\ doing = "left"
  /\ Tell("leave", about, Me)
  /\ Answer(Told(about, "leave", {Me}) \o <<[type |-> "left", room |-> about]>>)
  /\ doing' = "none" /\ about' = NoRoom
  /\ UNCHANGED <<login, page, sent, subs, roster, edited, merged, former, news, gaps, carried,
                 foreign, ghosts, events>>

\* A member's edit is done; the answer comes on its own.
HandleEdit ==
  /\ Handle("edit")
  /\ LET r == Head(sent).room
     IN \/ /\ Me \in roster[r]
           /\ edited' = edited \cup {r}
           /\ UNCHANGED inbox
        \/ /\ Answer(<<[type |-> "status"]>>)
           /\ UNCHANGED edited
  /\ UNCHANGED <<subs, roster, handler, former, news, history>>

AnswerEdit ==
  /\ login = "in"
  /\ \E r \in edited :
       /\ edited' = edited \ {r}
       /\ Answer(<<[type |-> "edited", room |-> r], [type |-> "rooms"]>>)
  /\ UNCHANGED <<login, page, sent, subs, roster, handler, former, news, history, events>>

HandleCreate ==
  /\ Handle("create")
  /\ Answer(<<[type |-> "created"], [type |-> "rooms"]>>)
  /\ UNCHANGED <<server, history>>

\* The chat is published whoever sends it.
HandleChat ==
  /\ Handle("chat")
  /\ foreign' = (foreign \/ Me \notin roster[Head(sent).room])
  /\ UNCHANGED <<inbox, server, gaps, carried, ghosts, misled>>

-----------------------------------------------------------------------------
\* What other threads of the server do.

Tells(action, r, u) == news' = [news EXCEPT ![Untold(action, r, u)] = @ + 1]

\* Another user joins or leaves a room.
Move ==
  /\ Event(1)
  /\ \E u \in Users \ {Me}, r \in Rooms :
       IF u \in roster[r]
       THEN /\ roster' = [roster EXCEPT ![r] = @ \ {u}]
            /\ Tells("leave", r, u)
       ELSE /\ roster' = [roster EXCEPT ![r] = @ \cup {u}]
            /\ Tells("join", r, u)
  /\ UNCHANGED <<login, page, sent, inbox, subs, edited, handler, former, history>>

\* sessionRemoved, for a session that has ended: the user is taken out of a
\* room, whoever has put it there.
RemoveMe(r) ==
  /\ removing[r] > 0
  /\ removing' = [removing EXCEPT ![r] = @ - 1]
  /\ roster' = [roster EXCEPT ![r] = @ \ {Me}]
  /\ Tells("leave", r, Me)
  /\ ghosts' = ghosts \ {r}
  /\ UNCHANGED <<login, page, sent, inbox, subs, edited, handler, late, gaps, carried, foreign,
                 misled, events>>

\* A join whose session has ended: nobody takes the user out again, unless
\* the removal of the session has not got to the room yet.
LateJoin(r) ==
  /\ late[r] > 0
  /\ late' = [late EXCEPT ![r] = @ - 1]
  /\ roster' = [roster EXCEPT ![r] = @ \cup {Me}]
  /\ Tells("join", r, Me)
  /\ ghosts' = IF removing[r] = 0 /\ Me \notin roster[r] THEN ghosts \cup {r} ELSE ghosts
  /\ UNCHANGED <<login, page, sent, inbox, subs, edited, handler, removing, gaps, carried,
                 foreign, misled, events>>

\* A change is broadcast by the thread that made it.
Spread ==
  /\ \E m \in News :
       /\ news[m] > 0
       /\ news' = [news EXCEPT ![m] = @ - 1]
       /\ Tell(m.action, m.room, m.user)
       /\ Answer(Told(m.room, m.action, {m.user}))
  /\ UNCHANGED <<login, page, sent, subs, roster, edited, handler, former, gaps, carried, foreign,
                 ghosts, events>>

UserStep ==
  \/ Login \/ Logout \/ LeaveRoom \/ (\E r \in Rooms : JoinRoom(r))
  \/ OpenNewRoom \/ CreateRoom \/ CancelNewRoom
  \/ OpenEdit \/ SaveRoom \/ CancelEdit \/ SendText

ClientStep ==
  \/ Handshake
  \/ OnMembers \/ OnRoomJoined \/ OnRoomLeft \/ OnRoomEdit
  \/ OnRoomCreate \/ OnRooms \/ OnStatus

ServerStep ==
  \/ HandleSubscription
  \/ HandleJoin \/ JoinHandled \/ MergeMembers \/ DeliverMembers
  \/ HandleLeave \/ LeaveHandled
  \/ HandleEdit \/ AnswerEdit \/ HandleCreate \/ HandleChat

OtherStep == Move \/ (\E r \in Rooms : RemoveMe(r) \/ LateJoin(r)) \/ Spread

Next == UserStep \/ ClientStep \/ ServerStep \/ OtherStep \/ LoseSession

Spec == Init /\ [][Next]_vars

-----------------------------------------------------------------------------
\* Properties.

\* Everything is answered; and nothing that former sessions or other users
\* have begun goes on.
Answered == login = "in" /\ sent = <<>> /\ inbox = <<>> /\ edited = {} /\ doing = "none"

Settled ==
  /\ Answered
  /\ \A r \in Rooms : removing[r] = 0 /\ late[r] = 0
  /\ \A m \in News : news[m] = 0

Without(gs) == gaps \cap gs = {}

\* joinRoom leaves the current room first, but leaveRoom goes by _room, which
\* only answers change.  Once all has come to its end, the client is in no room
\* that it does not show, but one that a join of a former session put it into
\* after that session had been removed.
NowhereElse ==
  Settled /\ Without({"ahead", "again", "refused", "strayed"})
    => \A r \in Rooms : Me \in roster[r] => room = r \/ r \in ghosts

\* What joinRoom subscribes to, leaveRoom and the re-handshake find again by
\* _membersSubscription and _chatSubscription: the client hears the room that
\* it shows, and nothing else.
HearsItsRoom ==
  Answered /\ room # NoRoom /\ Without({"ahead", "again", "refused", "strayed", "cut"})
    => subs = {room}

\* No chat comes from a user who is not a member: the text field is disabled
\* as soon as a room is left, and messages keep their order.
ChatsFromMembers ==
  Without({"ahead", "again", "refused", "strayed", "forgotten", "early"}) => ~foreign

\* sendText uses _room unasked: whenever the field takes input there is one.
InputHasRoom ==
  enabled /\ login = "in" /\ Without({"ahead", "again", "refused", "strayed"}) => room # NoRoom

\* _members is one set for all rooms, but once all has come to its end no
\* member of the room that is shown is missing from it, and whoever is in it
\* and not in the room was in it before the client heard of the room.  The
\* exceptions are users of whom the server said last what was not so: one that
\* left between the merge and the delivery of the members comes back, and one
\* that two sessions bring in and take out may be told in the other order.
ShowsMembers ==
  Settled /\ room # NoRoom /\ Without(Gaps \ {"early"})
    => \A u \in Users : \/ <<room, u>> \in misled
                        \/ IF u \in roster[room] THEN u \in members
                           ELSE u \in members => u \in carried
=============================================================================
