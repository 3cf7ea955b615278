---------------------------- MODULE ChatHistory ----------------------------
(***************************************************************************)
(* ChatHistoryService and ChatHistoryInfo on the node that owns the rooms: *)
(* the latest chats of every room.  Archives and requests are the calls of *)
(* archive and of retrieve there ever are; each runs on a thread of its    *)
(* own, since they come from the sessions of the node and from any other   *)
(* node.  A chat is the call that archives it.                             *)
(*                                                                         *)
(* An object is a ChatHistoryInfo, named by the call that creates it.  Its *)
(* methods are synchronized, the steps between them are not.               *)
(***************************************************************************)
EXTENDS Naturals, Sequences

CONSTANTS
  Rooms,
  Archives,    \* the calls of ChatHistoryService.archive
  Requests,    \* the calls of ChatHistoryService.retrieve
  RoomOf,      \* the room a call is about
  MaxEntries,  \* the parameter of the service
  NoHistory,   \* null
  NoAnswer     \* a request that is not answered yet

ASSUME ChatHistoryAssumption ==
  /\ Archives \cap Requests = {}
  /\ RoomOf \in [Archives \cup Requests -> Rooms]
  /\ MaxEntries \in Nat \ {0}
  /\ NoHistory \notin Archives
  /\ NoAnswer \notin Seq(Archives)

VARIABLES
  pc,             \* where a call is
  history,        \* the object that a call has got
  chatInfos,      \* the chats of an object
  roomToHistory,  \* the object of a room
  answer,         \* what a request was answered
  archived        \* (history variable) all chats added for a room, in order

vars == <<pc, history, chatInfos, roomToHistory, answer, archived>>

Calls == Archives \cup Requests

Histories == {s \in Seq(Archives) : Len(s) <= MaxEntries}

TypeOK ==
  /\ pc \in [Calls -> {"get", "create", "add", "read", "done"}]
  /\ history \in [Calls -> Archives \cup {NoHistory}]
  /\ chatInfos \in [Archives -> Histories]
  /\ roomToHistory \in [Rooms -> Archives \cup {NoHistory}]
  /\ answer \in [Requests -> Histories \cup {NoAnswer}]
  /\ archived \in [Rooms -> Seq(Archives)]

Init ==
  /\ pc = [c \in Calls |-> "get"]
  /\ history = [c \in Calls |-> NoHistory]
  /\ chatInfos = [c \in Archives |-> <<>>]
  /\ roomToHistory = [r \in Rooms |-> NoHistory]
  /\ answer = [q \in Requests |-> NoAnswer]
  /\ archived = [r \in Rooms |-> <<>>]

-----------------------------------------------------------------------------
\* archive

Get(c) ==
  /\ pc[c] = "get"
  /\ \/ /\ roomToHistory[RoomOf[c]] = NoHistory
        /\ pc' = [pc EXCEPT ![c] = "create"]
        /\ UNCHANGED history
     \/ /\ roomToHistory[RoomOf[c]] # NoHistory
        /\ history' = [history EXCEPT ![c] = roomToHistory[RoomOf[c]]]
        /\ pc' = [pc EXCEPT ![c] = "add"]
  /\ UNCHANGED <<chatInfos, roomToHistory, answer, archived>>

\* Slip: the new object is put whether there is one or not.
PutAlways(c) ==
  /\ pc[c] = "create"
  /\ roomToHistory' = [roomToHistory EXCEPT ![RoomOf[c]] = c]
  /\ history' = [history EXCEPT ![c] = c]
  /\ pc' = [pc EXCEPT ![c] = "add"]
  /\ UNCHANGED <<chatInfos, answer, archived>>

\* The call creates an object and takes the one that is there by now, if any.
PutIfAbsent(c) ==
  /\ pc[c] = "create"
  /\ \/ /\ roomToHistory[RoomOf[c]] = NoHistory
        /\ roomToHistory' = [roomToHistory EXCEPT ![RoomOf[c]] = c]
        /\ history' = [history EXCEPT ![c] = c]
     \/ /\ roomToHistory[RoomOf[c]] # NoHistory
        /\ history' = [history EXCEPT ![c] = roomToHistory[RoomOf[c]]]
        /\ UNCHANGED roomToHistory
  /\ pc' = [pc EXCEPT ![c] = "add"]
  /\ UNCHANGED <<chatInfos, answer, archived>>

\* Slip: the oldest chat is dropped one chat too late.
KeepOneMore(s, c) == IF Len(s) > MaxEntries THEN Append(Tail(s), c) ELSE Append(s, c)

\* ChatHistoryInfo.add: a full list loses its oldest chat.
Keep(s, c) == IF Len(s) = MaxEntries THEN Append(Tail(s), c) ELSE Append(s, c)

Add(c) ==
  /\ pc[c] = "add"
  /\ chatInfos' = [chatInfos EXCEPT ![history[c]] = Keep(@, c)]
  /\ archived' = [archived EXCEPT ![RoomOf[c]] = Append(@, c)]
  /\ pc' = [pc EXCEPT ![c] = "done"]
  /\ UNCHANGED <<history, roomToHistory, answer>>

-----------------------------------------------------------------------------
\* retrieve, and the conversion of the object that it returns

\* Slip: the test for null is the wrong way round.
RetrieveNew(q) ==
  /\ pc[q] = "get"
  /\ roomToHistory[RoomOf[q]] # NoHistory
  /\ answer' = [answer EXCEPT ![q] = <<>>]
  /\ pc' = [pc EXCEPT ![q] = "done"]
  /\ UNCHANGED <<history, chatInfos, roomToHistory, archived>>

\* Without an object the answer is a new one, which nobody adds to.
Retrieve(q) ==
  /\ pc[q] = "get"
  /\ \/ /\ roomToHistory[RoomOf[q]] = NoHistory
        /\ answer' = [answer EXCEPT ![q] = <<>>]
        /\ pc' = [pc EXCEPT ![q] = "done"]
        /\ UNCHANGED history
     \/ /\ roomToHistory[RoomOf[q]] # NoHistory
        /\ history' = [history EXCEPT ![q] = roomToHistory[RoomOf[q]]]
        /\ pc' = [pc EXCEPT ![q] = "read"]
        /\ UNCHANGED answer
  /\ UNCHANGED <<chatInfos, roomToHistory, archived>>

\* getChatInfos copies the chats when the answer is converted.
GetChatInfos(q) ==
  /\ pc[q] = "read"
  /\ answer' = [answer EXCEPT ![q] = chatInfos[history[q]]]
  /\ pc' = [pc EXCEPT ![q] = "done"]
  /\ UNCHANGED <<history, chatInfos, roomToHistory, archived>>

-----------------------------------------------------------------------------
Next ==
  \/ \E c \in Archives : Get(c) \/ PutIfAbsent(c) \/ Add(c)
  \/ \E q \in Requests : Retrieve(q) \/ GetChatInfos(q)

Spec == Init /\ [][Next]_vars

-----------------------------------------------------------------------------
\* Properties.

Log == INSTANCE ChatLog WITH log <- archived

\* The storage is a log of which everybody is shown the latest chats: no
\* chat is lost when several calls find no object and each creates one, and
\* none is seen before it is archived or out of order.
IsChatLog == Log!Spec

\* Whatever the calls that are running, the object of a room holds exactly
\* the latest MaxEntries chats that were archived for the room, and a room
\* without an object has none.
KeepsLatest ==
  \A r \in Rooms :
    IF roomToHistory[r] = NoHistory
    THEN archived[r] = <<>>
    ELSE chatInfos[roomToHistory[r]] = Log!Latest(archived[r])
=============================================================================
