------------------------------ MODULE ChatLog ------------------------------
(***************************************************************************)
(* What the storage for chat messages promises to the services that use    *)
(* it: the chats of a room form one log, archiving a chat appends it, and  *)
(* whoever asks for the history of a room is given the latest MaxEntries   *)
(* chats of its log at one moment between the question and the answer.     *)
(***************************************************************************)
EXTENDS Naturals, Sequences

CONSTANTS Rooms, Archives, Requests, RoomOf, MaxEntries, NoAnswer

VARIABLES
  log,     \* the chats of each room, in the order in which they were archived
  answer   \* what each request was answered

\* The last MaxEntries elements of s, or all of them.
Latest(s) ==
  LET k == IF Len(s) <= MaxEntries THEN Len(s) ELSE MaxEntries
  IN [i \in 1 .. k |-> s[Len(s) - k + i]]

Archived(c) == \E i \in 1 .. Len(log[RoomOf[c]]) : log[RoomOf[c]][i] = c

Init ==
  /\ log = [r \in Rooms |-> <<>>]
  /\ answer = [q \in Requests |-> NoAnswer]

Archive(c) ==
  /\ ~ Archived(c)
  /\ log' = [log EXCEPT ![RoomOf[c]] = Append(@, c)]
  /\ UNCHANGED answer

Retrieve(q) ==
  /\ answer[q] = NoAnswer
  /\ answer' = [answer EXCEPT ![q] = Latest(log[RoomOf[q]])]
  /\ UNCHANGED log

Next ==
  \/ \E c \in Archives : Archive(c)
  \/ \E q \in Requests : Retrieve(q)

Spec == Init /\ [][Next]_<<log, answer>>
=============================================================================
