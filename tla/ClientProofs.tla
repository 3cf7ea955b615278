---------------------------- MODULE ClientProofs ----------------------------
(***************************************************************************)
(* Proofs about Client, for any rooms and users and whatever the bounds:   *)
(* as long as the client is used in an orderly way, see Orderly, at most   *)
(* one leave and after it one join are under way, from the click to the    *)
(* handler of the answer, and the page goes by them; and what the server   *)
(* has not said yet of the members of a room is about to be broadcast.     *)
(***************************************************************************)
EXTENDS Client, Functions, SequenceTheorems, TLAPS

\* None of the ways to use the client that its state is not made for.
Orderly == Without({"ahead", "again", "refused", "strayed"})

-----------------------------------------------------------------------------
\* Types.

\* A subscription that the client still refers to is still held, and a form is
\* open for a room.
Held ==
  /\ \A r \in Rooms : listeners[r] <= events
  /\ login # "out" => events > 0
  /\ handle # NoRoom => login # "out" /\ listeners[handle] > 0
  /\ "edit" \in form => title # NoRoom
  /\ doing # "none" => about \in Rooms

TypeInv == TypeOK /\ Held

\* Without a session nothing is under way.
NoSession ==
  login # "in" => /\ sent = <<>> /\ inbox = <<>> /\ subs = {} /\ edited = {}
                  /\ doing = "none"

LoggedOut == login = "out" => room = NoRoom /\ handle = NoRoom

-----------------------------------------------------------------------------
\* What is under way.

Types(q) == {m.type : m \in Range(q)}

\* No message of q comes after another one, if their types are in pairs.
Never(q, pairs) ==
  \A i, j \in DOMAIN q : i < j => <<q[i].type, q[j].type>> \notin pairs

SentOrder ==
  {<<"leave", "leave">>, <<"join", "join">>, <<"join", "leave">>, <<"leave", "chat">>,
   <<"join", "subscribe">>, <<"join", "unsubscribe">>}

InboxOrder == {<<"left", "left">>, <<"joined", "joined">>, <<"joined", "left">>}

\* What the client will be answered, of what the server has begun.
Expected == Types(inbox) \cup {doing}

Departing == "leave" \in Types(sent) \/ "left" \in Expected
Arriving == "join" \in Types(sent) \/ "joined" \in Expected

\* What the server has begun comes after what it has sent.
InboxOrdered ==
  /\ Never(inbox, InboxOrder)
  /\ \A t \in Types(inbox) : <<t, doing>> \notin InboxOrder

\* One leave and one join, in this order, from the click to the answer.
OneByOne ==
  /\ Never(sent, SentOrder) /\ InboxOrdered
  /\ "left" \in Expected => "leave" \notin Types(sent)
  /\ "joined" \in Expected => "join" \notin Types(sent) /\ "leave" \notin Types(sent)

\* They are about the room that is shown and the one that is subscribed to.
Aims ==
  /\ \A m \in Range(sent) \cup Range(inbox) :
       /\ m.type \in {"leave", "left"} => m.room = room
       /\ m.type \in {"join", "joined"} => m.room = handle
  /\ doing = "left" => about = room
  /\ doing = "joined" => about = handle
  /\ Arriving /\ ~Departing => room = NoRoom

Listening == \A r \in Rooms : listeners[r] = IF r = handle THEN 1 ELSE 0

InputOn == enabled /\ login # "out" => room # NoRoom /\ ~Departing

\* A former session has still to leave the room, or has joined it too late.
Leftover(r) == r \in ghosts \/ removing[r] > 0

\* Where the server has the user: the client will know of it, or a former
\* session is the reason.
Whereabouts ==
  \A r \in Rooms : Me \in roster[r] =>
    \/ room = r /\ "left" \notin Expected
    \/ handle = r /\ "joined" \in Expected
    \/ Leftover(r)

InOrder == OneByOne /\ Aims /\ Listening /\ InputOn /\ Whereabouts

OrderInv == Orderly => InOrder

-----------------------------------------------------------------------------
\* Chats.

\* The user is in the room, and no former session has still to leave it.
Safe(r) == Me \in roster[r] /\ removing[r] = 0

\* Where the client may send a chat, and where it has sent one, it is a member.
Speaking ==
  /\ ~foreign
  /\ enabled /\ login # "out" => login = "in" /\ Safe(room)
  /\ "joined" \in Expected => Safe(handle)
  /\ \A m \in Range(sent) : m.type = "chat" => Safe(m.room)

ChatInv == Orderly /\ Without({"forgotten", "early"}) => Speaking

-----------------------------------------------------------------------------
\* Subscriptions and members.

\* What is on, or off, once the messages of q are processed, of which those in
\* On switch it on, and those in Off switch it off.
Ends(q, On, Off, held) ==
  \/ \E i \in DOMAIN q : q[i] \in On /\ \A j \in DOMAIN q : j > i => q[j] \notin Off
  \/ held /\ \A i \in DOMAIN q : q[i] \notin Off

Subscribing(r) == {[type |-> "subscribe", room |-> r]}
Unsubscribing(r) == {[type |-> "unsubscribe", room |-> r]}

\* The server will send what happens in the room.
WillHear(r) == Ends(sent, Subscribing(r), Unsubscribing(r), r \in subs)

Hearing ==
  /\ login = "in" => \A r \in Rooms : WillHear(r) <=> r = handle
  /\ room # NoRoom /\ ~Departing => handle = room

HearInv == Orderly /\ Without({"cut"}) => Hearing

Naming(r, action, u) ==
  {m \in Answers : m.type = "members" /\ m.room = r /\ m.action = action /\ u \in m.users}

\* The client will show the user as a member.
WillShow(u) == Ends(inbox, Naming(handle, "join", u), Naming(handle, "leave", u), u \in members)

\* The client is in a room, or the server has let it in.
Tuned == handle # NoRoom /\ ("joined" \in Expected \/ (room = handle /\ ~Departing))

\* The server sends what happens in the room, and goes on with it.
TunedIn ==
  /\ handle \in subs
  /\ Range(sent) \cap (Subscribing(handle) \cup Unsubscribing(handle)) = {}

SubOrder == {<<"subscribe", "unsubscribe">>}

\* What the clients hear of the user will change, or was not so.
Unsure(r, u) ==
  \/ \E action \in {"join", "leave"} : news[Untold(action, r, u)] > 0
  \/ <<r, u>> \in misled

\* The client is about to be told of the user by the handler of its join.
Delivered(u) == doing \in {"joined", "merge"} \/ (doing = "deliver" /\ u \in merged)

\* What the client will show of the user is wrong, and will not be put right.
Missing(u) ==
  u \in roster[handle] /\ ~ WillShow(u) /\ ~ Unsure(handle, u) /\ ~ Delivered(u)

Extra(u) ==
  /\ WillShow(u) /\ u \notin roster[handle] \cup carried /\ ~ Unsure(handle, u)
  /\ ~ (doing = "left" /\ about = handle /\ u = Me)

Showing ==
  /\ login # "in" => handle = NoRoom
  /\ Never(sent, SubOrder)
  /\ Tuned => "subscribe" \notin Types(sent) /\ "unsubscribe" \notin Types(sent)
  /\ Tuned /\ doing \in {"joined", "merge", "deliver"} => about = handle
  /\ Tuned => \A u \in Users : ~ Missing(u)
  /\ TunedIn => \A u \in Users : ~ Extra(u)

ShowInv == Without(Gaps \ {"early"}) => Showing

-----------------------------------------------------------------------------
\* Queues.

LEMMA EmptyQueue ==
  /\ Range(<<>>) = {} /\ Types(<<>>) = {}
  /\ \A pairs : Never(<<>>, pairs)
  /\ \A On, Off, held : Ends(<<>>, On, Off, held) <=> held
  BY DEF Range, Types, Never, Ends

\* What is in a queue that messages are appended to, and in which order.
LEMMA Longer ==
  ASSUME NEW S, NEW q \in Seq(S), NEW p \in Seq(S)
  PROVE  /\ q \o p \in Seq(S)
         /\ Range(q \o p) = Range(q) \cup Range(p)
         /\ Types(q \o p) = Types(q) \cup Types(p)
         /\ \A pairs : Never(q, pairs) /\ Never(p, pairs)
                         /\ (\A s \in Types(q), t \in Types(p) : <<s, t>> \notin pairs)
                       => Never(q \o p, pairs)
<1> DEFINE r == q \o p
<1>1. /\ Len(q) \in Nat /\ Len(p) \in Nat /\ r \in Seq(S) /\ Len(r) = Len(q) + Len(p)
      /\ DOMAIN q = 1 .. Len(q) /\ DOMAIN p = 1 .. Len(p) /\ DOMAIN r = 1 .. Len(r)
      /\ \A i \in 1 .. Len(r) : r[i] = IF i <= Len(q) THEN q[i] ELSE p[i - Len(q)]
  OBVIOUS
<1> HIDE DEF r
<1>2. \A i \in DOMAIN q : i \in DOMAIN r /\ r[i] = q[i]
  BY <1>1
<1>3. \A i \in DOMAIN p : i + Len(q) \in DOMAIN r /\ r[i + Len(q)] = p[i]
  BY <1>1
<1>4. \A i \in DOMAIN r : \/ i \in DOMAIN q /\ i <= Len(q) /\ r[i] = q[i]
                          \/ i - Len(q) \in DOMAIN p /\ i > Len(q) /\ r[i] = p[i - Len(q)]
  BY <1>1
<1>5. Range(r) = Range(q) \cup Range(p)
  BY <1>2, <1>3, <1>4 DEF Range
<1>6. Types(r) = Types(q) \cup Types(p)
  BY <1>5 DEF Types
<1>7. ASSUME NEW pairs, Never(q, pairs), Never(p, pairs),
             \A s \in Types(q), t \in Types(p) : <<s, t>> \notin pairs,
             NEW i \in DOMAIN r, NEW j \in DOMAIN r, i < j
      PROVE  <<r[i].type, r[j].type>> \notin pairs
  <2>1. CASE i \in DOMAIN q /\ r[i] = q[i] /\ j \in DOMAIN q /\ r[j] = q[j]
    BY <1>7, <2>1 DEF Never
  <2>2. CASE i \in DOMAIN q /\ r[i] = q[i] /\ j - Len(q) \in DOMAIN p /\ r[j] = p[j - Len(q)]
    <3>1. r[i].type \in Types(q) /\ r[j].type \in Types(p)
      BY <2>2 DEF Types, Range
    <3> QED
      BY <1>7, <3>1
  <2>3. CASE /\ i - Len(q) \in DOMAIN p /\ r[i] = p[i - Len(q)]
             /\ j - Len(q) \in DOMAIN p /\ r[j] = p[j - Len(q)]
    <3>1. i - Len(q) < j - Len(q)
      BY <1>1, <1>7
    <3> QED
      BY <1>7, <2>3, <3>1 DEF Never
  <2>4. i > Len(q) /\ j <= Len(q) => FALSE
    BY <1>1, <1>7
  <2> QED
    BY <1>4, <1>7, <2>1, <2>2, <2>3, <2>4
<1>8. \A pairs : Never(q, pairs) /\ Never(p, pairs)
                   /\ (\A s \in Types(q), t \in Types(p) : <<s, t>> \notin pairs)
                 => Never(r, pairs)
  BY <1>7 DEF Never
<1> QED
  BY <1>1, <1>5, <1>6, <1>8 DEF r

\* The oldest message is taken.
LEMMA Shorter ==
  ASSUME NEW S, NEW q \in Seq(S), q # <<>>
  PROVE  /\ Head(q) \in S /\ Tail(q) \in Seq(S)
         /\ Range(q) = {Head(q)} \cup Range(Tail(q))
         /\ Types(q) = {Head(q).type} \cup Types(Tail(q))
         /\ \A pairs : Never(q, pairs) =>
              /\ Never(Tail(q), pairs)
              /\ \A t \in Types(Tail(q)) : <<Head(q).type, t>> \notin pairs
<1> DEFINE r == Tail(q)
<1>1. /\ Len(q) \in Nat \ {0} /\ r \in Seq(S) /\ Len(r) = Len(q) - 1
      /\ DOMAIN q = 1 .. Len(q) /\ DOMAIN r = 1 .. Len(r)
      /\ \A i \in 1 .. Len(r) : r[i] = q[i + 1]
      /\ Head(q) = q[1] /\ Head(q) \in S
  OBVIOUS
<1> HIDE DEF r
<1>2. \A i \in DOMAIN r : i + 1 \in DOMAIN q /\ i + 1 > 1 /\ r[i] = q[i + 1]
  BY <1>1
<1>3. 1 \in DOMAIN q /\ \A i \in DOMAIN q : i = 1 \/ (i - 1 \in DOMAIN r /\ q[i] = r[i - 1])
  BY <1>1
<1>4. Range(q) = {Head(q)} \cup Range(r)
  BY SMTT(30), <1>1, <1>2, <1>3 DEF Range
<1>5. Types(q) = {Head(q).type} \cup Types(r)
  BY <1>4 DEF Types
<1>6. ASSUME NEW pairs, Never(q, pairs)
      PROVE  /\ Never(r, pairs)
             /\ \A t \in Types(r) : <<Head(q).type, t>> \notin pairs
  <2>1. ASSUME NEW i \in DOMAIN r, NEW j \in DOMAIN r, i < j
        PROVE  <<r[i].type, r[j].type>> \notin pairs
    <3>1. i + 1 < j + 1
      BY <1>1, <2>1
    <3> QED
      BY <1>2, <1>6, <3>1 DEF Never
  <2>2. ASSUME NEW t \in Types(r) PROVE <<Head(q).type, t>> \notin pairs
    <3>1. PICK i \in DOMAIN r : t = r[i].type
      BY DEF Types, Range
    <3> QED
      BY <1>1, <1>2, <1>3, <1>6, <3>1 DEF Never
  <2> QED
    BY <2>1, <2>2 DEF Never
<1> QED
  BY <1>1, <1>4, <1>5, <1>6 DEF r

\* What a switch ends at goes by the last message about it.
LEMMA EndsLonger ==
  ASSUME NEW S, NEW q \in Seq(S), NEW m \in S, NEW On, NEW Off, NEW held \in BOOLEAN,
         On \cap Off = {}
  PROVE  Ends(q \o <<m>>, On, Off, held) <=>
           IF m \in On THEN TRUE ELSE IF m \in Off THEN FALSE ELSE Ends(q, On, Off, held)
<1> DEFINE r == q \o <<m>>
           n == Len(q) + 1
<1>1. /\ Len(q) \in Nat /\ DOMAIN q = 1 .. Len(q) /\ DOMAIN r = 1 .. n /\ r[n] = m
      /\ \A i \in 1 .. Len(q) : r[i] = q[i]
  OBVIOUS
<1> HIDE DEF r
<1>2. /\ n \in DOMAIN r /\ \A i \in DOMAIN q : i \in DOMAIN r /\ n > i /\ r[i] = q[i]
      /\ \A i \in DOMAIN r : i = n \/ i \in DOMAIN q
      /\ \A i \in DOMAIN r : ~ (i > n)
  BY <1>1
<1> HIDE DEF n
<1>3. m \in On => Ends(r, On, Off, held)
  BY <1>1, <1>2 DEF Ends
<1>4. m \in Off => ~ Ends(r, On, Off, held)
  BY <1>1, <1>2 DEF Ends
<1>5. m \notin On /\ m \notin Off => (Ends(r, On, Off, held) <=> Ends(q, On, Off, held))
  <2> SUFFICES ASSUME m \notin On, m \notin Off
               PROVE  Ends(r, On, Off, held) <=> Ends(q, On, Off, held)
    OBVIOUS
  <2>1. (\E i \in DOMAIN r : r[i] \in On /\ \A j \in DOMAIN r : j > i => r[j] \notin Off)
          <=> (\E i \in DOMAIN q : q[i] \in On /\ \A j \in DOMAIN q : j > i => q[j] \notin Off)
    BY <1>1, <1>2
  <2>2. (\A i \in DOMAIN r : r[i] \notin Off) <=> (\A i \in DOMAIN q : q[i] \notin Off)
    BY <1>1, <1>2
  <2> QED
    BY <2>1, <2>2 DEF Ends
<1> QED
  BY <1>3, <1>4, <1>5 DEF r

LEMMA EndsShorter ==
  ASSUME NEW S, NEW q \in Seq(S), q # <<>>, NEW On, NEW Off,
         NEW held \in BOOLEAN, NEW next \in BOOLEAN,
         next <=> Head(q) \in On \/ (held /\ Head(q) \notin Off)
  PROVE  Ends(q, On, Off, held) <=> Ends(Tail(q), On, Off, next)
<1> DEFINE r == Tail(q)
<1>1. /\ Len(q) \in Nat \ {0} /\ Len(r) = Len(q) - 1 /\ Head(q) = q[1]
      /\ DOMAIN q = 1 .. Len(q) /\ DOMAIN r = 1 .. Len(r)
      /\ \A i \in 1 .. Len(r) : r[i] = q[i + 1]
  OBVIOUS
<1> HIDE DEF r
<1>2. /\ 1 \in DOMAIN q /\ \A i \in DOMAIN q : i = 1 \/ (i - 1 \in DOMAIN r /\ i > 1)
      /\ \A i \in DOMAIN r : i + 1 \in DOMAIN q /\ i + 1 > 1 /\ r[i] = q[i + 1]
      /\ \A i \in DOMAIN q : i > 1 => i - 1 \in DOMAIN r /\ q[i] = r[i - 1]
      /\ \A i, j \in DOMAIN r : j > i <=> j + 1 > i + 1
      /\ \A i, j \in DOMAIN q : j > i <=> j - 1 > i - 1
      /\ \A i \in DOMAIN r : i + 1 - 1 = i
  BY <1>1
<1>3. (\A i \in DOMAIN q : q[i] \notin Off)
        <=> Head(q) \notin Off /\ \A i \in DOMAIN r : r[i] \notin Off
  <2>1. Head(q) = q[1]
    BY <1>1
  <2>2. ASSUME \A i \in DOMAIN q : q[i] \notin Off
        PROVE  Head(q) \notin Off /\ \A i \in DOMAIN r : r[i] \notin Off
    BY <1>2, <2>1, <2>2
  <2>3. ASSUME Head(q) \notin Off, \A i \in DOMAIN r : r[i] \notin Off, NEW i \in DOMAIN q
        PROVE  q[i] \notin Off
    BY <1>2, <2>1, <2>3
  <2> QED
    BY <2>2, <2>3
<1>4. ASSUME NEW i \in DOMAIN r
      PROVE  (\A j \in DOMAIN r : j > i => r[j] \notin Off)
               <=> (\A j \in DOMAIN q : j > i + 1 => q[j] \notin Off)
  BY <1>1, <1>2
<1>5. (\E i \in DOMAIN r : r[i] \in On /\ \A j \in DOMAIN r : j > i => r[j] \notin Off)
        <=> (\E i \in DOMAIN q : /\ i > 1 /\ q[i] \in On
                                 /\ \A j \in DOMAIN q : j > i => q[j] \notin Off)
  <2>1. ASSUME NEW i \in DOMAIN r, r[i] \in On, \A j \in DOMAIN r : j > i => r[j] \notin Off
        PROVE  \E k \in DOMAIN q : /\ k > 1 /\ q[k] \in On
                                   /\ \A j \in DOMAIN q : j > k => q[j] \notin Off
    BY <1>2, <1>4, <2>1
  <2>2. ASSUME NEW k \in DOMAIN q, k > 1, q[k] \in On,
               \A j \in DOMAIN q : j > k => q[j] \notin Off
        PROVE  \E i \in DOMAIN r : r[i] \in On /\ \A j \in DOMAIN r : j > i => r[j] \notin Off
    <3>1. k - 1 \in DOMAIN r /\ q[k] = r[k - 1] /\ (k - 1) + 1 = k
      BY <1>1, <1>2, <2>2
    <3> QED
      BY <1>4, <2>2, <3>1
  <2> QED
    BY <2>1, <2>2
<1>6. (\A j \in DOMAIN q : j > 1 => q[j] \notin Off) <=> (\A i \in DOMAIN r : r[i] \notin Off)
  BY <1>1, <1>2
<1>7. Ends(q, On, Off, held) <=>
        \/ \E i \in DOMAIN r : r[i] \in On /\ \A j \in DOMAIN r : j > i => r[j] \notin Off
        \/ Head(q) \in On /\ \A i \in DOMAIN r : r[i] \notin Off
        \/ held /\ Head(q) \notin Off /\ \A i \in DOMAIN r : r[i] \notin Off
  <2> DEFINE Last(i) == q[i] \in On /\ \A j \in DOMAIN q : j > i => q[j] \notin Off
  <2>1. (\E i \in DOMAIN q : Last(i)) <=> Last(1) \/ \E i \in DOMAIN q : i > 1 /\ Last(i)
    <3> HIDE DEF Last
    <3> QED
      BY <1>2
  <2>2. Last(1) <=> Head(q) \in On /\ \A i \in DOMAIN r : r[i] \notin Off
    BY <1>1, <1>6
  <2> QED
    BY <1>3, <1>5, <2>1, <2>2 DEF Ends
<1> QED
  BY <1>7 DEF Ends, r

\* Messages about something else change nothing.
LEMMA EndsAlike ==
  ASSUME NEW S, NEW q \in Seq(S), NEW On, NEW Off, NEW held \in BOOLEAN,
         Range(q) \cap (On \cup Off) = {}
  PROVE  Ends(q, On, Off, held) <=> held
  BY DEF Ends, Range

LEMMA EndsMore ==
  ASSUME NEW S, NEW q \in Seq(S), NEW p \in Seq(S), NEW On, NEW Off, NEW held \in BOOLEAN,
         Range(p) \cap (On \cup Off) = {}
  PROVE  Ends(q \o p, On, Off, held) <=> Ends(q, On, Off, held)
<1> DEFINE r == q \o p
<1>1. /\ Len(q) \in Nat /\ Len(p) \in Nat /\ Len(r) = Len(q) + Len(p)
      /\ DOMAIN q = 1 .. Len(q) /\ DOMAIN p = 1 .. Len(p) /\ DOMAIN r = 1 .. Len(r)
      /\ \A i \in 1 .. Len(r) : r[i] = IF i <= Len(q) THEN q[i] ELSE p[i - Len(q)]
  OBVIOUS
<1> HIDE DEF r
<1>2. \A i \in DOMAIN q : i \in DOMAIN r /\ r[i] = q[i]
  BY <1>1
<1>3. \A i \in DOMAIN r : \/ i \in DOMAIN q /\ r[i] = q[i]
                          \/ i - Len(q) \in DOMAIN p /\ r[i] = p[i - Len(q)]
  BY <1>1
<1>4. \A i \in DOMAIN p : p[i] \notin On /\ p[i] \notin Off
  BY DEF Range
<1>5. \A i \in DOMAIN r : (i \in DOMAIN q /\ r[i] = q[i]) \/ (r[i] \notin On /\ r[i] \notin Off)
  BY <1>3, <1>4
<1>6. (\E i \in DOMAIN r : r[i] \in On /\ \A j \in DOMAIN r : j > i => r[j] \notin Off)
        <=> (\E i \in DOMAIN q : q[i] \in On /\ \A j \in DOMAIN q : j > i => q[j] \notin Off)
  BY <1>2, <1>5
<1>7. (\A i \in DOMAIN r : r[i] \notin Off) <=> (\A i \in DOMAIN q : q[i] \notin Off)
  BY <1>2, <1>5
<1> QED
  BY <1>6, <1>7 DEF Ends, r

-----------------------------------------------------------------------------
\* Messages.

LEMMA AnswerFields ==
  ASSUME NEW m \in Answers
  PROVE  /\ m.type \in {"joined", "left", "edited", "members"} => m.room \in Rooms
         /\ m.type = "members" => m.action \in {"join", "leave"} /\ m.users \in SUBSET Users
         /\ m.type \in {"joined", "left", "edited", "members", "rooms", "created", "status"}
  BY DEF Answers

LEMMA MessageFields ==
  ASSUME NEW m \in Messages
  PROVE  /\ m.type # "create" => m.room \in Rooms
         /\ m.type \in {"subscribe", "unsubscribe", "join", "leave", "edit", "chat", "create"}
  BY DEF Messages

LEMMA SentRoom ==
  ASSUME NEW r \in Rooms,
         NEW type \in {"subscribe", "unsubscribe", "join", "leave", "edit", "chat"}
  PROVE  [type |-> type, room |-> r] \in Messages
  BY DEF Messages

LEMMA AnsweredRoom ==
  ASSUME NEW r \in Rooms, NEW type \in {"joined", "left", "edited"}
  PROVE  [type |-> type, room |-> r] \in Answers
  BY DEF Answers

LEMMA AnsweredMembers ==
  ASSUME NEW r \in Rooms, NEW action \in {"join", "leave"}, NEW us \in SUBSET Users
  PROVE  [type |-> "members", room |-> r, action |-> action, users |-> us] \in Answers
  BY DEF Answers

LEMMA AnsweredPlain ==
  ASSUME NEW type \in {"rooms", "created", "status"}
  PROVE  [type |-> type] \in Answers
  BY DEF Answers

LEMMA ToldType ==
  ASSUME NEW r \in Rooms, NEW action \in {"join", "leave"}, NEW us \in SUBSET Users
  PROVE  Told(r, action, us) \in Seq(Answers)
  BY AnsweredMembers DEF Told

LEMMA LeavingType ==
  ASSUME TypeOK
  PROVE  Leaving \in Seq(Messages) /\ Unsubscribe(handle) \in Seq(Messages)
<1>1. Unsubscribe(handle) \in Seq(Messages)
  <2>1. CASE handle = NoRoom
    BY <2>1 DEF Unsubscribe
  <2>2. CASE handle # NoRoom
    <3>1. [type |-> "unsubscribe", room |-> handle] \in Messages
      BY <2>2, SentRoom DEF TypeOK
    <3> QED
      BY <3>1 DEF Unsubscribe
  <2> QED
    BY <2>1, <2>2
<1>2. room # NoRoom => [type |-> "leave", room |-> room] \in Messages
  BY SentRoom DEF TypeOK
<1> QED
  BY <1>1, <1>2 DEF Leaving

LEMMA SubscribeType ==
  ASSUME NEW r \in Rooms, NEW held
  PROVE  Subscribe(r, held) \in Seq(Messages)
<1>1. [type |-> "subscribe", room |-> r] \in Messages
  BY SentRoom
<1> QED
  BY <1>1 DEF Subscribe

-----------------------------------------------------------------------------
\* Types.

LEMMA InitTypes == Init => TypeInv
<1> SUFFICES ASSUME Init PROVE TypeInv
  OBVIOUS
<1>1. TypeOK
  <2>1. 0 \in 0 .. MaxEvents
    BY ClientAssumption
  <2>2. sent \in Seq(Messages) /\ inbox \in Seq(Answers)
    BY DEF Init
  <2>3. roster \in [Rooms -> SUBSET Users]
    BY DEF Init
  <2> QED
    BY <2>1, <2>2, <2>3 DEF Init, TypeOK
<1>2. Held
  BY DEF Init, Held
<1> QED
  BY <1>1, <1>2 DEF TypeInv

\* The subscription that the client refers to is given up.
LEMMA ReleasedType ==
  ASSUME TypeInv
  PROVE  /\ Released(handle) \in [Rooms -> 0 .. MaxEvents]
         /\ \A r \in Rooms : Released(handle)[r] <= events
  BY ClientAssumption DEF TypeInv, TypeOK, Held, Released

LEMMA EventsGrow ==
  ASSUME TypeInv, listeners' = listeners, events' \in 0 .. MaxEvents, events' >= events
  PROVE  (\A r \in Rooms : listeners'[r] <= events') /\ (events > 0 => events' > 0)
<1>1. listeners \in [Rooms -> 0 .. MaxEvents] /\ \A r \in Rooms : listeners[r] <= events
  BY DEF TypeInv, TypeOK, Held
<1>2. events \in 0 .. MaxEvents
  BY DEF TypeInv, TypeOK
<1> QED
  BY <1>1, <1>2, ClientAssumption

\* What the end of a session leaves.
GoneType ==
  /\ subs' = {} /\ edited' = {} /\ inbox' = <<>> /\ inbox' \in Seq(Answers)
  /\ roster' = roster /\ ghosts' = ghosts /\ misled' = misled
  /\ doing' = "none" /\ about' = NoRoom /\ merged' = {}
  /\ late' \in [Rooms -> Nat] /\ removing' \in [Rooms -> Nat] /\ news' \in [News -> Nat]
  /\ \A r \in Rooms : removing'[r] > 0

LEMMA GoneTypes ==
  ASSUME TypeInv, Gone
  PROVE  GoneType
<1>1. /\ removing \in [Rooms -> Nat] /\ late \in [Rooms -> Nat] /\ news \in [News -> Nat]
  BY DEF TypeInv, TypeOK
<1>2. late' \in [Rooms -> Nat]
  BY <1>1 DEF Gone, Once
<1>3. removing' \in [Rooms -> Nat] /\ \A r \in Rooms : removing'[r] > 0
  <2>1. PICK leaves : removing' = Once(leaves, Once(Rooms, removing))
    BY DEF Gone
  <2>2. removing' = [r \in Rooms |-> (removing[r] + 1) + IF r \in leaves THEN 1 ELSE 0]
    BY <2>1 DEF Once
  <2> QED
    BY <1>1, <2>2
<1>4. news' \in [News -> Nat]
  <2>1. \A m \in News : news'[m] = news[m] + 1 \/ news'[m] = news[m]
    BY DEF Gone
  <2>2. news' = [m \in News |-> news'[m]]
    BY DEF Gone
  <2>3. \A m \in News : news'[m] \in Nat
    BY <1>1, <2>1
  <2> QED
    BY <2>2, <2>3
<1> QED
  BY <1>2, <1>3, <1>4 DEF Gone, GoneType

LEMMA LoginTypes == TypeInv /\ (Login \/ Handshake \/ Logout \/ LoseSession) => TypeInv'
<1> SUFFICES ASSUME TypeInv, Login \/ Handshake \/ Logout \/ LoseSession
             PROVE  TypeInv'
  OBVIOUS
<1> USE ClientAssumption DEF TypeInv, TypeOK, Held
<1>1. CASE Login
  <2>1. events' \in 0 .. MaxEvents /\ events' = events + 1 /\ login' = "shaking"
    BY <1>1 DEF Login, Event
  <2>2. TypeOK'
    BY <1>1, <2>1 DEF Login, server, handler, former, history
  <2>4. listeners' = listeners /\ handle' = handle /\ title' = title /\ form' \subseteq form
        /\ doing' = doing /\ about' = about
    BY <1>1 DEF Login, server, handler
  <2>3. Held'
    BY <2>1, <2>4, EventsGrow
  <2> QED
    BY <2>2, <2>3
<1>2. CASE Handshake
  <2>1. sent' \in Seq(Messages)
    <3>1. handle # NoRoom => [type |-> "subscribe", room |-> handle] \in Messages
      BY SentRoom
    <3> QED
      BY <1>2, <3>1 DEF Handshake, Resubscribe
  <2>2. inbox' \in Seq(Answers)
    BY <1>2, AnsweredPlain DEF Handshake
  <2>3. TypeOK'
    BY <1>2, <2>1, <2>2 DEF Handshake, Resubscribe, server, handler, former, history
  <2>4. Held'
    BY <1>2 DEF Handshake, Resubscribe, server, handler
  <2> QED
    BY <2>3, <2>4
<1>3. CASE Logout
  <2>1. sent' \in Seq(Messages)
    BY <1>3 DEF Logout
  <2>2. events' \in 0 .. MaxEvents /\ events' = events + 1
    BY <1>3 DEF Logout, Click, Event
  <2>3. GoneType
    BY <1>3, GoneTypes DEF Logout
  <2>4. TypeOK'
    <3>1. /\ login' = "out" /\ room' = NoRoom /\ handle' = NoRoom /\ title' = title
          /\ members' = {} /\ carried' = {} /\ listed' = FALSE /\ exits' = {} /\ gaps' = {}
          /\ foreign' = FALSE /\ enabled' = enabled /\ form' = form
      BY <1>3 DEF Logout
    <3>2. listeners' \in [Rooms -> 0 .. MaxEvents]
      BY <1>3 DEF Logout
    <3> QED
      BY <2>1, <2>2, <2>3, <3>1, <3>2 DEF GoneType
  <2>5. Held'
    BY <1>3, <2>2, <2>3 DEF Logout, GoneType
  <2> QED
    BY <2>4, <2>5
<1>4. CASE LoseSession
  <2>1. sent' \in Seq(Messages)
    BY <1>4 DEF LoseSession
  <2>2. gaps' \in SUBSET Gaps
    BY <1>4 DEF LoseSession, Gaps
  <2>3. GoneType
    BY <1>4, GoneTypes DEF LoseSession
  <2>4. events' \in 0 .. MaxEvents /\ events' = events + 2
    BY <1>4 DEF LoseSession, Event
  <2>5. login' = "shaking" /\ page' = page /\ carried' = carried /\ foreign' = foreign
    BY <1>4 DEF LoseSession
  <2>6. TypeOK'
    BY <2>1, <2>2, <2>3, <2>4, <2>5 DEF GoneType, page
  <2>7. Held'
    BY <2>3, <2>4, <2>5, EventsGrow DEF GoneType, page
  <2> QED
    BY <2>6, <2>7
<1> QED
  BY <1>1, <1>2, <1>3, <1>4

LEMMA RoomTypes == TypeInv /\ (LeaveRoom \/ \E r \in Rooms : JoinRoom(r)) => TypeInv'
<1> SUFFICES ASSUME TypeInv, LeaveRoom \/ \E r \in Rooms : JoinRoom(r)
             PROVE  TypeInv'
  OBVIOUS
<1>1. Leaving \in Seq(Messages)
  BY LeavingType DEF TypeInv
<1>2. CASE LeaveRoom
  <2>1. sent' \in Seq(Messages)
    BY <1>1, <1>2 DEF LeaveRoom, TypeInv, TypeOK
  <2>2. gaps' \in SUBSET Gaps
    BY <1>2 DEF LeaveRoom, TypeInv, TypeOK, Gaps
  <2>3. listeners' = Released(handle)
    BY <1>2 DEF LeaveRoom
  <2>4. listeners' \in [Rooms -> 0 .. MaxEvents] /\ \A r \in Rooms : listeners'[r] <= events
    BY <2>3, ReleasedType
  <2>5. events' = events + 1 /\ events' \in 0 .. MaxEvents
    BY <1>2, ClientAssumption DEF LeaveRoom, Click, Event, TypeInv, TypeOK
  <2>6. TypeOK'
    BY <1>2, <2>1, <2>2, <2>4, <2>5 DEF LeaveRoom, TypeInv, TypeOK, server, handler,
         former
  <2>7. \A r \in Rooms : listeners'[r] <= events'
    BY <2>4, <2>5 DEF TypeInv, TypeOK
  <2>8. Held'
    BY <1>2, <2>5, <2>7 DEF LeaveRoom, TypeInv, TypeOK, Held, Click, server, handler
  <2> QED
    BY <2>6, <2>8 DEF TypeInv
<1>3. CASE \E r \in Rooms : JoinRoom(r)
  <2>1. PICK r \in Rooms : JoinRoom(r)
    BY <1>3
  <2> DEFINE left == IF room = NoRoom THEN listeners ELSE Released(handle)
  <2>2. /\ left \in [Rooms -> 0 .. MaxEvents]
        /\ \A x \in Rooms : left[x] <= events
    BY ReleasedType DEF TypeInv, TypeOK, Held
  <2>3. /\ listeners' = [left EXCEPT ![r] = @ + 1]
        /\ sent' = sent \o Leaving \o Subscribe(r, left) \o <<[type |-> "join", room |-> r]>>
    BY <2>1 DEF JoinRoom, Join
  <2> HIDE DEF left
  <2>4. sent' \in Seq(Messages)
    <3>1. Subscribe(r, left) \in Seq(Messages)
      BY SubscribeType
    <3>2. [type |-> "join", room |-> r] \in Messages
      BY SentRoom
    <3> QED
      BY <1>1, <2>3, <3>1, <3>2 DEF TypeInv, TypeOK
  <2>5. gaps' \in SUBSET Gaps
    BY <2>1 DEF JoinRoom, Join, TypeInv, TypeOK, Gaps
  <2>6. events' = events + 1 /\ events' \in 0 .. MaxEvents /\ handle' = r /\ login' = "in"
    <3>1. Click /\ handle' = r /\ login' = login
      BY <2>1 DEF JoinRoom, Join
    <3>2. events \in 0 .. MaxEvents
      BY DEF TypeInv, TypeOK
    <3> QED
      BY <3>1, <3>2, ClientAssumption DEF Click, Event
  <2>7. /\ listeners' \in [Rooms -> 0 .. MaxEvents]
        /\ \A x \in Rooms : listeners'[x] <= events'
        /\ listeners'[r] > 0
    <3>1. /\ DOMAIN listeners' = Rooms
          /\ listeners' = [x \in Rooms |-> IF x = r THEN left[x] + 1 ELSE left[x]]
      BY <2>2, <2>3
    <3>2. events \in Nat /\ events + 1 <= MaxEvents
      BY <2>6, ClientAssumption DEF TypeInv, TypeOK
    <3>3. ASSUME NEW x \in Rooms
          PROVE  listeners'[x] \in 0 .. MaxEvents /\ listeners'[x] <= events'
      <4>1. left[x] \in 0 .. MaxEvents /\ left[x] <= events
        BY <2>2
      <4>2. listeners'[x] = left[x] \/ listeners'[x] = left[x] + 1
        BY <3>1
      <4> QED
        BY <4>1, <4>2, <3>2, <2>6, ClientAssumption
    <3>4. listeners'[r] = left[r] + 1 /\ left[r] \in 0 .. MaxEvents
      BY <2>2, <3>1
    <3> QED
      BY <3>1, <3>3, <3>4, ClientAssumption
  <2> QED
    <3>1. /\ UNCHANGED <<login, room, members, listed, exits, title, form, inbox, server, carried,
                       foreign, ghosts, misled>>
          /\ enabled' = (enabled /\ room = NoRoom) /\ MayJoin(r)
      BY <2>1 DEF JoinRoom, Join
    <3>2. TypeOK'
      <4>1. enabled' \in BOOLEAN
        BY <3>1
      <4> QED
        BY <2>4, <2>5, <2>6, <2>7, <3>1, <4>1 DEF TypeInv, TypeOK, server, handler, former
    <3>3. Held'
      BY <2>6, <2>7, <3>1 DEF TypeInv, TypeOK, Held, server, handler
    <3> QED
      BY <3>2, <3>3 DEF TypeInv
<1> QED
  BY <1>2, <1>3

LEMMA FormTypes ==
  TypeInv /\ (OpenNewRoom \/ CreateRoom \/ CancelNewRoom \/ OpenEdit \/ SaveRoom \/ CancelEdit
                \/ SendText) => TypeInv'
<1> SUFFICES ASSUME TypeInv,
                    OpenNewRoom \/ CreateRoom \/ CancelNewRoom \/ OpenEdit \/ SaveRoom
                      \/ CancelEdit \/ SendText
             PROVE  TypeInv'
  OBVIOUS
<1>1. /\ UNCHANGED <<login, room, members, handle, listeners, enabled, listed, exits, title, inbox,
                     server, history>>
      /\ Click
  BY DEF OpenNewRoom, CreateRoom, CancelNewRoom, OpenEdit, SaveRoom, CancelEdit, SendText,
         SetRoomName, page
<1>2. /\ sent \in Seq(Messages) /\ form \in SUBSET {"new", "edit"}
      /\ title \in Rooms \cup {NoRoom} /\ room \in Rooms \cup {NoRoom}
      /\ "edit" \in form => title # NoRoom
  BY DEF TypeInv, TypeOK, Held
<1>3. /\ sent' \in Seq(Messages) /\ form' \in SUBSET {"new", "edit"}
      /\ "edit" \in form' => title # NoRoom
  <2>1. CASE OpenNewRoom \/ CancelNewRoom \/ OpenEdit \/ CancelEdit
    BY <1>2, <2>1 DEF OpenNewRoom, CancelNewRoom, OpenEdit, CancelEdit, SetRoomName
  <2>2. CASE CreateRoom
    <3>1. [type |-> "create"] \in Messages
      BY DEF Messages
    <3> QED
      BY <1>2, <2>2, <3>1 DEF CreateRoom, page
  <2>3. CASE SaveRoom
    <3>1. [type |-> "edit", room |-> title] \in Messages
      BY <1>2, <2>3, SentRoom DEF SaveRoom
    <3> QED
      BY <1>2, <2>3, <3>1 DEF SaveRoom, page
  <2>4. CASE SendText
    <3>1. [type |-> "chat", room |-> room] \in Messages
      BY <1>2, <2>4, SentRoom DEF SendText
    <3> QED
      BY <1>2, <2>4, <3>1 DEF SendText, page
  <2> QED
    BY <2>1, <2>2, <2>3, <2>4
<1>4. events' \in 0 .. MaxEvents /\ events' >= events
  BY <1>1, ClientAssumption DEF TypeInv, TypeOK, Click, Event
<1>5. TypeOK'
  BY <1>1, <1>3, <1>4 DEF TypeInv, TypeOK, server, handler, former, history
<1>6. Held'
  BY <1>1, <1>3, <1>4, EventsGrow DEF TypeInv, Held, server, handler
<1> QED
  BY <1>5, <1>6 DEF TypeInv

\* What the client hears.
LEMMA HearTypes == TypeInv /\ ClientStep => TypeInv'
<1> SUFFICES ASSUME TypeInv, ClientStep PROVE TypeInv'
  OBVIOUS
<1>1. CASE Handshake
  BY <1>1, LoginTypes
<1> DEFINE m == Head(inbox)
<1> SUFFICES ASSUME OnMembers \/ OnRoomJoined \/ OnRoomLeft \/ OnRoomEdit \/ OnRoomCreate
                      \/ OnRooms \/ OnStatus
             PROVE  TypeInv'
  BY <1>1 DEF ClientStep
<1>2. PICK type : Hear(type)
  BY DEF OnMembers, OnRoomJoined, OnRoomLeft, OnRoomEdit, OnRoomCreate, OnRooms, OnStatus
<1>3. m \in Answers /\ inbox' \in Seq(Answers)
  BY <1>2, Shorter DEF Hear, TypeInv, TypeOK
<1>4. /\ m.type \in {"joined", "left", "edited", "members"} => m.room \in Rooms
      /\ m.type = "members" => m.action \in {"join", "leave"} /\ m.users \in SUBSET Users
  BY <1>3, AnswerFields
<1>5. /\ login' = login /\ sent' = sent /\ events' = events /\ subs' = subs /\ roster' = roster
      /\ edited' = edited /\ doing' = doing /\ about' = about /\ merged' = merged
      /\ removing' = removing /\ late' = late /\ news' = news
  BY <1>2 DEF Hear, server, handler, former
<1> DEFINE PageType ==
             /\ room' \in Rooms \cup {NoRoom} /\ handle' = handle /\ title' \in Rooms \cup {NoRoom}
             /\ members' \in SUBSET Users /\ listeners' = listeners
             /\ enabled' \in BOOLEAN /\ listed' \in BOOLEAN /\ exits' \in SUBSET Rooms
             /\ form' \in SUBSET {"new", "edit"} /\ ("edit" \in form' => title' # NoRoom)
             /\ carried' = carried /\ foreign' = foreign /\ ghosts' = ghosts /\ misled' = misled
             /\ gaps' \in SUBSET Gaps
<1>6. SUFFICES PageType
  <2>1. TypeOK'
    BY <1>3, <1>5, <1>6 DEF TypeInv, TypeOK
  <2>2. Held'
    BY <1>5, <1>6 DEF TypeInv, Held
  <2> QED
    BY <2>1, <2>2 DEF TypeInv
<1>7. /\ room \in Rooms \cup {NoRoom} /\ title \in Rooms \cup {NoRoom}
      /\ members \in SUBSET Users /\ enabled \in BOOLEAN /\ listed \in BOOLEAN
      /\ exits \in SUBSET Rooms /\ form \in SUBSET {"new", "edit"}
      /\ "edit" \in form => title # NoRoom
      /\ gaps \in SUBSET Gaps
  BY DEF TypeInv, TypeOK, Held
<1> USE DEF Hear, history, SetRoomName
<1>8. CASE OnMembers
  BY <1>4, <1>7, <1>8 DEF OnMembers, Shown
<1>9. CASE OnRoomJoined
  BY <1>4, <1>7, <1>9, ClientAssumption DEF OnRoomJoined
<1>10. CASE OnRoomLeft
  BY <1>4, <1>7, <1>10 DEF OnRoomLeft
<1>11. CASE OnRoomEdit
  BY <1>4, <1>7, <1>11, ClientAssumption DEF OnRoomEdit, Gaps
<1>12. CASE OnRoomCreate
  BY <1>7, <1>12 DEF OnRoomCreate
<1>13. CASE OnRooms
  BY <1>7, <1>13 DEF OnRooms
<1>14. CASE OnStatus
  BY <1>7, <1>14 DEF OnStatus, page
<1> QED
  BY <1>8, <1>9, <1>10, <1>11, <1>12, <1>13, <1>14

LEMMA AnswerType ==
  ASSUME TypeInv, NEW ms \in Seq(Answers), Answer(ms)
  PROVE  inbox' \in Seq(Answers)
<1>1. inbox' = inbox \o ms /\ inbox \in Seq(Answers)
  BY DEF Answer, TypeInv, TypeOK
<1> QED
  BY <1>1

LEMMA TellType ==
  ASSUME TypeInv, NEW action, NEW r \in Rooms, NEW u \in Users, Tell(action, r, u)
  PROVE  misled' \in SUBSET (Rooms \X Users)
<1>1. misled \in SUBSET (Rooms \X Users) /\ <<r, u>> \in Rooms \X Users
  BY DEF TypeInv, TypeOK
<1> QED
  BY <1>1 DEF Tell

\* What the server does for the session.
LEMMA ServerTypes == TypeInv /\ ServerStep => TypeInv'
<1> SUFFICES ASSUME TypeInv, ServerStep PROVE TypeInv'
  OBVIOUS
<1> DEFINE m == Head(sent)
<1> SUFFICES /\ sent' \in Seq(Messages) /\ inbox' \in Seq(Answers)
             /\ subs' \in SUBSET Rooms /\ roster' \in [Rooms -> SUBSET Users]
             /\ edited' \in SUBSET Rooms
             /\ doing' \in {"none", "joined", "merge", "deliver", "left"}
             /\ about' \in Rooms \cup {NoRoom} /\ merged' \in SUBSET Users
             /\ doing' # "none" => about' \in Rooms
             /\ ghosts' \in SUBSET Rooms /\ misled' \in SUBSET (Rooms \X Users)
             /\ gaps' \in SUBSET Gaps /\ carried' \in SUBSET Users /\ foreign' \in BOOLEAN
             /\ events' = events /\ former' = former /\ news' = news
             /\ login' = login /\ page' = page
  BY DEF TypeInv, TypeOK, Held, page, former
<1>0. /\ sent \in Seq(Messages) /\ inbox \in Seq(Answers)
      /\ subs \in SUBSET Rooms /\ roster \in [Rooms -> SUBSET Users]
      /\ edited \in SUBSET Rooms
      /\ doing \in {"none", "joined", "merge", "deliver", "left"}
      /\ about \in Rooms \cup {NoRoom} /\ merged \in SUBSET Users
      /\ doing # "none" => about \in Rooms
      /\ ghosts \in SUBSET Rooms /\ misled \in SUBSET (Rooms \X Users)
      /\ gaps \in SUBSET Gaps /\ carried \in SUBSET Users /\ foreign \in BOOLEAN
      /\ members \in SUBSET Users
  BY DEF TypeInv, TypeOK, Held
<1> USE <1>0 DEF server, handler, history
<1>1. \A type : Handle(type) =>
        /\ m \in Messages /\ sent' \in Seq(Messages) /\ m.type = type
        /\ m.type # "create" => m.room \in Rooms
        /\ events' = events /\ login' = login /\ page' = page
  BY Shorter, MessageFields DEF Handle
<1>2. /\ [type |-> "status"] \in Answers /\ [type |-> "rooms"] \in Answers
      /\ [type |-> "created"] \in Answers
  BY AnsweredPlain
<1>11. Answer(<<[type |-> "status"]>>) => inbox' \in Seq(Answers)
  <2>1. <<[type |-> "status"]>> \in Seq(Answers)
    BY <1>2
  <2> QED
    BY <2>1, AnswerType
<1>3. CASE HandleSubscription
  <2>1. m.room \in Rooms
    BY <1>1, <1>3 DEF HandleSubscription
  <2>4. subs' \in SUBSET Rooms
    BY <1>3, <2>1 DEF HandleSubscription
  <2>2. Named(m.room) \in SUBSET Users
    <3>1. \A i \in DOMAIN inbox : inbox[i] \in Answers
      OBVIOUS
    <3> QED
      BY <3>1, AnswerFields DEF Named
  <2>3. carried' \in SUBSET Users
    BY <1>3, <2>2 DEF HandleSubscription
  <2> QED
    BY <1>1, <1>3, <2>3, <2>4 DEF HandleSubscription
<1>4. CASE HandleJoin
  <2>1. m.room \in Rooms /\ Handle("join")
    BY <1>1, <1>4 DEF HandleJoin
  <2>2. roster' \in [Rooms -> SUBSET Users]
    <3>1. roster' = [roster EXCEPT ![m.room] = @ \cup {Me}] \/ roster' = roster
      BY <1>4 DEF HandleJoin
    <3> QED
      BY <3>1, <2>1, ClientAssumption
  <2>3. inbox' \in Seq(Answers)
    <3>1. Answer(<<[type |-> "status"]>>) \/ inbox' = inbox
      BY <1>4 DEF HandleJoin
    <3> QED
      BY <1>11, <3>1
  <2>4. gaps' \in SUBSET Gaps /\ ghosts' \in SUBSET Rooms
    BY <1>4 DEF HandleJoin, Gaps
  <2> QED
    BY <1>1, <1>4, <2>1, <2>2, <2>3, <2>4 DEF HandleJoin
<1>5. CASE HandleLeave
  <2>1. m.room \in Rooms /\ Handle("leave")
    BY <1>1, <1>5 DEF HandleLeave
  <2>2. roster' \in [Rooms -> SUBSET Users]
    BY <1>5, <2>1 DEF HandleLeave
  <2>3. inbox' \in Seq(Answers)
    <3>1. Answer(<<[type |-> "status"]>>) \/ inbox' = inbox
      BY <1>5 DEF HandleLeave
    <3> QED
      BY <1>11, <3>1
  <2>4. gaps' \in SUBSET Gaps /\ ghosts' \in SUBSET Rooms
    BY <1>5 DEF HandleLeave, Gaps
  <2> QED
    BY <1>1, <1>5, <2>1, <2>2, <2>3, <2>4 DEF HandleLeave
<1>6. CASE HandleEdit
  <2>1. m.room \in Rooms /\ Handle("edit")
    BY <1>1, <1>6 DEF HandleEdit
  <2>2. inbox' \in Seq(Answers)
    <3>1. Answer(<<[type |-> "status"]>>) \/ inbox' = inbox
      BY <1>6 DEF HandleEdit
    <3> QED
      BY <1>11, <3>1
  <2> QED
    BY <1>1, <1>6, <2>1, <2>2 DEF HandleEdit
<1>7. CASE AnswerEdit
  <2>1. PICK r \in Rooms : /\ edited' = edited \ {r}
                           /\ Answer(<<[type |-> "edited", room |-> r], [type |-> "rooms"]>>)
    BY <1>7 DEF AnswerEdit
  <2>2. [type |-> "edited", room |-> r] \in Answers
    BY AnsweredRoom
  <2>3. inbox' \in Seq(Answers)
    BY <1>2, <2>1, <2>2 DEF Answer
  <2> QED
    BY <1>7, <2>1, <2>3 DEF AnswerEdit
<1>8. CASE HandleCreate
  <2>1. inbox' \in Seq(Answers)
    BY <1>2, <1>8 DEF HandleCreate, Answer
  <2> QED
    BY <1>1, <1>8, <2>1 DEF HandleCreate
<1>9. CASE HandleChat
  BY <1>1, <1>9 DEF HandleChat
<1>10. CASE JoinHandled
  <2>1. about \in Rooms
    BY <1>10 DEF JoinHandled
  <2> DEFINE ms == Told(about, "join", {Me}) \o <<[type |-> "joined", room |-> about]>>
  <2>2. ms \in Seq(Answers)
    <3>1. Told(about, "join", {Me}) \in Seq(Answers)
      BY <2>1, ToldType, ClientAssumption
    <3>2. [type |-> "joined", room |-> about] \in Answers
      BY <2>1, AnsweredRoom
    <3> QED
      BY <3>1, <3>2
  <2>3. Answer(ms) /\ Tell("join", about, Me)
    BY <1>10 DEF JoinHandled
  <2> HIDE DEF ms
  <2>4. inbox' \in Seq(Answers) /\ misled' \in SUBSET (Rooms \X Users)
    BY <2>1, <2>2, <2>3, AnswerType, TellType, ClientAssumption
  <2> QED
    BY <1>10, <2>1, <2>4 DEF JoinHandled
<1>12. CASE LeaveHandled
  <2>1. about \in Rooms
    BY <1>12 DEF LeaveHandled
  <2> DEFINE ms == Told(about, "leave", {Me}) \o <<[type |-> "left", room |-> about]>>
  <2>2. ms \in Seq(Answers)
    <3>1. Told(about, "leave", {Me}) \in Seq(Answers)
      BY <2>1, ToldType, ClientAssumption
    <3>2. [type |-> "left", room |-> about] \in Answers
      BY <2>1, AnsweredRoom
    <3> QED
      BY <3>1, <3>2
  <2>3. Answer(ms) /\ Tell("leave", about, Me)
    BY <1>12 DEF LeaveHandled
  <2> HIDE DEF ms
  <2>4. inbox' \in Seq(Answers) /\ misled' \in SUBSET (Rooms \X Users)
    BY <2>1, <2>2, <2>3, AnswerType, TellType, ClientAssumption
  <2> QED
    BY <1>12, <2>1, <2>4 DEF LeaveHandled
<1>13. CASE MergeMembers
  <2>1. about \in Rooms /\ merged' = roster[about]
    BY <1>13 DEF MergeMembers
  <2> QED
    BY <1>13, <2>1 DEF MergeMembers
<1>14. CASE DeliverMembers
  <2>1. about \in Rooms
    BY <1>14 DEF DeliverMembers
  <2> DEFINE a == [type |-> "members", room |-> about, action |-> "join", users |-> merged]
  <2>2. a \in Answers
    BY <2>1, AnsweredMembers
  <2>3. Answer(<<a>>)
    BY <1>14 DEF DeliverMembers
  <2> HIDE DEF a
  <2>4. inbox' \in Seq(Answers)
    <3>1. <<a>> \in Seq(Answers)
      BY <2>2
    <3> QED
      BY <2>3, <3>1, AnswerType
  <2>5. misled' \in SUBSET (Rooms \X Users)
    BY <1>14, <2>1 DEF DeliverMembers
  <2> QED
    BY <1>14, <2>4, <2>5 DEF DeliverMembers
<1> QED
  BY <1>3, <1>4, <1>5, <1>6, <1>7, <1>8, <1>9, <1>10, <1>12, <1>13, <1>14 DEF ServerStep

LEMMA UntoldNews ==
  ASSUME NEW action \in {"join", "leave"}, NEW r \in Rooms, NEW u \in Users
  PROVE  Untold(action, r, u) \in News
  BY DEF Untold, News

LEMMA TellsType ==
  ASSUME TypeInv, NEW action \in {"join", "leave"}, NEW r \in Rooms, NEW u \in Users,
         Tells(action, r, u)
  PROVE  /\ news' \in [News -> Nat]
         /\ \A m \in News : news'[m] = IF m = Untold(action, r, u) THEN news[m] + 1 ELSE news[m]
<1> DEFINE k == Untold(action, r, u)
<1>1. k \in News /\ news \in [News -> Nat]
  BY UntoldNews DEF TypeInv, TypeOK
<1>2. news' = [news EXCEPT ![k] = @ + 1]
  BY DEF Tells
<1> HIDE DEF k
<1>3. /\ news' \in [News -> Nat]
      /\ \A m \in News : news'[m] = IF m = k THEN news[m] + 1 ELSE news[m]
  BY <1>1, <1>2
<1> QED
  BY <1>3 DEF k

\* What its other threads do.
LEMMA OtherTypes == TypeInv /\ OtherStep => TypeInv'
<1> SUFFICES ASSUME TypeInv, OtherStep PROVE TypeInv'
  OBVIOUS
<1>0. /\ removing \in [Rooms -> Nat] /\ late \in [Rooms -> Nat] /\ news \in [News -> Nat]
      /\ roster \in [Rooms -> SUBSET Users] /\ ghosts \in SUBSET Rooms
      /\ misled \in SUBSET (Rooms \X Users) /\ inbox \in Seq(Answers)
      /\ events \in 0 .. MaxEvents
  BY DEF TypeInv, TypeOK
<1>1. SUFFICES /\ inbox' \in Seq(Answers) /\ roster' \in [Rooms -> SUBSET Users]
               /\ removing' \in [Rooms -> Nat] /\ late' \in [Rooms -> Nat]
               /\ news' \in [News -> Nat]
               /\ ghosts' \in SUBSET Rooms /\ misled' \in SUBSET (Rooms \X Users)
               /\ events' \in 0 .. MaxEvents /\ events' >= events
               /\ UNCHANGED <<login, page, sent, subs, edited, handler, gaps, carried, foreign>>
  <2>1. TypeOK'
    BY <1>1 DEF TypeInv, TypeOK, page, handler
  <2>2. Held'
    <3>1. /\ login' = login /\ handle' = handle /\ listeners' = listeners /\ form' = form
          /\ title' = title /\ doing' = doing /\ about' = about
      BY <1>1 DEF page, handler
    <3>2. listeners \in [Rooms -> 0 .. MaxEvents] /\ Held
      BY DEF TypeInv, TypeOK
    <3>3. \A r \in Rooms : listeners'[r] <= events'
      BY <1>0, <1>1, <3>1, <3>2, ClientAssumption DEF Held
    <3>4. events > 0 => events' > 0
      BY <1>0, <1>1, ClientAssumption
    <3> QED
      BY <3>1, <3>2, <3>3, <3>4 DEF Held
  <2> QED
    BY <2>1, <2>2 DEF TypeInv
<1>2. CASE Move
  <2>1. PICK u \in Users \ {Me}, r \in Rooms :
          \/ roster' = [roster EXCEPT ![r] = @ \ {u}] /\ Tells("leave", r, u)
          \/ roster' = [roster EXCEPT ![r] = @ \cup {u}] /\ Tells("join", r, u)
    BY <1>2 DEF Move
  <2>2. roster' \in [Rooms -> SUBSET Users]
    BY ZenonT(30), <1>0, <2>1
  <2>3. news' \in [News -> Nat]
    BY <2>1, TellsType
  <2>4. events' \in 0 .. MaxEvents /\ events' >= events
    BY <1>0, <1>2, ClientAssumption DEF Move, Event
  <2> QED
    BY <1>0, <1>2, <2>2, <2>3, <2>4 DEF Move, former, history
<1>3. ASSUME NEW r \in Rooms, RemoveMe(r)
      PROVE  /\ inbox' \in Seq(Answers) /\ roster' \in [Rooms -> SUBSET Users]
             /\ removing' \in [Rooms -> Nat] /\ late' \in [Rooms -> Nat]
             /\ news' \in [News -> Nat]
             /\ ghosts' \in SUBSET Rooms /\ misled' \in SUBSET (Rooms \X Users)
             /\ events' \in 0 .. MaxEvents /\ events' >= events
             /\ UNCHANGED <<login, page, sent, subs, edited, handler, gaps, carried, foreign>>
  <2>1. news' \in [News -> Nat]
    BY <1>3, TellsType, ClientAssumption DEF RemoveMe
  <2>2. removing' \in [Rooms -> Nat]
    BY <1>0, <1>3 DEF RemoveMe
  <2>3. roster' \in [Rooms -> SUBSET Users]
    BY <1>0, <1>3 DEF RemoveMe
  <2>4. inbox' = inbox /\ late' = late /\ misled' = misled /\ events' = events
    BY <1>3 DEF RemoveMe
  <2>5. events >= events
    BY <1>0
  <2>6. ghosts' \in SUBSET Rooms
    BY <1>0, <1>3 DEF RemoveMe
  <2>7. UNCHANGED <<login, page, sent, subs, edited, handler, gaps, carried, foreign>>
    BY <1>3 DEF RemoveMe
  <2> QED
    BY <1>0, <2>1, <2>2, <2>3, <2>4, <2>5, <2>6, <2>7
<1>4. ASSUME NEW r \in Rooms, LateJoin(r)
      PROVE  /\ inbox' \in Seq(Answers) /\ roster' \in [Rooms -> SUBSET Users]
             /\ removing' \in [Rooms -> Nat] /\ late' \in [Rooms -> Nat]
             /\ news' \in [News -> Nat]
             /\ ghosts' \in SUBSET Rooms /\ misled' \in SUBSET (Rooms \X Users)
             /\ events' \in 0 .. MaxEvents /\ events' >= events
             /\ UNCHANGED <<login, page, sent, subs, edited, handler, gaps, carried, foreign>>
  <2>1. news' \in [News -> Nat]
    BY <1>4, TellsType, ClientAssumption DEF LateJoin
  <2>2. late' \in [Rooms -> Nat]
    BY <1>0, <1>4 DEF LateJoin
  <2>3. roster' \in [Rooms -> SUBSET Users]
    BY <1>0, <1>4, ClientAssumption DEF LateJoin
  <2>4. inbox' = inbox /\ removing' = removing /\ misled' = misled /\ events' = events
    BY <1>4 DEF LateJoin
  <2>5. events >= events
    BY <1>0
  <2>6. ghosts' \in SUBSET Rooms
    BY <1>0, <1>4 DEF LateJoin
  <2>7. UNCHANGED <<login, page, sent, subs, edited, handler, gaps, carried, foreign>>
    BY <1>4 DEF LateJoin
  <2> QED
    BY <1>0, <2>1, <2>2, <2>3, <2>4, <2>5, <2>6, <2>7
<1>5. CASE Spread
  <2>1. PICK m \in News : /\ news[m] > 0 /\ news' = [news EXCEPT ![m] = @ - 1]
                          /\ Tell(m.action, m.room, m.user)
                          /\ Answer(Told(m.room, m.action, {m.user}))
    BY <1>5 DEF Spread
  <2>2. m.action \in {"join", "leave"} /\ m.room \in Rooms /\ m.user \in Users
    BY DEF News
  <2>3. inbox' \in Seq(Answers) /\ misled' \in SUBSET (Rooms \X Users)
    BY <2>1, <2>2, ToldType, AnswerType, TellType
  <2>4. news' \in [News -> Nat]
    BY <1>0, <2>1
  <2>5. roster' = roster /\ removing' = removing /\ late' = late /\ ghosts' = ghosts
        /\ events' = events
    BY <1>5 DEF Spread, former
  <2>6. events >= events
    BY <1>0
  <2>7. UNCHANGED <<login, page, sent, subs, edited, handler, gaps, carried, foreign>>
    BY <1>5 DEF Spread
  <2> QED
    BY <1>0, <2>3, <2>4, <2>5, <2>6, <2>7
<1> QED
  BY <1>2, <1>3, <1>4, <1>5 DEF OtherStep

LEMMA TypeStep == TypeInv /\ [Next]_vars => TypeInv'
<1> SUFFICES ASSUME TypeInv, [Next]_vars PROVE TypeInv'
  OBVIOUS
<1>1. CASE UserStep
  BY <1>1, LoginTypes, RoomTypes, FormTypes DEF UserStep
<1>2. CASE UNCHANGED vars
  BY <1>2 DEF vars, page, server, handler, former, history, TypeInv, TypeOK, Held
<1> QED
  BY <1>1, <1>2, HearTypes, ServerTypes, OtherTypes, LoginTypes DEF Next

LEMMA Typed == Spec => []TypeInv
  BY InitTypes, TypeStep, PTL DEF Spec

\* Every variable keeps its type; that the client never gives up a
\* subscription that it does not hold keeps the count of listeners natural.
THEOREM TypeCorrect == Spec => []TypeOK
<1>1. TypeInv => TypeOK
  BY DEF TypeInv
<1> QED
  BY <1>1, Typed, PTL

-----------------------------------------------------------------------------
\* Without a session.

LEMMA SessionStep ==
  TypeInv /\ NoSession /\ LoggedOut /\ [Next]_vars => NoSession' /\ LoggedOut'
<1> SUFFICES ASSUME TypeInv, NoSession, LoggedOut, [Next]_vars
             PROVE  NoSession' /\ LoggedOut'
  OBVIOUS
<1> USE DEF NoSession, LoggedOut
<1>1. CASE Login
  BY <1>1 DEF Login, server, handler
<1>2. CASE Logout
  BY <1>2 DEF Logout, Gone
<1>3. CASE LoseSession
  BY <1>3 DEF LoseSession, Gone, page
<1>4. CASE Handshake
  BY <1>4 DEF Handshake
<1>5. CASE OtherStep
  <2>1. UNCHANGED <<login, page, sent, subs, edited, handler>>
    BY <1>5 DEF OtherStep, Move, RemoveMe, LateJoin, Spread
  <2>2. login # "in" => inbox' = <<>>
    <3> SUFFICES ASSUME login # "in" PROVE inbox' = <<>>
      OBVIOUS
    <3>1. CASE Spread
      <4>1. PICK m \in News : Answer(Told(m.room, m.action, {m.user}))
        BY <3>1 DEF Spread
      <4>2. Told(m.room, m.action, {m.user}) = <<>> /\ inbox = <<>>
        BY DEF Told
      <4> QED
        BY <4>1, <4>2 DEF Answer
    <3>2. CASE ~ Spread
      BY <1>5, <3>2 DEF OtherStep, Move, RemoveMe, LateJoin
    <3> QED
      BY <3>1, <3>2
  <2> QED
    BY <2>1, <2>2 DEF page, handler
<1>6. CASE /\ login = "in" /\ login' = "in"
  BY <1>6
<1>7. CASE UNCHANGED vars
  BY <1>7 DEF vars, page, server, handler
<1>8. CASE /\ UserStep /\ ~ Login /\ ~ Logout
  <2>1. login = "in" /\ login' = login
    BY <1>8 DEF UserStep, LeaveRoom, JoinRoom, Join, OpenNewRoom, CreateRoom, CancelNewRoom,
                OpenEdit, SaveRoom, CancelEdit, SendText, Click
  <2> QED
    BY <1>6, <2>1
<1>9. CASE ClientStep /\ ~ Handshake
  <2>1. login = "in" /\ login' = login
    BY <1>9 DEF ClientStep, OnMembers, OnRoomJoined, OnRoomLeft, OnRoomEdit, OnRoomCreate,
                OnRooms, OnStatus, Hear
  <2> QED
    BY <1>6, <2>1
<1>10. CASE ServerStep
  <2>1. login = "in" \/ doing # "none"
    BY <1>10 DEF ServerStep, HandleSubscription, HandleJoin, JoinHandled, MergeMembers,
                 DeliverMembers, HandleLeave, LeaveHandled, HandleEdit, AnswerEdit, HandleCreate,
                 HandleChat, Handle
  <2>2. login' = login
    BY <1>10 DEF ServerStep, HandleSubscription, HandleJoin, JoinHandled, MergeMembers,
                 DeliverMembers, HandleLeave, LeaveHandled, HandleEdit, AnswerEdit, HandleCreate,
                 HandleChat, Handle
  <2> QED
    BY <1>6, <2>1, <2>2
<1> QED
  BY <1>1, <1>2, <1>3, <1>4, <1>5, <1>7, <1>8, <1>9, <1>10 DEF Next

-----------------------------------------------------------------------------
\* One leave and one join at a time.

LEMMA Single ==
  ASSUME NEW m
  PROVE  /\ Range(<<m>>) = {m} /\ Types(<<m>>) = {m.type}
         /\ \A pairs : Never(<<m>>, pairs)
<1>1. DOMAIN <<m>> = {1} /\ <<m>>[1] = m
  OBVIOUS
<1>2. Range(<<m>>) = {m}
  BY <1>1 DEF Range
<1>3. Types(<<m>>) = {m.type}
  BY <1>2 DEF Types
<1>4. \A pairs : Never(<<m>>, pairs)
  BY <1>1 DEF Never
<1> QED
  BY <1>2, <1>3, <1>4

LEMMA LongerByOne ==
  ASSUME NEW S, NEW q \in Seq(S), NEW m \in S
  PROVE  /\ q \o <<m>> \in Seq(S)
         /\ Range(q \o <<m>>) = Range(q) \cup {m}
         /\ Types(q \o <<m>>) = Types(q) \cup {m.type}
         /\ \A pairs : Never(q, pairs) /\ (\A s \in Types(q) : <<s, m.type>> \notin pairs)
                       => Never(q \o <<m>>, pairs)
<1> DEFINE p == <<m>>
<1>1. p \in Seq(S) /\ Range(p) = {m} /\ Types(p) = {m.type} /\ \A pairs : Never(p, pairs)
  BY Single
<1> HIDE DEF p
<1>2. /\ q \o p \in Seq(S)
      /\ Range(q \o p) = Range(q) \cup {m}
      /\ Types(q \o p) = Types(q) \cup {m.type}
      /\ \A pairs : Never(q, pairs) /\ (\A s \in Types(q) : <<s, m.type>> \notin pairs)
                    => Never(q \o p, pairs)
  BY <1>1, Longer
<1> QED
  BY <1>2 DEF p

\* What tells the server that the client leaves.
LEMMA LeavingShape ==
  ASSUME TypeOK, room # NoRoom
  PROVE  /\ Leaving \in Seq(Messages) /\ Never(Leaving, SentOrder)
         /\ "leave" \in Types(Leaving) /\ Types(Leaving) \subseteq {"leave", "unsubscribe"}
         /\ \A m \in Range(Leaving) : m.type = "leave" => m.room = room
<1> DEFINE m == [type |-> "leave", room |-> room]
           u == [type |-> "unsubscribe", room |-> handle]
<1>1. m \in Messages /\ m.type = "leave" /\ m.room = room
  BY SentRoom DEF TypeOK
<1>2. Unsubscribe(handle) \in Seq(Messages) /\ Leaving = <<m>> \o Unsubscribe(handle)
  BY LeavingType DEF Leaving
<1>3. /\ Types(Unsubscribe(handle)) \subseteq {"unsubscribe"}
      /\ Never(Unsubscribe(handle), SentOrder)
      /\ \A k \in Range(Unsubscribe(handle)) : k.type = "unsubscribe"
  BY EmptyQueue, Single DEF Unsubscribe
<1> HIDE DEF m
<1> DEFINE q == <<m>>
<1>4. q \in Seq(Messages) /\ Range(q) = {m} /\ Types(q) = {"leave"} /\ Never(q, SentOrder)
  BY <1>1, Single
<1>7. Leaving = q \o Unsubscribe(handle)
  BY <1>2
<1> HIDE DEF q
<1> DEFINE e == Unsubscribe(handle)
<1> HIDE DEF e
<1>8. /\ q \o e \in Seq(Messages)
      /\ Range(q \o e) = Range(q) \cup Range(e)
      /\ Types(q \o e) = Types(q) \cup Types(e)
  <2>1. e \in Seq(Messages)
    BY <1>2 DEF e
  <2> QED
    BY ONLY <1>4, <2>1, Longer
<1>5. /\ Leaving \in Seq(Messages)
      /\ Range(Leaving) = {m} \cup Range(Unsubscribe(handle))
      /\ Types(Leaving) = {"leave"} \cup Types(Unsubscribe(handle))
  BY ONLY <1>4, <1>7, <1>8 DEF e
<1>6. Never(Leaving, SentOrder)
  <2>1. \A s \in Types(q), t \in Types(Unsubscribe(handle)) : <<s, t>> \notin SentOrder
    BY <1>3, <1>4 DEF SentOrder
  <2> QED
    BY <1>2, <1>3, <1>4, <1>7, <2>1, Longer
<1> QED
  BY <1>1, <1>3, <1>5, <1>6

\* What is sent, or heard, is about neither a leave nor a join.
SentAlike ==
  /\ Never(sent, SentOrder) => Never(sent', SentOrder)
  /\ \A t \in {"leave", "join"} : t \in Types(sent') <=> t \in Types(sent)
  /\ \A m \in Range(sent') : m.type \in {"leave", "left", "join", "joined"} => m \in Range(sent)

InboxAlike ==
  /\ InboxOrdered => InboxOrdered'
  /\ \A t \in {"left", "joined"} : t \in Expected' <=> t \in Expected
  /\ \A m \in Range(inbox') : m.type \in {"leave", "left", "join", "joined"} =>
       m \in Range(inbox) \/ (doing = m.type /\ about = m.room)
  /\ \A t \in {"left", "joined"} : doing' = t => doing = t /\ about' = about

\* The handler goes on with what it was at.
DoingAlike ==
  \A t \in {"left", "joined"} : (doing' = t <=> doing = t) /\ (doing = t => about' = about)

\* The user is where it was before, or where former sessions have put it.
RosterAlike ==
  \A r \in Rooms : Me \in roster'[r] => (Me \in roster[r] /\ ~ Leftover(r)) \/ Leftover(r)'

LEMMA SentSame == sent' = sent => SentAlike
  BY DEF SentAlike

LEMMA SentMore ==
  ASSUME TypeOK, NEW m \in Messages, sent' = sent \o <<m>>,
         \/ m.type \in {"create", "edit"}
         \/ m.type = "chat" /\ "leave" \notin Types(sent)
  PROVE  SentAlike
<1>1. sent \in Seq(Messages)
  BY DEF TypeOK
<1>2. /\ Range(sent') = Range(sent) \cup {m}
      /\ Types(sent') = Types(sent) \cup {m.type}
  BY <1>1, LongerByOne
<1>3. \A s \in Types(sent) : <<s, m.type>> \notin SentOrder
  BY DEF SentOrder
<1>4. Never(sent, SentOrder) => Never(sent', SentOrder)
  BY <1>1, <1>3, LongerByOne
<1> QED
  BY <1>2, <1>4 DEF SentAlike

LEMMA SentTaken ==
  ASSUME TypeOK, sent # <<>>, sent' = Tail(sent), Head(sent).type \notin {"leave", "join"}
  PROVE  SentAlike
<1>1. sent \in Seq(Messages)
  BY DEF TypeOK
<1>2. /\ Range(sent) = {Head(sent)} \cup Range(sent')
      /\ Types(sent) = {Head(sent).type} \cup Types(sent')
      /\ Never(sent, SentOrder) => Never(sent', SentOrder)
  BY <1>1, Shorter
<1> QED
  BY <1>2 DEF SentAlike

LEMMA DoingSame == UNCHANGED <<doing, about>> => DoingAlike
  BY DEF DoingAlike

LEMMA InboxSame == inbox' = inbox /\ DoingAlike => InboxAlike
<1> SUFFICES ASSUME inbox' = inbox, DoingAlike PROVE InboxAlike
  OBVIOUS
<1>1. InboxOrdered => InboxOrdered'
  <2> SUFFICES ASSUME InboxOrdered, NEW t \in Types(inbox)
               PROVE  <<t, doing'>> \notin InboxOrder
    BY DEF InboxOrdered
  <2> QED
    BY DEF InboxOrdered, DoingAlike, InboxOrder
<1> QED
  BY <1>1 DEF InboxAlike, DoingAlike, Expected

LEMMA InboxMore ==
  ASSUME TypeOK, NEW ms \in Seq(Answers), Answer(ms), Types(ms) \cap {"left", "joined"} = {},
         DoingAlike
  PROVE  InboxAlike
<1>1. inbox \in Seq(Answers) /\ inbox' = inbox \o ms
  BY DEF TypeOK, Answer
<1>2. /\ Range(inbox') = Range(inbox) \cup Range(ms)
      /\ Types(inbox') = Types(inbox) \cup Types(ms)
  BY <1>1, Longer
<1>3. \A s, t : t \in Types(ms) => <<s, t>> \notin InboxOrder /\ <<t, s>> \notin InboxOrder
  BY DEF InboxOrder
<1>4. Never(ms, InboxOrder)
  BY <1>3 DEF Never, Types, Range
<1>5. Never(inbox, InboxOrder) => Never(inbox', InboxOrder)
  BY <1>1, <1>3, <1>4, Longer
<1>6. \A m \in Range(ms) : m.type \in Types(ms) /\ m \in Answers
  BY DEF Types, Range
<1>7. \A m \in Range(ms) : m.type \notin {"leave", "left", "join", "joined"}
  BY <1>6, AnswerFields
<1>8. InboxOrdered => InboxOrdered'
  <2> SUFFICES ASSUME InboxOrdered, NEW t \in Types(inbox')
               PROVE  <<t, doing'>> \notin InboxOrder
    BY <1>5 DEF InboxOrdered
  <2>1. CASE t \in Types(inbox)
    BY <2>1 DEF InboxOrdered, DoingAlike, InboxOrder
  <2>2. CASE t \in Types(ms)
    BY <1>3, <2>2
  <2> QED
    BY <1>2, <2>1, <2>2
<1> QED
  BY <1>2, <1>7, <1>8 DEF InboxAlike, DoingAlike, Expected

LEMMA InboxTaken ==
  ASSUME TypeOK, inbox # <<>>, inbox' = Tail(inbox), Head(inbox).type \notin {"left", "joined"},
         UNCHANGED <<doing, about>>
  PROVE  InboxAlike
<1>1. inbox \in Seq(Answers)
  BY DEF TypeOK
<1>2. /\ Range(inbox) = {Head(inbox)} \cup Range(inbox')
      /\ Types(inbox) = {Head(inbox).type} \cup Types(inbox')
      /\ Never(inbox, InboxOrder) => Never(inbox', InboxOrder)
  BY <1>1, Shorter
<1> QED
  BY <1>2 DEF InboxAlike, InboxOrdered, Expected

LEMMA RosterSame == UNCHANGED <<roster, ghosts, removing>> => RosterAlike
  BY DEF RosterAlike, Leftover

\* A step that is about neither a leave nor a join of the client.
LEMMA OrderKept ==
  ASSUME TypeInv, OrderInv, SentAlike, InboxAlike, RosterAlike, gaps \subseteq gaps', room' = room,
         handle' = handle,
         Listening => Listening', enabled' /\ login' # "out" => enabled /\ login # "out"
  PROVE  OrderInv'
<1> SUFFICES ASSUME Orderly' PROVE InOrder'
  BY DEF OrderInv
<1>1. Orderly
  BY DEF Orderly, Without
<1>2. OneByOne /\ Aims /\ Listening /\ InputOn /\ Whereabouts
  BY <1>1 DEF OrderInv, InOrder
<1>3. OneByOne'
  BY <1>2 DEF OneByOne, SentAlike, InboxAlike
<1>4. (Departing' <=> Departing) /\ (Arriving' <=> Arriving)
  BY DEF Departing, Arriving, SentAlike, InboxAlike
<1>5. Aims'
  <2>1. ASSUME NEW m \in Range(sent') \cup Range(inbox')
        PROVE  /\ m.type \in {"leave", "left"} => m.room = room
               /\ m.type \in {"join", "joined"} => m.room = handle
    <3>1. CASE m.type \notin {"leave", "left", "join", "joined"}
      BY <3>1
    <3>2. CASE m \in Range(sent) \cup Range(inbox)
      BY <1>2, <3>2 DEF Aims
    <3>3. CASE doing = m.type /\ about = m.room /\ m \in Range(inbox')
               /\ m.type \in {"leave", "left", "join", "joined"}
      <4>1. doing \notin {"leave", "join"}
        BY DEF TypeInv, TypeOK
      <4> QED
        BY <1>2, <3>2, <3>3, <4>1 DEF Aims
    <3> QED
      BY <2>1, <3>1, <3>2, <3>3 DEF SentAlike, InboxAlike
  <2>2. (doing' = "left" => about' = room) /\ (doing' = "joined" => about' = handle)
    BY <1>2 DEF Aims, InboxAlike
  <2> QED
    BY <1>2, <1>4, <2>1, <2>2 DEF Aims
<1>6. InputOn'
  BY <1>2, <1>4 DEF InputOn
<1>7. Whereabouts'
  BY <1>2 DEF Whereabouts, InboxAlike, RosterAlike
<1> QED
  BY <1>2, <1>3, <1>5, <1>6, <1>7 DEF InOrder

LEMMA FormOrder ==
  TypeInv /\ OrderInv
    /\ (OpenNewRoom \/ CreateRoom \/ CancelNewRoom \/ OpenEdit \/ SaveRoom \/ CancelEdit
          \/ SendText) => OrderInv'
<1> SUFFICES ASSUME TypeInv, OrderInv, Orderly',
                    OpenNewRoom \/ CreateRoom \/ CancelNewRoom \/ OpenEdit \/ SaveRoom
                      \/ CancelEdit \/ SendText
             PROVE  OrderInv'
  BY DEF OrderInv
<1>1. /\ room' = room /\ handle' = handle /\ listeners' = listeners /\ enabled' = enabled
      /\ login' = login /\ inbox' = inbox /\ server' = server /\ history' = history
  BY DEF OpenNewRoom, CreateRoom, CancelNewRoom, OpenEdit, SaveRoom, CancelEdit, SendText, page
<1>2. InboxAlike /\ RosterAlike /\ gaps' = gaps
  BY <1>1, InboxSame, DoingSame, RosterSame DEF server, handler, former, history
<1>3. Listening => Listening'
  BY <1>1 DEF Listening
<1>5. sent \in Seq(Messages)
  BY DEF TypeInv, TypeOK
<1>4. SentAlike
  <2>1. CASE OpenNewRoom \/ CancelNewRoom \/ OpenEdit \/ CancelEdit
    BY <2>1, SentSame DEF OpenNewRoom, CancelNewRoom, OpenEdit, CancelEdit
  <2>2. CASE CreateRoom
    <3> DEFINE m == [type |-> "create"]
    <3>1. m \in Messages /\ m.type = "create"
      BY DEF Messages
    <3>2. sent' = sent \o <<m>>
      BY <1>5, <2>2 DEF CreateRoom
    <3> HIDE DEF m
    <3> QED
      BY <3>1, <3>2, SentMore DEF TypeInv
  <2>3. CASE SaveRoom
    <3> DEFINE m == [type |-> "edit", room |-> title]
    <3>1. m \in Messages /\ m.type = "edit"
      BY <2>3, SentRoom DEF SaveRoom, TypeInv, TypeOK, Held
    <3>2. sent' = sent \o <<m>>
      BY <1>5, <2>3 DEF SaveRoom
    <3> HIDE DEF m
    <3> QED
      BY <3>1, <3>2, SentMore DEF TypeInv
  <2>4. CASE SendText
    <3> DEFINE m == [type |-> "chat", room |-> room]
    <3>1. m \in Messages /\ m.type = "chat"
      BY <2>4, SentRoom DEF SendText, TypeInv, TypeOK
    <3>2. sent' = sent \o <<m>>
      BY <1>5, <2>4 DEF SendText
    <3>3. "leave" \notin Types(sent)
      <4>1. Orderly
        BY <1>2 DEF Orderly, Without
      <4>2. enabled /\ login = "in"
        BY <2>4 DEF SendText, Click
      <4> QED
        BY <4>1, <4>2 DEF OrderInv, InOrder, InputOn, Departing
    <3> HIDE DEF m
    <3> QED
      BY <3>1, <3>2, <3>3, SentMore DEF TypeInv
  <2> QED
    BY <2>1, <2>2, <2>3, <2>4
<1> QED
  BY <1>1, <1>2, <1>3, <1>4, OrderKept

\* Without gaps an edit is answered for the room that is shown.
LEMMA HearOrder ==
  TypeInv /\ OrderInv
    /\ (OnMembers \/ OnRoomEdit \/ OnRoomCreate \/ OnRooms \/ OnStatus) => OrderInv'
<1> SUFFICES ASSUME TypeInv, OrderInv, Orderly',
                    OnMembers \/ OnRoomEdit \/ OnRoomCreate \/ OnRooms \/ OnStatus
             PROVE  OrderInv'
  BY DEF OrderInv
<1>1. /\ handle' = handle /\ listeners' = listeners /\ enabled' = enabled
      /\ login' = login /\ sent' = sent /\ server' = server /\ ghosts' = ghosts
      /\ inbox # <<>> /\ inbox' = Tail(inbox) /\ Head(inbox).type \notin {"left", "joined"}
  BY DEF OnMembers, OnRoomEdit, OnRoomCreate, OnRooms, OnStatus, Hear, page, history
<1>2. gaps \subseteq gaps'
  BY DEF OnMembers, OnRoomEdit, OnRoomCreate, OnRooms, OnStatus, history
<1>3. room' = room
  <2>1. CASE OnRoomEdit
    BY <2>1 DEF OnRoomEdit, Orderly, Without
  <2>2. CASE ~ OnRoomEdit
    BY <2>2 DEF OnMembers, OnRoomCreate, OnRooms, OnStatus, page
  <2> QED
    BY <2>1, <2>2
<1>4. InboxAlike /\ SentAlike /\ RosterAlike
  BY <1>1, InboxTaken, SentSame, RosterSame DEF TypeInv, server, handler, former
<1>5. Listening => Listening'
  BY <1>1 DEF Listening
<1> QED
  BY <1>1, <1>2, <1>3, <1>4, <1>5, OrderKept

\* Messages of the server about members go to those who have subscribed.
LEMMA ToldShape ==
  ASSUME NEW r \in Rooms, NEW action \in {"join", "leave"}, NEW us \in SUBSET Users
  PROVE  /\ Told(r, action, us) \in Seq(Answers)
         /\ Types(Told(r, action, us)) \subseteq {"members"}
<1> DEFINE m == [type |-> "members", room |-> r, action |-> action, users |-> us]
<1>1. m \in Answers /\ m.type = "members"
  BY AnsweredMembers
<1>2. Told(r, action, us) = IF r \in subs THEN <<m>> ELSE <<>>
  BY DEF Told
<1> HIDE DEF m
<1>3. Types(<<m>>) = {"members"} /\ Types(<<>>) = {}
  BY <1>1, Single, EmptyQueue
<1> QED
  BY <1>1, <1>2, <1>3

LEMMA Pair ==
  ASSUME NEW S, NEW a \in S, NEW b \in S
  PROVE  <<a, b>> \in Seq(S) /\ Range(<<a, b>>) = {a, b} /\ Types(<<a, b>>) = {a.type, b.type}
<1>1. DOMAIN <<a, b>> = {1, 2} /\ <<a, b>>[1] = a /\ <<a, b>>[2] = b
  OBVIOUS
<1>2. Range(<<a, b>>) = {a, b}
  BY <1>1 DEF Range
<1>3. Types(<<a, b>>) = {a.type, b.type}
  BY <1>2 DEF Types
<1> QED
  BY <1>2, <1>3

\* A message about members and an answer that follows it.
LEMMA ToldAnd ==
  ASSUME NEW r \in Rooms, NEW action \in {"join", "leave"}, NEW us \in SUBSET Users,
         NEW m \in Answers
  PROVE  /\ Told(r, action, us) \o <<m>> \in Seq(Answers)
         /\ Range(Told(r, action, us) \o <<m>>) = Range(Told(r, action, us)) \cup {m}
         /\ m.type \in Types(Told(r, action, us) \o <<m>>)
         /\ Types(Told(r, action, us) \o <<m>>) \subseteq {"members", m.type}
         /\ Never(Told(r, action, us) \o <<m>>, InboxOrder)
<1> DEFINE q == Told(r, action, us)
<1>1. q \in Seq(Answers) /\ Types(q) \subseteq {"members"}
  BY ToldShape
<1> HIDE DEF q
<1>2. /\ q \o <<m>> \in Seq(Answers) /\ Range(q \o <<m>>) = Range(q) \cup {m}
      /\ Types(q \o <<m>>) = Types(q) \cup {m.type}
  BY <1>1, LongerByOne
<1>3. Never(q \o <<m>>, InboxOrder)
  <2>1. \A s \in Types(q) : \A t : <<s, t>> \notin InboxOrder
    BY <1>1 DEF InboxOrder
  <2>2. Never(q, InboxOrder)
    BY <2>1 DEF Never, Types, Range
  <2> QED
    BY <1>1, <2>1, <2>2, LongerByOne
<1> QED
  BY <1>1, <1>2, <1>3 DEF q

\* The handler answers what it has done.
LEMMA HandledInbox ==
  ASSUME TypeOK, NEW type \in {"joined", "left"}, NEW action \in {"join", "leave"},
         doing = type, about \in Rooms, doing' \notin {"joined", "left"},
         Answer(Told(about, action, {Me}) \o <<[type |-> type, room |-> about]>>)
  PROVE  InboxAlike
<1> DEFINE m == [type |-> type, room |-> about]
           told == Told(about, action, {Me})
           ms == told \o <<m>>
<1>1. m \in Answers /\ m.type = type /\ m.room = about
  BY AnsweredRoom
<1>2. \A k \in Range(told) : k.type = "members"
  BY ToldShape, ClientAssumption DEF Types
<1> HIDE DEF m
<1>3. /\ ms \in Seq(Answers) /\ Range(ms) = Range(told) \cup {m}
      /\ type \in Types(ms) /\ Types(ms) \subseteq {"members", type} /\ Never(ms, InboxOrder)
  <2>1. {Me} \in SUBSET Users
    BY ClientAssumption
  <2>3. about \in Rooms /\ action \in {"join", "leave"}
    OBVIOUS
  <2>2. /\ told \o <<m>> \in Seq(Answers)
        /\ Range(told \o <<m>>) = Range(told) \cup {m}
        /\ m.type \in Types(told \o <<m>>)
        /\ Types(told \o <<m>>) \subseteq {"members", m.type}
        /\ Never(told \o <<m>>, InboxOrder)
    BY <1>1, <2>1, <2>3, ToldAnd, SMTT(30)
  <2> QED
    BY <1>1, <2>2
<1>4. inbox \in Seq(Answers) /\ inbox' = inbox \o ms
  BY DEF TypeOK, Answer, m
<1> HIDE DEF ms, told
<1>5. /\ Range(inbox') = Range(inbox) \cup Range(ms) /\ Types(inbox') = Types(inbox) \cup Types(ms)
  BY <1>3, <1>4, Longer
<1>6. InboxOrdered => InboxOrdered'
  <2> SUFFICES ASSUME InboxOrdered PROVE InboxOrdered'
    OBVIOUS
  <2>1. \A s \in Types(inbox), t \in Types(ms) : <<s, t>> \notin InboxOrder
    BY <1>3 DEF InboxOrdered, InboxOrder
  <2>2. Never(inbox', InboxOrder)
    BY <1>3, <1>4, <2>1, Longer DEF InboxOrdered
  <2> QED
    BY <2>2 DEF InboxOrdered, InboxOrder
<1>7. \A t \in {"left", "joined"} : t \in Expected' <=> t \in Expected
  BY <1>3, <1>5 DEF Expected
<1>8. \A k \in Range(inbox') : k.type \in {"leave", "left", "join", "joined"} =>
        k \in Range(inbox) \/ (doing = k.type /\ about = k.room)
  BY <1>1, <1>2, <1>3, <1>5
<1> QED
  BY <1>6, <1>7, <1>8 DEF InboxAlike

LEMMA PlainPair ==
  ASSUME TypeOK, NEW a \in Answers, NEW b \in Answers, a.type \notin {"left", "joined"},
         b.type \notin {"left", "joined"}, Answer(<<a, b>>), DoingAlike
  PROVE  InboxAlike
<1> DEFINE ms == <<a, b>>
<1>1. ms \in Seq(Answers) /\ Types(ms) = {a.type, b.type}
  BY Pair
<1> HIDE DEF ms
<1>2. Types(ms) \cap {"left", "joined"} = {} /\ Answer(ms)
  BY <1>1 DEF ms
<1> QED
  BY <1>1, <1>2, InboxMore

LEMMA PlainOne ==
  ASSUME TypeOK, NEW a \in Answers, a.type \notin {"left", "joined"}, Answer(<<a>>), DoingAlike
  PROVE  InboxAlike
<1> DEFINE ms == <<a>>
<1>1. ms \in Seq(Answers) /\ Types(ms) = {a.type}
  BY Single
<1> HIDE DEF ms
<1>2. Types(ms) \cap {"left", "joined"} = {} /\ Answer(ms)
  BY <1>1 DEF ms
<1> QED
  BY <1>1, <1>2, InboxMore

\* What the server does but to take a leave or a join of the client.
PlainStep ==
  \/ HandleSubscription \/ HandleEdit \/ AnswerEdit \/ HandleCreate \/ HandleChat
  \/ JoinHandled \/ MergeMembers \/ DeliverMembers \/ LeaveHandled

LEMMA ServerInbox ==
  ASSUME TypeInv, PlainStep
  PROVE  InboxAlike
<1>0. TypeOK
  BY DEF TypeInv
<1>1. CASE HandleSubscription \/ HandleChat
  BY <1>1, InboxSame, DoingSame DEF HandleSubscription, HandleChat, server, handler
<1>2. CASE HandleEdit
  <2> DEFINE m == [type |-> "status"]
  <2>1. m \in Answers /\ m.type = "status"
    BY AnsweredPlain
  <2>2. DoingAlike /\ (inbox' = inbox \/ Answer(<<m>>))
    BY <1>2, DoingSame DEF HandleEdit, handler
  <2> HIDE DEF m
  <2> QED
    BY <1>0, <2>1, <2>2, InboxSame, PlainOne
<1>3. CASE AnswerEdit
  <2>1. PICK r \in Rooms : Answer(<<[type |-> "edited", room |-> r], [type |-> "rooms"]>>)
    BY <1>0, <1>3 DEF AnswerEdit, TypeOK
  <2> DEFINE a == [type |-> "edited", room |-> r]
             b == [type |-> "rooms"]
  <2>2. a \in Answers /\ b \in Answers /\ a.type = "edited" /\ b.type = "rooms"
    BY AnsweredPlain, AnsweredRoom
  <2>3. Answer(<<a, b>>) /\ DoingAlike
    BY <1>3, <2>1, DoingSame DEF AnswerEdit, handler
  <2> HIDE DEF a, b
  <2> QED
    BY <1>0, <2>2, <2>3, PlainPair
<1>4. CASE HandleCreate
  <2> DEFINE a == [type |-> "created"]
             b == [type |-> "rooms"]
  <2>2. a \in Answers /\ b \in Answers /\ a.type = "created" /\ b.type = "rooms"
    BY AnsweredPlain
  <2>3. Answer(<<a, b>>) /\ DoingAlike
    BY <1>4, DoingSame DEF HandleCreate, server, handler
  <2> HIDE DEF a, b
  <2> QED
    BY <1>0, <2>2, <2>3, PlainPair
<1>5. CASE JoinHandled
  <2>1. about \in Rooms
    BY <1>5 DEF JoinHandled, TypeInv, Held
  <2> QED
    BY <1>0, <1>5, <2>1, HandledInbox DEF JoinHandled
<1>6. CASE LeaveHandled
  <2>1. about \in Rooms
    BY <1>6 DEF LeaveHandled, TypeInv, Held
  <2> QED
    BY <1>0, <1>6, <2>1, HandledInbox DEF LeaveHandled
<1>7. CASE MergeMembers
  <2>1. DoingAlike /\ inbox' = inbox
    BY <1>7 DEF MergeMembers, DoingAlike
  <2> QED
    BY <2>1, InboxSame
<1>8. CASE DeliverMembers
  <2> DEFINE a == [type |-> "members", room |-> about, action |-> "join", users |-> merged]
  <2>1. about \in Rooms /\ merged \in SUBSET Users
    BY <1>8 DEF DeliverMembers, TypeInv, Held, TypeOK
  <2>2. a \in Answers /\ a.type = "members"
    BY <2>1, AnsweredMembers
  <2>3. Answer(<<a>>) /\ DoingAlike
    BY <1>8 DEF DeliverMembers, DoingAlike
  <2> HIDE DEF a
  <2> QED
    BY <1>0, <2>2, <2>3, PlainOne
<1> QED
  BY <1>1, <1>2, <1>3, <1>4, <1>5, <1>6, <1>7, <1>8 DEF PlainStep

LEMMA ServerSent ==
  ASSUME TypeOK, PlainStep
  PROVE  SentAlike
<1>1. CASE AnswerEdit \/ JoinHandled \/ MergeMembers \/ DeliverMembers \/ LeaveHandled
  BY <1>1, SentSame DEF AnswerEdit, JoinHandled, MergeMembers, DeliverMembers, LeaveHandled
<1>2. CASE HandleSubscription \/ HandleEdit \/ HandleCreate \/ HandleChat
  BY <1>2, SentTaken DEF HandleSubscription, HandleEdit, HandleCreate, HandleChat, Handle
<1> QED
  BY <1>1, <1>2 DEF PlainStep

LEMMA ServerSame ==
  PlainStep => \/ UNCHANGED <<login, page, subs, roster, former, news, gaps, ghosts>>
               \/ /\ HandleSubscription
                  /\ UNCHANGED <<login, page, roster, former, news, gaps, ghosts>>
  BY DEF PlainStep, HandleSubscription, HandleEdit, AnswerEdit, HandleCreate, HandleChat,
         JoinHandled, MergeMembers, DeliverMembers, LeaveHandled, Handle, server, history

\* The server handles something else.
LEMMA ServerOrder ==
  TypeInv /\ OrderInv /\ PlainStep => OrderInv'
<1> SUFFICES ASSUME TypeInv, OrderInv, PlainStep PROVE OrderInv'
  OBVIOUS
<1>1. UNCHANGED <<login, page, roster, former, gaps, ghosts>>
  BY ServerSame
<1>2. /\ room' = room /\ handle' = handle /\ listeners' = listeners /\ enabled' = enabled
  BY <1>1 DEF page
<1>3. Listening => Listening'
  BY <1>2 DEF Listening
<1>4. RosterAlike
  BY <1>1, RosterSame DEF former
<1>5. SentAlike /\ InboxAlike
  BY ServerSent, ServerInbox DEF TypeInv
<1> QED
  BY <1>1, <1>2, <1>3, <1>4, <1>5, OrderKept

\* Where other threads have the user.
LEMMA OtherRoster ==
  ASSUME TypeInv, OtherStep
  PROVE  RosterAlike
<1>0. /\ roster \in [Rooms -> SUBSET Users] /\ removing \in [Rooms -> Nat]
      /\ ghosts \in SUBSET Rooms
  BY DEF TypeInv, TypeOK
<1>1. CASE Move
  <2>1. PICK u \in Users \ {Me}, r \in Rooms :
          roster' = [roster EXCEPT ![r] = @ \ {u}] \/ roster' = [roster EXCEPT ![r] = @ \cup {u}]
    BY <1>1 DEF Move
  <2>2. u # Me
    OBVIOUS
  <2>3. \A x \in Rooms : Me \in roster'[x] => Me \in roster[x]
    BY ONLY <1>0, <2>1, <2>2
  <2>4. ghosts' = ghosts /\ removing' = removing
    BY <1>1 DEF Move, history, former
  <2> QED
    BY <2>3, <2>4 DEF RosterAlike, Leftover
<1>2. ASSUME NEW r \in Rooms, RemoveMe(r) PROVE RosterAlike
  <2>1. /\ removing' = [removing EXCEPT ![r] = @ - 1]
        /\ roster' = [roster EXCEPT ![r] = @ \ {Me}]
        /\ ghosts' = ghosts \ {r}
    BY <1>2 DEF RemoveMe
  <2>2. ASSUME NEW x \in Rooms, Me \in roster'[x]
        PROVE  Me \in roster[x] /\ (Leftover(x)' <=> Leftover(x))
    <3>1. x # r /\ roster'[x] = roster[x] /\ removing'[x] = removing[x]
      BY <1>0, <2>1, <2>2
    <3> QED
      BY <2>1, <2>2, <3>1 DEF Leftover
  <2> QED
    BY <2>2 DEF RosterAlike
<1>3. ASSUME NEW r \in Rooms, LateJoin(r) PROVE RosterAlike
  <2>1. /\ removing' = removing
        /\ roster' = [roster EXCEPT ![r] = @ \cup {Me}]
        /\ ghosts' = IF removing[r] = 0 /\ Me \notin roster[r] THEN ghosts \cup {r} ELSE ghosts
    BY <1>3 DEF LateJoin
  <2>2. ASSUME NEW x \in Rooms, Me \in roster'[x]
        PROVE  (Me \in roster[x] /\ ~ Leftover(x)) \/ Leftover(x)'
    <3>1. CASE Me \in roster[x]
      BY <2>1, <3>1 DEF Leftover
    <3>2. CASE Me \notin roster[x]
      <4>1. x = r
        BY <1>0, <2>1, <2>2, <3>2
      <4>2. removing[r] = 0 \/ removing[r] > 0
        BY <1>0
      <4> QED
        BY <2>1, <3>2, <4>1, <4>2 DEF Leftover
    <3> QED
      BY <3>1, <3>2
  <2> QED
    BY <2>2 DEF RosterAlike
<1>4. CASE Spread
  BY <1>4, RosterSame DEF Spread, former
<1> QED
  BY <1>1, <1>2, <1>3, <1>4 DEF OtherStep

LEMMA OtherSame ==
  OtherStep => UNCHANGED <<login, page, sent, subs, edited, handler, gaps, carried, foreign>>
  BY DEF OtherStep, Move, RemoveMe, LateJoin, Spread, history

LEMMA OtherInbox ==
  ASSUME TypeInv, OtherStep
  PROVE  InboxAlike
<1>1. DoingAlike
  BY OtherSame, DoingSame DEF handler
<1>2. CASE Spread
  <2>1. PICK m \in News : Answer(Told(m.room, m.action, {m.user}))
    BY <1>2 DEF Spread
  <2>2. m.action \in {"join", "leave"} /\ m.room \in Rooms /\ {m.user} \in SUBSET Users
    BY DEF News
  <2>3. /\ Told(m.room, m.action, {m.user}) \in Seq(Answers)
        /\ Types(Told(m.room, m.action, {m.user})) \cap {"left", "joined"} = {}
    BY <2>2, ToldShape
  <2>4. TypeOK
    BY DEF TypeInv
  <2> QED
    BY <1>1, <2>1, <2>3, <2>4, InboxMore
<1>3. CASE ~ Spread
  <2>1. inbox' = inbox
    BY <1>3 DEF OtherStep, Move, RemoveMe, LateJoin
  <2> QED
    BY <1>1, <2>1, InboxSame
<1> QED
  BY <1>2, <1>3

LEMMA OtherOrder == TypeInv /\ OrderInv /\ OtherStep => OrderInv'
<1> SUFFICES ASSUME TypeInv, OrderInv, OtherStep PROVE OrderInv'
  OBVIOUS
<1>1. UNCHANGED <<login, page, sent, handler, gaps>>
  BY OtherSame
<1>2. /\ room' = room /\ handle' = handle /\ listeners' = listeners /\ enabled' = enabled
  BY <1>1 DEF page
<1>3. Listening => Listening'
  BY <1>2 DEF Listening
<1> QED
  BY <1>1, <1>2, <1>3, OtherInbox, SentSame, OtherRoster, OrderKept

\* Logging in and out.
LEMMA LoginOrder ==
  TypeInv /\ NoSession /\ LoggedOut /\ OrderInv /\ (Login \/ Handshake \/ Logout \/ LoseSession)
    => OrderInv'
<1> SUFFICES ASSUME TypeInv, NoSession, LoggedOut, OrderInv,
                    Login \/ Handshake \/ Logout \/ LoseSession
             PROVE  OrderInv'
  OBVIOUS
<1>1. CASE Login
  <2>1. /\ room' = room /\ handle' = handle /\ listeners' = listeners /\ enabled' = FALSE
        /\ sent' = sent /\ inbox' = inbox /\ server' = server /\ ghosts' = ghosts
        /\ gaps' = gaps
    BY <1>1 DEF Login, history
  <2>2. Listening => Listening'
    BY <2>1 DEF Listening
  <2>3. SentAlike /\ InboxAlike /\ RosterAlike
    BY <2>1, SentSame, InboxSame, DoingSame, RosterSame DEF server, handler, former
  <2> QED
    BY <2>1, <2>2, <2>3, OrderKept
<1>2. CASE Handshake
  <2>1. /\ room' = room /\ handle' = handle /\ enabled' = enabled /\ login = "shaking"
        /\ server' = server /\ gaps' = gaps /\ ghosts' = ghosts
        /\ inbox' = <<[type |-> "rooms"]>>
        /\ sent' = IF handle # NoRoom THEN <<[type |-> "subscribe", room |-> handle]>> ELSE <<>>
        /\ listeners' = [r \in Rooms |-> IF r = handle THEN 1 ELSE 0]
    BY <1>2 DEF Handshake, Resubscribe, history
  <2>2. sent = <<>> /\ inbox = <<>>
    BY <2>1 DEF NoSession
  <2>3. Listening'
    BY <2>1 DEF Listening
  <2>4. SentAlike
    <3>1. Types(sent') \subseteq {"subscribe"} /\ Never(sent', SentOrder)
          /\ \A m \in Range(sent') : m.type = "subscribe"
      BY <2>1, EmptyQueue, Single
    <3> QED
      BY <2>2, <3>1, EmptyQueue DEF SentAlike
  <2>5. InboxAlike
    <3>1. Types(inbox') = {"rooms"} /\ Never(inbox', InboxOrder)
          /\ \A m \in Range(inbox') : m.type = "rooms"
      BY <2>1, Single
    <3>2. UNCHANGED <<doing, about>> /\ Types(inbox) = {}
      BY <2>1, <2>2, EmptyQueue DEF server, handler
    <3> QED
      BY <3>1, <3>2 DEF InboxAlike, InboxOrdered, InboxOrder, Expected
  <2>6. RosterAlike
    BY <2>1, RosterSame DEF server, former
  <2> QED
    BY <2>1, <2>3, <2>4, <2>5, <2>6, OrderKept
<1>3. CASE Logout \/ LoseSession
  <2>1. sent' = <<>> /\ GoneType
    BY <1>3, GoneTypes DEF Logout, LoseSession
  <2>2. /\ Range(sent') = {} /\ Range(inbox') = {} /\ Types(sent') = {} /\ Expected' = {"none"}
        /\ Never(sent', SentOrder) /\ InboxOrdered'
    BY <2>1, EmptyQueue DEF GoneType, Expected, InboxOrdered
  <2>6. Whereabouts'
    BY <2>1 DEF Whereabouts, Leftover, GoneType
  <2>3. OneByOne' /\ Whereabouts' /\ Aims'
    BY <2>1, <2>2, <2>6 DEF OneByOne, Aims, Arriving, GoneType
  <2>4. CASE Logout
    <3>1. Listening'
      BY <2>4, ClientAssumption DEF Logout, Listening
    <3>2. InputOn'
      BY <2>4 DEF Logout, InputOn
    <3> QED
      BY <2>3, <3>1, <3>2 DEF OrderInv, InOrder
  <2>5. CASE LoseSession
    <3> SUFFICES ASSUME Orderly' PROVE Listening' /\ InputOn'
      BY <2>3 DEF OrderInv, InOrder
    <3>1. /\ room' = room /\ handle' = handle /\ enabled' = enabled /\ listeners' = listeners
          /\ login = "in" /\ gaps \subseteq gaps'
      BY <2>5 DEF LoseSession, page
    <3>2. Listening /\ InputOn
      BY <3>1 DEF OrderInv, InOrder, Orderly, Without
    <3> QED
      BY <2>2, <3>1, <3>2 DEF Listening, InputOn, Departing
  <2> QED
    BY <1>3, <2>4, <2>5
<1> QED
  BY <1>1, <1>2, <1>3

\* Who leaves or joins in an orderly way has nothing under way.
LEMMA NothingUnderWay ==
  ASSUME TypeInv, OrderInv, Orderly', LeaveRoom \/ \E r \in Rooms : JoinRoom(r)
  PROVE  /\ Orderly /\ InOrder /\ ~ Departing /\ ~ Arriving
         /\ room = NoRoom => handle = NoRoom
<1>1. Orderly /\ (room = NoRoom => handle = NoRoom) /\ ~ LeavingAlready
  BY DEF LeaveRoom, JoinRoom, Join, Orderly, Without
<1>2. InOrder
  BY <1>1 DEF OrderInv
<1>3. /\ \A t : Awaited(t) <=> t \in Types(sent)
      /\ \A t : Coming(t) <=> t \in Expected
  BY DEF Awaited, Coming, Types, Range, Expected
<1>4. CASE room # NoRoom
  <2>1. ~ Departing
    BY <1>1, <1>3, <1>4 DEF LeavingAlready, Departing
  <2> QED
    BY <1>1, <1>2, <1>4, <2>1 DEF InOrder, Aims
<1>5. CASE room = NoRoom
  <2>1. \A m \in Range(sent) : m \in Messages
    BY DEF TypeInv, TypeOK, Range
  <2>2. \A m \in Range(inbox) : m \in Answers
    BY DEF TypeInv, TypeOK, Range
  <2>3. \A m \in Range(sent) : m.type \notin {"leave", "join"}
    <3> SUFFICES ASSUME NEW m \in Range(sent), m.type \in {"leave", "join"} PROVE FALSE
      OBVIOUS
    <3>1. m.room \in Rooms
      BY <2>1, MessageFields
    <3>2. m.room = NoRoom
      BY <1>1, <1>2, <1>5 DEF InOrder, Aims
    <3> QED
      BY <3>1, <3>2, ClientAssumption
  <2>4. \A m \in Range(inbox) : m.type \notin {"left", "joined"}
    <3> SUFFICES ASSUME NEW m \in Range(inbox), m.type \in {"left", "joined"} PROVE FALSE
      OBVIOUS
    <3>1. m.room \in Rooms
      BY <2>2, AnswerFields
    <3>2. m.room = NoRoom
      BY <1>1, <1>2, <1>5 DEF InOrder, Aims
    <3> QED
      BY <3>1, <3>2, ClientAssumption
  <2>5. doing \notin {"left", "joined"}
    BY <1>1, <1>2, <1>5, ClientAssumption DEF InOrder, Aims, TypeInv, Held
  <2> QED
    BY <1>1, <1>2, <2>3, <2>4, <2>5 DEF Departing, Arriving, Types, Expected
<1> QED
  BY <1>4, <1>5

\* The client no longer refers to what is given up.
LEMMA ReleasedAll ==
  ASSUME TypeInv, Listening
  PROVE  Released(handle) = [x \in Rooms |-> 0]
<1>1. \A x \in Rooms : listeners[x] = IF x = handle THEN 1 ELSE 0
  BY DEF Listening
<1> QED
  BY <1>1 DEF Released

LEMMA JoinEffect ==
  ASSUME TypeInv, OrderInv, Orderly', NEW r \in Rooms, JoinRoom(r)
  PROVE  /\ sent' = ((sent \o Leaving) \o <<[type |-> "subscribe", room |-> r]>>)
                      \o <<[type |-> "join", room |-> r]>>
         /\ Listening' /\ room' = room /\ handle' = r /\ login' = login /\ login = "in"
         /\ enabled' = (enabled /\ room = NoRoom)
         /\ inbox' = inbox /\ server' = server /\ members' = members
         /\ carried' = carried /\ foreign' = foreign /\ ghosts' = ghosts /\ misled' = misled
         /\ gaps \subseteq gaps'
<1> DEFINE left == IF room = NoRoom THEN listeners ELSE Released(handle)
<1>1. InOrder /\ (room = NoRoom => handle = NoRoom)
  BY NothingUnderWay
<1>2. \A x \in Rooms : left[x] = 0
  <2>1. CASE room = NoRoom
    BY <1>1, <2>1, ClientAssumption DEF InOrder, Listening
  <2>2. CASE room # NoRoom
    BY <1>1, <2>2, ReleasedAll DEF InOrder
  <2> QED
    BY <2>1, <2>2
<1>3. left \in [Rooms -> 0 .. MaxEvents]
  BY ReleasedType DEF TypeInv, TypeOK
<1>4. /\ listeners' = [left EXCEPT ![r] = @ + 1]
      /\ sent' = sent \o Leaving \o Subscribe(r, left) \o <<[type |-> "join", room |-> r]>>
  BY DEF JoinRoom, Join
<1> HIDE DEF left
<1>5. Subscribe(r, left) = <<[type |-> "subscribe", room |-> r]>>
  BY <1>2 DEF Subscribe
<1>6. handle' = r
  BY DEF JoinRoom, Join
<1>7. Listening'
  BY <1>2, <1>3, <1>4, <1>6 DEF Listening
<1> QED
  BY <1>4, <1>5, <1>6, <1>7 DEF JoinRoom, Join, Click

LEMMA LeaveRoomOrder ==
  ASSUME TypeInv, OrderInv, LeaveRoom
  PROVE  OrderInv'
<1> SUFFICES ASSUME Orderly' PROVE InOrder'
  BY DEF OrderInv
<1>1. InOrder /\ ~ Departing /\ ~ Arriving
  BY NothingUnderWay
<1>2. /\ room # NoRoom /\ room' = room /\ handle' = NoRoom /\ enabled' = FALSE
      /\ sent' = sent \o Leaving /\ listeners' = Released(handle)
      /\ inbox' = inbox /\ server' = server /\ ghosts' = ghosts
  BY DEF LeaveRoom
<1>3. /\ Leaving \in Seq(Messages) /\ Never(Leaving, SentOrder)
      /\ "leave" \in Types(Leaving) /\ Types(Leaving) \subseteq {"leave", "unsubscribe"}
      /\ \A m \in Range(Leaving) : m.type = "leave" => m.room = room
  BY <1>2, LeavingShape DEF TypeInv
<1>4. sent \in Seq(Messages) /\ inbox \in Seq(Answers)
  BY DEF TypeInv, TypeOK
<1>5. /\ Range(sent') = Range(sent) \cup Range(Leaving)
      /\ Types(sent') = Types(sent) \cup Types(Leaving)
  BY <1>2, <1>3, <1>4, Longer
<1>6. /\ "leave" \notin Types(sent) /\ "join" \notin Types(sent)
      /\ "left" \notin Expected /\ "joined" \notin Expected
      /\ "left" \notin Types(inbox) /\ "joined" \notin Types(inbox)
      /\ doing \notin {"left", "joined"}
  BY <1>1 DEF Departing, Arriving, Expected
<1>20. /\ doing' = doing /\ Expected' = Expected /\ (InboxOrdered' <=> InboxOrdered)
       /\ roster' = roster /\ \A x : Leftover(x)' <=> Leftover(x)
  BY <1>2 DEF server, handler, former, Expected, InboxOrdered, Leftover
<1>7. Never(sent', SentOrder)
  <2>1. \A s \in Types(sent) : \A t : <<s, t>> \notin SentOrder
    BY <1>6 DEF SentOrder
  <2> QED
    BY <1>1, <1>2, <1>3, <1>4, <2>1, Longer DEF InOrder, OneByOne
<1>8. OneByOne'
  BY <1>1, <1>2, <1>6, <1>7, <1>20 DEF InOrder, OneByOne
<1>9. Aims'
  <2>1. \A m \in Range(sent) : m.type \in Types(sent) /\ m \in Messages
    BY <1>4 DEF Types, Range
  <2>2. \A m \in Range(inbox) : m.type \in Types(inbox) /\ m \in Answers
    BY <1>4 DEF Types, Range
  <2>3. \A m \in Range(Leaving) : m.type \in {"leave", "unsubscribe"}
    BY <1>3 DEF Types
  <2>4. ASSUME NEW m \in Range(sent') \cup Range(inbox')
        PROVE  /\ m.type \in {"leave", "left"} => m.room = room
               /\ m.type \notin {"join", "joined"}
    BY SMTT(30), <1>2, <1>3, <1>5, <1>6, <2>1, <2>2, <2>3, <2>4, MessageFields, AnswerFields
  <2>5. Departing'
    BY <1>3, <1>5 DEF Departing
  <2> QED
    BY <1>2, <1>6, <1>20, <2>4, <2>5 DEF Aims
<1>10. Listening'
  BY <1>1, <1>2, ReleasedAll, ClientAssumption DEF InOrder, Listening
<1>11. InputOn'
  BY <1>2 DEF InputOn
<1>12. Whereabouts'
  BY <1>1, <1>2, <1>6, <1>20 DEF InOrder, Whereabouts
<1> QED
  BY <1>8, <1>9, <1>10, <1>11, <1>12 DEF InOrder

LEMMA JoinRoomOrder ==
  ASSUME TypeInv, OrderInv, NEW r \in Rooms, JoinRoom(r)
  PROVE  OrderInv'
<1> SUFFICES ASSUME Orderly' PROVE InOrder'
  BY DEF OrderInv
<1> DEFINE sub == [type |-> "subscribe", room |-> r]
           join == [type |-> "join", room |-> r]
           a == sent \o Leaving
           b == a \o <<sub>>
<1>1. InOrder /\ ~ Departing /\ ~ Arriving /\ (room = NoRoom => handle = NoRoom)
  BY NothingUnderWay
<1>2. /\ sent' = b \o <<join>>
      /\ Listening' /\ room' = room /\ handle' = r
      /\ enabled' = (enabled /\ room = NoRoom) /\ login = "in"
      /\ inbox' = inbox /\ server' = server /\ ghosts' = ghosts
  BY JoinEffect
<1>3. /\ sub \in Messages /\ sub.type = "subscribe"
      /\ join \in Messages /\ join.type = "join" /\ join.room = r
  BY SentRoom
<1> HIDE DEF sub, join
<1>4. sent \in Seq(Messages) /\ inbox \in Seq(Answers)
  BY DEF TypeInv, TypeOK
<1>5. /\ Leaving \in Seq(Messages) /\ Never(Leaving, SentOrder)
      /\ Types(Leaving) \subseteq {"leave", "unsubscribe"}
      /\ \A m \in Range(Leaving) : m.type = "leave" => m.room = room
      /\ room # NoRoom => "leave" \in Types(Leaving)
  <2>1. CASE room # NoRoom
    BY <2>1, LeavingShape DEF TypeInv
  <2>2. CASE room = NoRoom
    BY <2>2, EmptyQueue DEF Leaving
  <2> QED
    BY <2>1, <2>2
<1>6. /\ "leave" \notin Types(sent) /\ "join" \notin Types(sent)
      /\ "left" \notin Expected /\ "joined" \notin Expected
      /\ "left" \notin Types(inbox) /\ "joined" \notin Types(inbox)
      /\ doing \notin {"left", "joined"}
  BY <1>1 DEF Departing, Arriving, Expected
<1>20. /\ doing' = doing /\ Expected' = Expected /\ (InboxOrdered' <=> InboxOrdered)
       /\ roster' = roster /\ \A x : Leftover(x)' <=> Leftover(x)
  BY <1>2 DEF server, handler, former, Expected, InboxOrdered, Leftover
<1>7. /\ a \in Seq(Messages) /\ Never(a, SentOrder)
      /\ Range(a) = Range(sent) \cup Range(Leaving) /\ Types(a) = Types(sent) \cup Types(Leaving)
  <2>1. \A s \in Types(sent) : \A t : <<s, t>> \notin SentOrder
    BY <1>6 DEF SentOrder
  <2> QED
    BY <1>1, <1>4, <1>5, <2>1, Longer DEF InOrder, OneByOne
<1> HIDE DEF a
<1>8. /\ b \in Seq(Messages) /\ Never(b, SentOrder)
      /\ Range(b) = Range(a) \cup {sub} /\ Types(b) = Types(a) \cup {"subscribe"}
  <2>1. \A s \in Types(a) : <<s, "subscribe">> \notin SentOrder
    BY <1>5, <1>6, <1>7 DEF SentOrder
  <2> QED
    BY <1>3, <1>7, <2>1, LongerByOne
<1> HIDE DEF b
<1>9. /\ Never(sent', SentOrder)
      /\ Range(sent') = Range(sent) \cup Range(Leaving) \cup {sub, join}
      /\ Types(sent') = Types(sent) \cup Types(Leaving) \cup {"subscribe", "join"}
  <2>1. \A s \in Types(b) : <<s, "join">> \notin SentOrder
    BY <1>5, <1>6, <1>7, <1>8 DEF SentOrder
  <2> QED
    BY <1>2, <1>3, <1>7, <1>8, <2>1, LongerByOne
<1>10. OneByOne'
  BY <1>1, <1>2, <1>6, <1>9, <1>20 DEF InOrder, OneByOne
<1>11. Aims'
  <2>1. \A m \in Range(sent) : m.type \in Types(sent) /\ m \in Messages
    BY <1>4 DEF Types, Range
  <2>2. \A m \in Range(inbox) : m.type \in Types(inbox) /\ m \in Answers
    BY <1>4 DEF Types, Range
  <2>3. \A m \in Range(Leaving) : m.type \in {"leave", "unsubscribe"}
    BY <1>5 DEF Types
  <2>4. ASSUME NEW m \in Range(sent') \cup Range(inbox')
        PROVE  /\ m.type \in {"leave", "left"} => m.room = room
               /\ m.type \in {"join", "joined"} => m.room = r
    <3>1. CASE m \in Range(sent)
      BY <3>1, <2>1, <1>6, MessageFields
    <3>2. CASE m \in Range(inbox)
      BY <3>2, <2>2, <1>6, AnswerFields
    <3>3. CASE m \in Range(Leaving)
      BY <3>3, <2>3, <1>5
    <3>4. CASE m \in {sub, join}
      BY <3>4, <1>3
    <3> QED
      BY <1>2, <1>9, <2>4, <3>1, <3>2, <3>3, <3>4
  <2>5. room # NoRoom => Departing'
    BY <1>5, <1>9 DEF Departing
  <2> QED
    BY <1>2, <1>6, <1>20, <2>4, <2>5 DEF Aims
<1>12. InputOn'
  BY <1>1, <1>2 DEF InOrder, InputOn
<1>13. Whereabouts'
  BY <1>1, <1>2, <1>6, <1>20 DEF InOrder, Whereabouts
<1> QED
  BY <1>2, <1>10, <1>11, <1>12, <1>13 DEF InOrder

LEMMA HandleLeaveEffect ==
  ASSUME TypeInv, OrderInv, Orderly', HandleLeave
  PROVE  /\ InOrder /\ Orderly /\ sent # <<>> /\ Head(sent).type = "leave"
         /\ Head(sent).room = room /\ room \in Rooms /\ sent' = Tail(sent)
         /\ roster' = [roster EXCEPT ![room] = @ \ {Me}]
         /\ doing = "none" /\ doing' = "left" /\ about' = room /\ inbox' = inbox
         /\ ghosts' = ghosts \ {room} /\ login = "in"
         /\ UNCHANGED <<login, page, subs, edited, merged, former, news, gaps, carried, foreign,
                        misled>>
         /\ "leave" \in Types(sent)
<1>1. sent # <<>> /\ sent' = Tail(sent) /\ Head(sent).type = "leave"
  BY DEF HandleLeave, Handle
<1>2. "refused" \notin gaps'
  BY DEF Orderly, Without
<1>3. gaps' = gaps
  BY <1>2 DEF HandleLeave
<1>4. Orderly /\ InOrder
  BY <1>3 DEF Orderly, Without, OrderInv
<1>5. /\ Head(sent) \in Messages /\ Range(sent) = {Head(sent)} \cup Range(Tail(sent))
      /\ "leave" \in Types(sent)
  BY <1>1, Shorter DEF TypeInv, TypeOK
<1>6. Head(sent).room = room /\ room \in Rooms
  BY <1>1, <1>4, <1>5, MessageFields DEF InOrder, Aims
<1> QED
  BY <1>1, <1>2, <1>3, <1>4, <1>5, <1>6 DEF HandleLeave, Handle

LEMMA HandleLeaveOrder ==
  ASSUME TypeInv, OrderInv, HandleLeave
  PROVE  OrderInv'
<1> SUFFICES ASSUME Orderly' PROVE InOrder'
  BY DEF OrderInv
<1>1. /\ InOrder /\ sent # <<>> /\ Head(sent).type = "leave" /\ sent' = Tail(sent)
      /\ room \in Rooms /\ roster' = [roster EXCEPT ![room] = @ \ {Me}] /\ inbox' = inbox
      /\ doing = "none" /\ doing' = "left" /\ about' = room /\ ghosts' = ghosts \ {room}
      /\ UNCHANGED <<page, login, removing>> /\ login = "in" /\ "leave" \in Types(sent)
  BY HandleLeaveEffect DEF former
<1>2. room' = room /\ handle' = handle /\ listeners' = listeners /\ enabled' = enabled
  BY <1>1 DEF page
<1>3. sent \in Seq(Messages) /\ inbox \in Seq(Answers) /\ roster \in [Rooms -> SUBSET Users]
  BY DEF TypeInv, TypeOK
<1>4. /\ "left" \notin Types(inbox) /\ "joined" \notin Types(inbox)
      /\ Expected' = Types(inbox) \cup {"left"}
  BY <1>1 DEF InOrder, OneByOne, Expected
<1>5. /\ Range(sent) = {Head(sent)} \cup Range(sent')
      /\ Types(sent) = {"leave"} \cup Types(sent')
      /\ Never(sent', SentOrder) /\ "leave" \notin Types(sent')
  <2>1. Never(sent, SentOrder)
    BY <1>1 DEF InOrder, OneByOne
  <2>2. /\ Never(sent', SentOrder)
        /\ \A t \in Types(sent') : <<Head(sent).type, t>> \notin SentOrder
    BY <1>1, <1>3, <2>1, Shorter
  <2>3. "leave" \notin Types(sent')
    BY <1>1, <2>2 DEF SentOrder
  <2> QED
    BY <1>1, <1>3, <2>2, <2>3, Shorter
<1>6. OneByOne'
  <2>1. InboxOrdered'
    BY <1>1, <1>4 DEF InOrder, OneByOne, InboxOrdered, InboxOrder
  <2> QED
    BY <1>4, <1>5, <2>1 DEF OneByOne
<1>7. Departing'
  BY <1>4 DEF Departing
<1>8. Aims'
  BY <1>1, <1>2, <1>5, <1>7 DEF InOrder, Aims
<1>9. Listening' /\ InputOn'
  <2>1. ~ enabled
    BY <1>1 DEF InOrder, InputOn, Departing
  <2> QED
    BY <1>1, <1>2, <2>1 DEF InOrder, Listening, InputOn
<1>10. Whereabouts'
  <2> SUFFICES ASSUME NEW x \in Rooms, Me \in roster'[x]
               PROVE  Leftover(x)'
    BY DEF Whereabouts
  <2>1. x # room /\ Me \in roster[x]
    BY <1>1, <1>3
  <2>2. "joined" \notin Expected
    BY <1>1 DEF InOrder, OneByOne
  <2> QED
    BY <1>1, <2>1, <2>2 DEF InOrder, Whereabouts, Leftover
<1> QED
  BY <1>6, <1>8, <1>9, <1>10 DEF InOrder

LEMMA HandleJoinEffect ==
  ASSUME TypeInv, OrderInv, Orderly', HandleJoin
  PROVE  /\ InOrder /\ Orderly /\ sent # <<>> /\ Head(sent).type = "join"
         /\ Head(sent).room = handle /\ handle \in Rooms /\ sent' = Tail(sent)
         /\ doing = "none" /\ login = "in" /\ "join" \in Types(sent) /\ gaps \subseteq gaps'
         /\ \/ /\ roster' = roster /\ Answer(<<[type |-> "status"]>>)
               /\ UNCHANGED <<handler, ghosts, gaps>>
            \/ /\ roster' = [roster EXCEPT ![handle] = @ \cup {Me}]
               /\ doing' = "joined" /\ about' = handle /\ ghosts' = ghosts \ {handle}
               /\ gaps' = IF removing[handle] > 0 THEN gaps \cup {"early"} ELSE gaps
               /\ UNCHANGED <<inbox, merged>>
         /\ UNCHANGED <<login, page, subs, edited, former, news, carried, foreign, misled>>
<1>1. /\ sent # <<>> /\ sent' = Tail(sent) /\ Head(sent).type = "join" /\ gaps \subseteq gaps'
      /\ Handle("join")
  BY DEF HandleJoin, Handle
<1>2. Orderly /\ InOrder
  BY <1>1 DEF Orderly, Without, OrderInv
<1>3. /\ Head(sent) \in Messages /\ Range(sent) = {Head(sent)} \cup Range(Tail(sent))
      /\ "join" \in Types(sent)
  BY <1>1, Shorter DEF TypeInv, TypeOK
<1>4. Head(sent).room = handle /\ handle \in Rooms
  BY <1>1, <1>2, <1>3, MessageFields DEF InOrder, Aims
<1> QED
  BY <1>1, <1>2, <1>3, <1>4 DEF HandleJoin, Handle

LEMMA HandleJoinOrder ==
  ASSUME TypeInv, OrderInv, HandleJoin
  PROVE  OrderInv'
<1> SUFFICES ASSUME Orderly' PROVE InOrder'
  BY DEF OrderInv
<1> DEFINE status == [type |-> "status"]
<1>1. /\ InOrder /\ sent # <<>> /\ Head(sent).type = "join" /\ sent' = Tail(sent)
      /\ handle \in Rooms /\ doing = "none" /\ login = "in" /\ login' = "in"
      /\ "join" \in Types(sent) /\ UNCHANGED <<page, removing>>
      /\ \/ /\ roster' = roster /\ Answer(<<status>>)
            /\ UNCHANGED <<handler, ghosts, gaps>>
         \/ /\ roster' = [roster EXCEPT ![handle] = @ \cup {Me}]
            /\ doing' = "joined" /\ about' = handle /\ ghosts' = ghosts \ {handle}
            /\ UNCHANGED <<inbox, merged>>
  BY HandleJoinEffect DEF former
<1>2. room' = room /\ handle' = handle /\ listeners' = listeners /\ enabled' = enabled
  BY <1>1 DEF page
<1>3. sent \in Seq(Messages) /\ inbox \in Seq(Answers) /\ roster \in [Rooms -> SUBSET Users]
  BY DEF TypeInv, TypeOK
<1>4. "joined" \notin Expected /\ InboxOrdered
  BY <1>1 DEF InOrder, OneByOne
<1>5. /\ Range(sent) = {Head(sent)} \cup Range(sent')
      /\ Types(sent) = {"join"} \cup Types(sent')
      /\ Never(sent', SentOrder) /\ "join" \notin Types(sent') /\ "leave" \notin Types(sent')
  <2>1. Never(sent, SentOrder)
    BY <1>1 DEF InOrder, OneByOne
  <2>2. /\ Never(sent', SentOrder)
        /\ \A t \in Types(sent') : <<Head(sent).type, t>> \notin SentOrder
    BY <1>1, <1>3, <2>1, Shorter
  <2>3. "leave" \notin Types(sent') /\ "join" \notin Types(sent')
    BY <1>1, <2>2 DEF SentOrder
  <2> QED
    BY <1>1, <1>3, <2>2, <2>3, Shorter
<1>6. /\ InboxOrdered'
      /\ \A m \in Range(inbox') :
           m.type \in {"leave", "left", "join", "joined"} => m \in Range(inbox)
      /\ "left" \in Expected' <=> "left" \in Expected
      /\ \/ roster' = roster /\ doing' = "none" /\ "joined" \notin Expected'
         \/ /\ roster' = [roster EXCEPT ![handle] = @ \cup {Me}]
            /\ doing' = "joined" /\ about' = handle /\ "joined" \in Expected'
  <2>1. CASE roster' = roster /\ Answer(<<status>>) /\ UNCHANGED <<handler, ghosts, gaps>>
    <3>1. status \in Answers /\ status.type = "status"
      BY AnsweredPlain
    <3>2. doing' = doing /\ about' = about
      BY <2>1 DEF handler
    <3> HIDE DEF status
    <3>3. InboxAlike
      BY <2>1, <3>1, <3>2, PlainOne, DoingSame DEF TypeInv
    <3> QED
      BY <1>1, <1>4, <2>1, <3>2, <3>3 DEF InboxAlike
  <2>2. CASE /\ roster' = [roster EXCEPT ![handle] = @ \cup {Me}]
             /\ doing' = "joined" /\ about' = handle /\ UNCHANGED <<inbox, merged>>
    <3>1. InboxOrdered'
      BY <1>4, <2>2 DEF InboxOrdered, InboxOrder, Expected
    <3> QED
      BY <1>1, <2>2, <3>1 DEF Expected
  <2> QED
    BY <1>1, <2>1, <2>2
<1>7. OneByOne'
  BY <1>5, <1>6 DEF OneByOne
<1>8. Departing' <=> Departing
  BY <1>5, <1>6 DEF Departing
<1>9. Aims'
  <2>1. \A m \in Range(sent') \cup Range(inbox') :
          /\ m.type \in {"leave", "left"} => m.room = room
          /\ m.type \in {"join", "joined"} => m.room = handle
    BY <1>1, <1>5, <1>6 DEF InOrder, Aims
  <2>2. ~ Departing => room = NoRoom
    BY <1>1 DEF InOrder, Aims, Arriving
  <2>3. (doing' = "left" => about' = room) /\ (doing' = "joined" => about' = handle)
    BY <1>6
  <2> QED
    BY <1>2, <1>8, <2>1, <2>2, <2>3 DEF Aims
<1>10. Listening' /\ InputOn'
  BY <1>1, <1>2, <1>8 DEF InOrder, Listening, InputOn
<1>11. Whereabouts'
  <2> SUFFICES ASSUME NEW x \in Rooms, Me \in roster'[x]
               PROVE  \/ room = x /\ "left" \notin Expected'
                      \/ handle = x /\ "joined" \in Expected'
                      \/ Leftover(x)'
    BY <1>2 DEF Whereabouts
  <2>1. CASE x = handle /\ "joined" \in Expected'
    BY <2>1
  <2>2. CASE x = handle /\ "joined" \notin Expected'
    <3>1. roster' = roster /\ ghosts' = ghosts
      BY <1>1, <1>6, <2>2
    <3> QED
      BY <1>1, <1>4, <1>6, <2>2, <3>1 DEF InOrder, Whereabouts, Leftover
  <2>3. CASE x # handle
    <3>1. Me \in roster[x] /\ (x \in ghosts => x \in ghosts')
      BY <1>1, <1>3, <2>3
    <3> QED
      BY <1>1, <1>4, <1>6, <2>3, <3>1 DEF InOrder, Whereabouts, Leftover
  <2> QED
    BY <2>1, <2>2, <2>3
<1> QED
  BY <1>7, <1>9, <1>10, <1>11 DEF InOrder

\* The room that the client joined is shown.
LEMMA RoomJoinedEffect ==
  ASSUME TypeInv, OrderInv, Orderly', OnRoomJoined
  PROVE  /\ InOrder /\ Orderly /\ inbox # <<>> /\ Head(inbox).type = "joined"
         /\ Head(inbox) \in Answers /\ inbox' = Tail(inbox)
         /\ Range(inbox) = {Head(inbox)} \cup Range(inbox')
         /\ Types(inbox) = {"joined"} \cup Types(inbox') /\ InboxOrdered'
         /\ handle \in Rooms /\ room' = handle /\ handle' = handle /\ listeners' = listeners
         /\ enabled' = TRUE /\ login = "in" /\ login' = "in" /\ sent' = sent
         /\ server' = server /\ members' = members /\ history' = history
         /\ doing \notin {"left", "joined"} /\ room = NoRoom
         /\ ~ Departing' /\ ~ Arriving'
<1>1. /\ inbox # <<>> /\ Head(inbox).type = "joined" /\ inbox' = Tail(inbox)
      /\ room' = Head(inbox).room /\ history' = history /\ sent' = sent /\ server' = server
  BY DEF OnRoomJoined, Hear, SetRoomName
<1>2. Orderly /\ InOrder
  BY <1>1 DEF Orderly, Without, OrderInv, history
<1>3. inbox \in Seq(Answers) /\ InboxOrdered /\ Never(inbox, InboxOrder)
  BY <1>2 DEF TypeInv, TypeOK, InOrder, OneByOne, InboxOrdered
<1>4. /\ Head(inbox) \in Answers /\ Range(inbox) = {Head(inbox)} \cup Range(inbox')
      /\ Types(inbox) = {"joined"} \cup Types(inbox') /\ Never(inbox', InboxOrder)
      /\ \A t \in Types(inbox') : <<Head(inbox).type, t>> \notin InboxOrder
  BY <1>1, <1>3, Shorter
<1>5. Head(inbox).room = handle /\ handle \in Rooms
  BY <1>1, <1>2, <1>4, AnswerFields DEF InOrder, Aims
<1>6. /\ "left" \notin Types(inbox') /\ "joined" \notin Types(inbox')
      /\ doing \notin {"left", "joined"} /\ doing' = doing
  BY <1>1, <1>3, <1>4 DEF InboxOrder, InboxOrdered, server, handler
<1>7. "join" \notin Types(sent) /\ "leave" \notin Types(sent)
  BY <1>2, <1>4 DEF InOrder, OneByOne, Expected
<1>8. ~ Departing' /\ ~ Arriving'
  BY <1>1, <1>6, <1>7 DEF Departing, Arriving, Expected
<1>9. room = NoRoom
  BY <1>2, <1>4, <1>6, <1>7 DEF InOrder, Aims, Departing, Arriving, Expected
<1>10. InboxOrdered'
  BY <1>3, <1>4, <1>6 DEF InboxOrdered
<1> QED
  BY <1>1, <1>2, <1>4, <1>5, <1>6, <1>8, <1>9, <1>10
  DEF OnRoomJoined, Hear

LEMMA RoomJoinedOrder ==
  ASSUME TypeInv, OrderInv, OnRoomJoined
  PROVE  OrderInv'
<1> SUFFICES ASSUME Orderly' PROVE InOrder'
  BY DEF OrderInv
<1>1. /\ InOrder /\ inbox # <<>> /\ inbox' = Tail(inbox)
      /\ Range(inbox) = {Head(inbox)} \cup Range(inbox')
      /\ Types(inbox) = {"joined"} \cup Types(inbox') /\ InboxOrdered'
      /\ handle \in Rooms /\ room' = handle /\ handle' = handle /\ listeners' = listeners
      /\ sent' = sent /\ server' = server /\ history' = history /\ room = NoRoom
      /\ doing \notin {"left", "joined"}
      /\ ~ Departing' /\ ~ Arriving'
  BY RoomJoinedEffect
<1>10. /\ doing' = doing /\ roster' = roster /\ \A x : Leftover(x)' <=> Leftover(x)
  BY <1>1 DEF server, handler, former, history, Leftover
<1>2. OneByOne'
  BY <1>1 DEF InOrder, OneByOne, Departing, Arriving, Expected
<1>3. Aims'
  <2>1. sent' \in Seq(Messages) /\ inbox \in Seq(Answers)
    BY <1>1 DEF TypeInv, TypeOK
  <2>2. inbox' \in Seq(Answers)
    BY <1>1, <2>1, Shorter
  <2>3. (\A m \in Range(sent') : m \in Messages) /\ (\A m \in Range(inbox') : m \in Answers)
    BY <2>1, <2>2 DEF Range
  <2>4. ASSUME NEW m \in Range(sent') \cup Range(inbox')
        PROVE  m.type \notin {"leave", "left", "join", "joined"}
    <3>1. CASE m \in Range(sent')
      <4>1. m.type \in Types(sent') /\ m \in Messages
        BY <2>3, <3>1 DEF Types
      <4> QED
        BY <1>1, <4>1, MessageFields DEF Departing, Arriving, Expected
    <3>2. CASE m \in Range(inbox')
      <4>1. m.type \in Types(inbox') /\ m \in Answers
        BY <2>3, <3>2 DEF Types
      <4> QED
        BY <1>1, <4>1, AnswerFields DEF Departing, Arriving, Expected
    <3> QED
      BY <2>4, <3>1, <3>2
  <2> QED
    BY <1>1, <1>10, <2>4 DEF Aims
<1>4. Listening'
  BY <1>1 DEF InOrder, Listening
<1>5. InputOn'
  BY <1>1, ClientAssumption DEF InputOn
<1>6. Whereabouts'
  BY <1>1, <1>10, ClientAssumption DEF InOrder, Whereabouts, Departing
<1> QED
  BY <1>2, <1>3, <1>4, <1>5, <1>6 DEF InOrder

\* The room that the client left is shown no more.
LEMMA RoomLeftEffect ==
  ASSUME TypeInv, OrderInv, Orderly', OnRoomLeft
  PROVE  /\ InOrder /\ Orderly /\ inbox # <<>> /\ Head(inbox).type = "left"
         /\ Head(inbox) \in Answers /\ inbox' = Tail(inbox)
         /\ Range(inbox) = {Head(inbox)} \cup Range(inbox')
         /\ Types(inbox) = {"left"} \cup Types(inbox') /\ InboxOrdered'
         /\ room # NoRoom /\ room' = NoRoom /\ handle' = handle /\ listeners' = listeners
         /\ enabled' = enabled /\ login = "in" /\ login' = "in" /\ sent' = sent
         /\ server' = server /\ members' = members /\ history' = history
         /\ doing # "left"
         /\ ~ Departing'
<1>1. /\ inbox # <<>> /\ Head(inbox).type = "left" /\ inbox' = Tail(inbox)
      /\ history' = history /\ sent' = sent /\ server' = server
  BY DEF OnRoomLeft, Hear
<1>2. Orderly /\ InOrder
  BY <1>1 DEF Orderly, Without, OrderInv, history
<1>3. inbox \in Seq(Answers) /\ InboxOrdered /\ Never(inbox, InboxOrder)
  BY <1>2 DEF TypeInv, TypeOK, InOrder, OneByOne, InboxOrdered
<1>4. /\ Head(inbox) \in Answers /\ Range(inbox) = {Head(inbox)} \cup Range(inbox')
      /\ Types(inbox) = {"left"} \cup Types(inbox') /\ Never(inbox', InboxOrder)
      /\ \A t \in Types(inbox') : <<Head(inbox).type, t>> \notin InboxOrder
  BY <1>1, <1>3, Shorter
<1>5. Head(inbox).room = room /\ room # NoRoom
  BY <1>1, <1>2, <1>4, AnswerFields, ClientAssumption DEF InOrder, Aims
<1>9. doing # "left" /\ doing' = doing
  BY <1>1, <1>3, <1>4 DEF InboxOrder, InboxOrdered, server, handler
<1>6. "left" \notin Types(inbox') /\ "leave" \notin Types(sent)
  BY <1>1, <1>2, <1>4 DEF InboxOrder, InOrder, OneByOne, Expected
<1>7. ~ Departing'
  BY <1>1, <1>6, <1>9 DEF Departing, Expected
<1>8. room' = NoRoom
  BY <1>5 DEF OnRoomLeft
<1>10. InboxOrdered'
  BY <1>3, <1>4, <1>9 DEF InboxOrdered
<1> QED
  BY <1>1, <1>2, <1>4, <1>5, <1>7, <1>8, <1>9, <1>10 DEF OnRoomLeft, Hear

LEMMA RoomLeftOrder ==
  ASSUME TypeInv, OrderInv, OnRoomLeft
  PROVE  OrderInv'
<1> SUFFICES ASSUME Orderly' PROVE InOrder'
  BY DEF OrderInv
<1>1. /\ InOrder /\ inbox # <<>> /\ inbox' = Tail(inbox)
      /\ Range(inbox) = {Head(inbox)} \cup Range(inbox')
      /\ Types(inbox) = {"left"} \cup Types(inbox') /\ InboxOrdered'
      /\ room' = NoRoom /\ handle' = handle /\ listeners' = listeners /\ enabled' = enabled
      /\ sent' = sent /\ server' = server /\ history' = history /\ login = "in"
      /\ doing # "left" /\ ~ Departing'
  BY RoomLeftEffect
<1>10. /\ doing' = doing /\ about' = about /\ roster' = roster
       /\ \A x : Leftover(x)' <=> Leftover(x)
       /\ "left" \in Expected /\ ("joined" \in Expected' <=> "joined" \in Expected)
  BY <1>1 DEF server, handler, former, history, Leftover, Expected
<1>2. OneByOne'
  BY <1>1, <1>10 DEF InOrder, OneByOne, Departing
<1>3. Aims'
  <2>1. inbox' \in Seq(Answers)
    <3>1. inbox \in Seq(Answers)
      BY DEF TypeInv, TypeOK
    <3> QED
      BY <1>1, <3>1, Shorter
  <2>2. \A m \in Range(sent') : m.type \in Types(sent')
    BY DEF Types
  <2>3. \A m \in Range(inbox') : m.type \in Types(inbox')
    BY DEF Types
  <2>4. sent \in Seq(Messages) /\ inbox' \in Seq(Answers)
    BY <2>1 DEF TypeInv, TypeOK
  <2>5. (\A m \in Range(sent') : m \in Messages) /\ (\A m \in Range(inbox') : m \in Answers)
    BY <1>1, <2>4 DEF Range
  <2>6. \A m \in Range(sent') \cup Range(inbox') : m.type \notin {"leave", "left"}
    BY <1>1, <2>2, <2>3, <2>5, MessageFields, AnswerFields DEF Departing, Expected
  <2> QED
    BY <1>1, <1>10, <2>6 DEF InOrder, Aims
<1>4. Listening'
  BY <1>1 DEF InOrder, Listening
<1>5. InputOn'
  BY <1>1, <1>10 DEF InOrder, InputOn, Departing
<1>6. Whereabouts'
  BY <1>1, <1>10 DEF InOrder, Whereabouts
<1> QED
  BY <1>2, <1>3, <1>4, <1>5, <1>6 DEF InOrder

-----------------------------------------------------------------------------

SessionInv == TypeInv /\ NoSession /\ LoggedOut /\ OrderInv

LEMMA InitSession == Init => SessionInv
<1> SUFFICES ASSUME Init PROVE SessionInv
  OBVIOUS
<1>1. /\ login = "out" /\ room = NoRoom /\ handle = NoRoom /\ sent = <<>> /\ inbox = <<>>
      /\ subs = {} /\ edited = {} /\ enabled = FALSE /\ listeners = [r \in Rooms |-> 0]
      /\ roster \in [Rooms -> SUBSET (Users \ {Me})] /\ doing = "none"
  BY DEF Init
<1>2. NoSession /\ LoggedOut
  BY <1>1 DEF NoSession, LoggedOut
<1>3. OneByOne /\ Aims
  BY <1>1, EmptyQueue DEF OneByOne, InboxOrdered, Expected, Aims, Arriving
<1>4. Listening /\ InputOn /\ Whereabouts
  BY <1>1, ClientAssumption DEF Listening, InputOn, Whereabouts
<1> QED
  BY <1>2, <1>3, <1>4, InitTypes DEF SessionInv, OrderInv, InOrder

LEMMA OrderStep == SessionInv /\ [Next]_vars => OrderInv'
<1> SUFFICES ASSUME SessionInv, [Next]_vars PROVE OrderInv'
  OBVIOUS
<1>1. TypeInv /\ NoSession /\ LoggedOut /\ OrderInv
  BY DEF SessionInv
<1>2. CASE UserStep
  BY <1>1, <1>2, LoginOrder, LeaveRoomOrder, JoinRoomOrder, FormOrder DEF UserStep
<1>3. CASE ClientStep
  BY <1>1, <1>3, LoginOrder, HearOrder, RoomJoinedOrder, RoomLeftOrder DEF ClientStep
<1>4. CASE ServerStep
  BY <1>1, <1>4, ServerOrder, HandleJoinOrder, HandleLeaveOrder DEF ServerStep, PlainStep
<1>7. CASE OtherStep
  BY <1>1, <1>7, OtherOrder
<1>5. CASE LoseSession
  BY <1>1, <1>5, LoginOrder
<1>6. CASE UNCHANGED vars
  <2>1. /\ room' = room /\ handle' = handle /\ listeners' = listeners /\ enabled' = enabled
        /\ login' = login /\ inbox' = inbox /\ server' = server /\ gaps' = gaps /\ sent' = sent
        /\ ghosts' = ghosts
    BY <1>6 DEF vars, page, history
  <2>2. Listening => Listening'
    BY <2>1 DEF Listening
  <2>3. SentAlike /\ InboxAlike /\ RosterAlike
    BY <2>1, SentSame, InboxSame, DoingSame, RosterSame DEF server, handler, former
  <2> QED
    BY <1>1, <2>1, <2>2, <2>3, OrderKept
<1> QED
  BY <1>2, <1>3, <1>4, <1>5, <1>6, <1>7 DEF Next

LEMMA Sessions == Spec => []SessionInv
<1>1. SessionInv /\ [Next]_vars => SessionInv'
  BY TypeStep, SessionStep, OrderStep DEF SessionInv
<1> QED
  BY <1>1, InitSession, PTL DEF Spec

\* Once all has come to its end the client is in no room that it does not show,
\* but one that a join of a former session put it into too late, if it leaves a
\* room once, joins a room when it holds no other, no leave is refused and no
\* answer to an edit strays.
THEOREM OneRoom == Spec => []NowhereElse
<1>1. SessionInv => NowhereElse
  <2> SUFFICES ASSUME SessionInv, Settled, Orderly, NEW r \in Rooms, Me \in roster[r]
               PROVE  room = r \/ r \in ghosts
    BY DEF NowhereElse, Orderly
  <2>1. Expected = {"none"} /\ Whereabouts
    BY EmptyQueue DEF Settled, Answered, SessionInv, OrderInv, InOrder, Expected
  <2>2. ~ (removing[r] > 0)
    BY DEF Settled, SessionInv, TypeInv, TypeOK
  <2> QED
    BY <2>1, <2>2 DEF Whereabouts, Leftover
<1> QED
  BY <1>1, Sessions, PTL

\* Whenever the text field takes input there is a room to send it to.
THEOREM RoomForInput == Spec => []InputHasRoom
<1>1. SessionInv => InputHasRoom
  BY DEF SessionInv, OrderInv, InOrder, InputOn, InputHasRoom, Orderly
<1> QED
  BY <1>1, Sessions, PTL


-----------------------------------------------------------------------------
\* Chats.

LEMMA GapsGrow == [Next]_vars /\ ~ Logout => gaps \subseteq gaps'
<1> SUFFICES ASSUME [Next]_vars, ~ Logout PROVE gaps \subseteq gaps'
  OBVIOUS
<1> USE DEF history
<1>1. CASE UserStep
  BY <1>1 DEF UserStep, Login, LeaveRoom, JoinRoom, Join, OpenNewRoom, CreateRoom,
              CancelNewRoom, OpenEdit, SaveRoom, CancelEdit, SendText
<1>2. CASE ClientStep
  BY <1>2 DEF ClientStep, Handshake, OnMembers, OnRoomJoined, OnRoomLeft, OnRoomEdit,
              OnRoomCreate, OnRooms, OnStatus
<1>3. CASE ServerStep
  BY <1>3, ServerSame DEF ServerStep, PlainStep, HandleJoin, HandleLeave
<1>4. CASE OtherStep
  BY <1>4, OtherSame
<1>5. CASE LoseSession
  BY <1>5 DEF LoseSession
<1>6. CASE UNCHANGED vars
  BY <1>6 DEF vars
<1> QED
  BY <1>1, <1>2, <1>3, <1>4, <1>5, <1>6 DEF Next

\* What the messages and the state refer to are rooms.
LEMMA Referred ==
  ASSUME TypeInv, InOrder
  PROVE  /\ enabled /\ login # "out" => room \in Rooms
         /\ "joined" \in Expected => handle \in Rooms
         /\ \A m \in Range(sent) : m.type = "chat" => m.room \in Rooms
<1>1. (\A m \in Range(sent) : m \in Messages) /\ (\A m \in Range(inbox) : m \in Answers)
  BY DEF TypeInv, TypeOK, Range
<1>2. enabled /\ login # "out" => room \in Rooms
  BY DEF InOrder, InputOn, TypeInv, TypeOK
<1>3. ASSUME "joined" \in Types(inbox) PROVE handle \in Rooms
  <2>1. PICK m \in Range(inbox) : m.type = "joined"
    BY <1>3 DEF Types
  <2>2. m.room \in Rooms /\ m.room = handle
    BY <1>1, <2>1, AnswerFields DEF InOrder, Aims
  <2> QED
    BY <2>2
<1>4. doing = "joined" => handle \in Rooms
  BY DEF InOrder, Aims, TypeInv, Held
<1> QED
  BY <1>1, <1>2, <1>3, <1>4, MessageFields DEF Expected

\* A step after which the client still is where it was, and sends no chat.
LEMMA SpeakingKept ==
  ASSUME TypeInv, InOrder, Speaking, ~ foreign', login' = login, room' = room,
         handle' = handle, enabled' => enabled,
         \A r \in Rooms : Safe(r) => Safe(r)',
         "joined" \in Expected' => "joined" \in Expected,
         \A m \in Range(sent') : m.type = "chat" => m \in Range(sent)
  PROVE  Speaking'
<1>1. enabled' /\ login' # "out" => login' = "in" /\ Safe(room)'
  BY Referred DEF Speaking
<1>2. "joined" \in Expected' => Safe(handle)'
  BY Referred DEF Speaking
<1>3. ASSUME NEW m \in Range(sent'), m.type = "chat"
      PROVE  Safe(m.room)'
  BY <1>3, Referred DEF Speaking
<1>4. /\ room' = room /\ handle' = handle
  OBVIOUS
<1> QED
  BY <1>1, <1>2, <1>3, <1>4 DEF Speaking, Safe

\* The server does nothing.
LEMMA ServerIdle ==
  ASSUME server' = server
  PROVE  /\ roster' = roster /\ removing' = removing /\ doing' = doing
         /\ \A r : Safe(r)' <=> Safe(r)
         /\ inbox' = inbox => Expected' = Expected
  BY DEF server, handler, former, Safe, Expected

\* A step of the user.
LEMMA UserSpeaking ==
  ASSUME SessionInv, Speaking, Orderly', UserStep, ~ Logout
  PROVE  Speaking'
<1>1. TypeInv /\ OrderInv /\ gaps \subseteq gaps'
  BY GapsGrow DEF SessionInv, Next
<1>2. Orderly /\ InOrder
  BY <1>1 DEF Orderly, Without, OrderInv
<1>3. sent \in Seq(Messages)
  BY <1>1 DEF TypeInv, TypeOK
<1>4. CASE Login
  <2>1. /\ login' = "shaking" /\ enabled' = FALSE /\ handle' = handle /\ sent' = sent
        /\ inbox' = inbox /\ server' = server /\ foreign' = foreign
    BY <1>4 DEF Login, history
  <2>2. (\A r : Safe(r)' <=> Safe(r)) /\ Expected' = Expected
    BY <2>1, ServerIdle
  <2> QED
    BY <2>1, <2>2 DEF Speaking, Safe
<1>5. CASE LeaveRoom
  <2>1. /\ room # NoRoom /\ room' = room /\ enabled' = FALSE /\ sent' = sent \o Leaving
        /\ inbox' = inbox /\ server' = server /\ foreign' = foreign
    BY <1>5 DEF LeaveRoom
  <2>2. ~ Arriving
    BY <1>1, <1>5, NothingUnderWay
  <2>3. Leaving \in Seq(Messages) /\ \A m \in Range(Leaving) : m.type # "chat"
    BY <1>1, <2>1, LeavingShape DEF TypeInv, Types
  <2>4. Range(sent') = Range(sent) \cup Range(Leaving)
    BY <1>3, <2>1, <2>3, Longer
  <2>5. (\A r : Safe(r)' <=> Safe(r)) /\ Expected' = Expected
    BY <2>1, ServerIdle
  <2>6. \A m \in Range(sent') : m.type = "chat" => Safe(m.room)
    BY <2>3, <2>4 DEF Speaking
  <2> QED
    BY <2>1, <2>2, <2>5, <2>6 DEF Speaking, Arriving, Safe
<1>6. CASE \E r \in Rooms : JoinRoom(r)
  <2>1. PICK r \in Rooms : JoinRoom(r)
    BY <1>6
  <2> DEFINE sub == [type |-> "subscribe", room |-> r]
             join == [type |-> "join", room |-> r]
             a == sent \o Leaving
             b == a \o <<sub>>
  <2>2. /\ sent' = b \o <<join>> /\ room' = room /\ login = "in"
        /\ enabled' = (enabled /\ room = NoRoom)
        /\ inbox' = inbox /\ server' = server /\ foreign' = foreign
    BY <1>1, <2>1, JoinEffect
  <2>3. ~ Arriving
    BY <1>1, <1>6, NothingUnderWay
  <2>4. /\ sub \in Messages /\ sub.type # "chat"
        /\ join \in Messages /\ join.type # "chat"
    BY SentRoom
  <2> HIDE DEF sub, join
  <2>5. Leaving \in Seq(Messages) /\ \A m \in Range(Leaving) : m.type # "chat"
    <3>1. CASE room # NoRoom
      BY <1>1, <3>1, LeavingShape DEF TypeInv, Types
    <3>2. CASE room = NoRoom
      BY <3>2, EmptyQueue DEF Leaving
    <3> QED
      BY <3>1, <3>2
  <2>6. a \in Seq(Messages) /\ Range(a) = Range(sent) \cup Range(Leaving)
    BY <1>3, <2>5, Longer
  <2> HIDE DEF a
  <2>7. b \in Seq(Messages) /\ Range(b) = Range(a) \cup {sub}
    BY <2>4, <2>6, LongerByOne
  <2> HIDE DEF b
  <2>8. Range(sent') = Range(b) \cup {join}
    BY <2>2, <2>4, <2>7, LongerByOne
  <2>9. ~ enabled'
    BY <1>2, <2>2 DEF InOrder, InputOn
  <2>10. (\A x : Safe(x)' <=> Safe(x)) /\ Expected' = Expected
    BY <2>2, ServerIdle
  <2>11. \A m \in Range(sent') : m.type = "chat" => Safe(m.room)
    BY <2>4, <2>5, <2>6, <2>7, <2>8 DEF Speaking
  <2> QED
    BY <2>2, <2>3, <2>9, <2>10, <2>11 DEF Speaking, Arriving, Safe
<1>7. CASE OpenNewRoom \/ CancelNewRoom \/ OpenEdit \/ CancelEdit
  <2>1. /\ room' = room /\ handle' = handle /\ enabled' = enabled /\ login' = login
        /\ sent' = sent /\ inbox' = inbox /\ server' = server /\ foreign' = foreign
    BY <1>7 DEF OpenNewRoom, CancelNewRoom, OpenEdit, CancelEdit, history
  <2>2. (\A r : Safe(r)' <=> Safe(r)) /\ Expected' = Expected
    BY <2>1, ServerIdle
  <2>3. ~ foreign'
    BY <2>1 DEF Speaking
  <2> QED
    BY <1>1, <1>2, <2>1, <2>2, <2>3, SpeakingKept
<1>8. CASE CreateRoom \/ SaveRoom
  <2>1. PICK m \in Messages : m.type # "chat" /\ sent' = sent \o <<m>>
    <3>1. CASE CreateRoom
      <4> DEFINE c == [type |-> "create"]
      <4>1. c \in Messages /\ c.type # "chat"
        BY DEF Messages
      <4>2. sent' = sent \o <<c>>
        BY <1>3, <3>1 DEF CreateRoom
      <4> HIDE DEF c
      <4> QED
        BY <4>1, <4>2
    <3>2. CASE SaveRoom
      <4> DEFINE e == [type |-> "edit", room |-> title]
      <4>1. e \in Messages /\ e.type # "chat"
        BY <1>1, <3>2, SentRoom DEF SaveRoom, TypeInv, TypeOK, Held
      <4>2. sent' = sent \o <<e>>
        BY <1>3, <3>2 DEF SaveRoom
      <4> HIDE DEF e
      <4> QED
        BY <4>1, <4>2
    <3> QED
      BY <1>8, <3>1, <3>2
  <2>2. Range(sent') = Range(sent) \cup {m}
    BY <1>3, <2>1, LongerByOne
  <2>3. /\ room' = room /\ handle' = handle /\ enabled' = enabled /\ login' = login
        /\ inbox' = inbox /\ server' = server /\ foreign' = foreign
    BY <1>8 DEF CreateRoom, SaveRoom, page, history
  <2>4. (\A r : Safe(r)' <=> Safe(r)) /\ Expected' = Expected /\ ~ foreign'
    BY <2>3, ServerIdle DEF Speaking
  <2> QED
    BY <1>1, <1>2, <2>1, <2>2, <2>3, <2>4, SpeakingKept
<1>9. CASE SendText
  <2> DEFINE m == [type |-> "chat", room |-> room]
  <2>1. m \in Messages /\ m.room = room
    BY <1>1, <1>9, SentRoom DEF SendText, TypeInv, TypeOK
  <2>2. sent' = sent \o <<m>>
    BY <1>3, <1>9 DEF SendText
  <2> HIDE DEF m
  <2>3. Range(sent') = Range(sent) \cup {m}
    BY <1>3, <2>1, <2>2, LongerByOne
  <2>4. /\ room' = room /\ handle' = handle /\ enabled' = enabled /\ login' = login
        /\ inbox' = inbox /\ server' = server /\ foreign' = foreign
        /\ enabled /\ login = "in"
    BY <1>9 DEF SendText, Click, page, history
  <2>5. (\A r : Safe(r)' <=> Safe(r)) /\ Expected' = Expected
    BY <2>4, ServerIdle
  <2>6. \A k \in Range(sent') : k.type = "chat" => Safe(k.room)
    BY <2>1, <2>3, <2>4 DEF Speaking
  <2> QED
    BY <2>4, <2>5, <2>6 DEF Speaking, Safe
<1> QED
  BY <1>4, <1>5, <1>6, <1>7, <1>8, <1>9 DEF UserStep

\* The client learns that it has joined, or left, and goes on.
LEMMA ClientSpeaking ==
  ASSUME SessionInv, Speaking, Orderly', ClientStep
  PROVE  Speaking'
<1>1. TypeInv /\ OrderInv /\ NoSession /\ gaps \subseteq gaps'
  <2>1. ~ Logout
    BY DEF ClientStep, Handshake, OnMembers, OnRoomJoined, OnRoomLeft, OnRoomEdit,
           OnRoomCreate, OnRooms, OnStatus, Hear, Logout
  <2> QED
    BY <2>1, GapsGrow DEF SessionInv, Next
<1>2. Orderly /\ InOrder
  BY <1>1 DEF Orderly, Without, OrderInv
<1>3. CASE Handshake
  <2>1. /\ login = "shaking" /\ enabled' = enabled /\ server' = server /\ foreign' = foreign
        /\ inbox' = <<[type |-> "rooms"]>>
        /\ sent' = IF handle # NoRoom THEN <<[type |-> "subscribe", room |-> handle]>> ELSE <<>>
    BY <1>3 DEF Handshake, Resubscribe, history
  <2>2. Types(inbox') = {"rooms"} /\ \A m \in Range(sent') : m.type = "subscribe"
    BY <2>1, EmptyQueue, Single
  <2>3. "joined" \notin Expected'
    BY <1>1, <2>1, <2>2, ServerIdle DEF NoSession, Expected
  <2> QED
    BY <2>1, <2>2, <2>3 DEF Speaking
<1>4. CASE OnRoomJoined
  <2>1. /\ Types(inbox) = {"joined"} \cup Types(inbox') /\ room' = handle /\ login' = "in"
        /\ sent' = sent /\ server' = server /\ history' = history /\ ~ Arriving'
    BY <1>1, <1>4, RoomJoinedEffect
  <2>2. (\A r : Safe(r)' <=> Safe(r)) /\ "joined" \in Expected
    BY <2>1, ServerIdle DEF Expected
  <2> QED
    BY <2>1, <2>2 DEF Speaking, Arriving, Safe, history
<1>5. CASE OnRoomLeft
  <2>1. /\ Types(inbox) = {"left"} \cup Types(inbox') /\ login = "in" /\ handle' = handle
        /\ enabled' = enabled /\ sent' = sent /\ server' = server /\ history' = history
    BY <1>1, <1>5, RoomLeftEffect
  <2>2. ~ enabled
    BY <1>2, <2>1 DEF InOrder, InputOn, Departing, Expected
  <2>3. (\A r : Safe(r)' <=> Safe(r)) /\ ("joined" \in Expected' => "joined" \in Expected)
    BY <2>1, ServerIdle DEF Expected
  <2> QED
    BY <2>1, <2>2, <2>3 DEF Speaking, Safe, history
<1>6. CASE OnMembers \/ OnRoomEdit \/ OnRoomCreate \/ OnRooms \/ OnStatus
  <2>1. /\ handle' = handle /\ enabled' = enabled /\ login' = login /\ sent' = sent
        /\ server' = server /\ foreign' = foreign /\ inbox # <<>> /\ inbox' = Tail(inbox)
    BY <1>6 DEF OnMembers, OnRoomEdit, OnRoomCreate, OnRooms, OnStatus, Hear, page, history
  <2>2. room' = room
    BY <1>6 DEF OnMembers, OnRoomEdit, OnRoomCreate, OnRooms, OnStatus, page, Orderly, Without
  <2>3. Types(inbox') \subseteq Types(inbox)
    BY <1>1, <2>1, Shorter DEF TypeInv, TypeOK
  <2>4. /\ \A r : Safe(r)' <=> Safe(r)
        /\ "joined" \in Expected' => "joined" \in Expected
        /\ ~ foreign'
    BY <2>1, <2>3, ServerIdle DEF Expected, Speaking
  <2> QED
    BY <1>1, <1>2, <2>1, <2>2, <2>4, SpeakingKept
<1> QED
  BY <1>3, <1>4, <1>5, <1>6 DEF ClientStep

\* The server lets the user in and out, and publishes the chats.
LEMMA ServerSpeaking ==
  ASSUME SessionInv, Speaking, Orderly', "early" \notin gaps', ServerStep
  PROVE  Speaking'
<1>1. TypeInv /\ TypeOK /\ OrderInv /\ gaps \subseteq gaps'
  <2>1. gaps \subseteq gaps'
    BY ServerSame DEF ServerStep, PlainStep, HandleJoin, HandleLeave
  <2> QED
    BY <2>1 DEF SessionInv, TypeInv
<1>2. Orderly /\ InOrder
  BY <1>1 DEF Orderly, Without, OrderInv
<1>3. /\ sent \in Seq(Messages) /\ inbox \in Seq(Answers) /\ roster \in [Rooms -> SUBSET Users]
      /\ removing \in [Rooms -> Nat]
  BY <1>1 DEF TypeOK
<1>4. CASE PlainStep
  <2>1. /\ room' = room /\ handle' = handle /\ enabled' = enabled /\ login' = login
        /\ \A r : Safe(r)' <=> Safe(r)
    BY <1>4, ServerSame DEF page, former, Safe
  <2>2. "joined" \in Expected' => "joined" \in Expected
    BY <1>1, <1>4, ServerInbox DEF InboxAlike
  <2>3. \A m \in Range(sent') : m \in Range(sent)
    <3>1. CASE sent # <<>> /\ sent' = Tail(sent)
      BY <1>3, <3>1, Shorter
    <3> QED
      BY <1>4, <3>1 DEF PlainStep, HandleSubscription, HandleEdit, AnswerEdit, HandleCreate,
         HandleChat, JoinHandled, MergeMembers, DeliverMembers, LeaveHandled, Handle
  <2>4. ~ foreign'
    <3>1. CASE HandleChat
      <4>1. /\ sent # <<>> /\ Head(sent).type = "chat"
            /\ foreign' = (foreign \/ Me \notin roster[Head(sent).room])
        BY <3>1 DEF HandleChat, Handle
      <4>2. Head(sent) \in Range(sent)
        BY <1>3, <4>1, Shorter
      <4> QED
        BY <4>1, <4>2 DEF Speaking, Safe
    <3>2. CASE ~ HandleChat
      <4>1. foreign' = foreign
        BY <1>4, <3>2 DEF PlainStep, HandleSubscription, HandleEdit, AnswerEdit, HandleCreate,
           JoinHandled, MergeMembers, DeliverMembers, LeaveHandled, history
      <4> QED
        BY <4>1 DEF Speaking
    <3> QED
      BY <3>1, <3>2
  <2> QED
    BY <1>1, <1>2, <2>1, <2>2, <2>3, <2>4, SpeakingKept
<1>5. CASE HandleJoin
  <2> DEFINE status == [type |-> "status"]
  <2>1. /\ sent # <<>> /\ sent' = Tail(sent) /\ handle \in Rooms
        /\ UNCHANGED <<login, page, former, foreign>>
        /\ \/ roster' = roster /\ Answer(<<status>>) /\ UNCHANGED <<handler, ghosts, gaps>>
           \/ /\ roster' = [roster EXCEPT ![handle] = @ \cup {Me}]
              /\ gaps' = IF removing[handle] > 0 THEN gaps \cup {"early"} ELSE gaps
    BY <1>1, <1>5, HandleJoinEffect
  <2>2. \A m \in Range(sent') : m \in Range(sent)
    BY <1>3, <2>1, Shorter
  <2>3. /\ room' = room /\ handle' = handle /\ enabled' = enabled /\ login' = login
        /\ removing' = removing /\ ~ foreign'
    BY <2>1 DEF page, former, Speaking
  <2>4. CASE roster' = roster /\ Answer(<<status>>) /\ UNCHANGED <<handler, ghosts, gaps>>
    <3>1. status \in Answers /\ status.type = "status"
      BY AnsweredPlain
    <3> HIDE DEF status
    <3>2. InboxAlike
      BY <1>1, <2>4, <3>1, PlainOne, DoingSame DEF handler
    <3>3. \A r \in Rooms : Safe(r) => Safe(r)'
      BY <2>3, <2>4 DEF Safe
    <3> QED
      BY <1>1, <1>2, <2>2, <2>3, <3>2, <3>3, SpeakingKept DEF InboxAlike
  <2>5. CASE /\ roster' = [roster EXCEPT ![handle] = @ \cup {Me}]
             /\ gaps' = IF removing[handle] > 0 THEN gaps \cup {"early"} ELSE gaps
    <3>1. ~ (removing[handle] > 0) /\ removing[handle] \in Nat
      BY <1>3, <2>1, <2>5
    <3>2. removing[handle] = 0
      BY <3>1
    <3>3. \A r \in Rooms : roster[r] \subseteq roster'[r]
      BY <1>3, <2>5
    <3>4. Me \in roster'[handle]
      BY <1>3, <2>1, <2>5
    <3>5. Safe(handle)' /\ \A r \in Rooms : Safe(r) => Safe(r)'
      BY <2>3, <3>2, <3>3, <3>4 DEF Safe
    <3>6. enabled' /\ login' # "out" => login' = "in" /\ Safe(room)'
      BY <1>1, <1>2, <2>3, <3>5, Referred DEF Speaking
    <3>7. ASSUME NEW m \in Range(sent'), m.type = "chat" PROVE Safe(m.room)'
      BY <1>1, <1>2, <2>2, <3>5, <3>7, Referred DEF Speaking
    <3>8. \A m \in Range(sent') : m.type = "chat" => Safe(m.room)'
      BY <3>7
    <3> QED
      BY <2>3, <3>5, <3>6, <3>8 DEF Speaking, Safe
  <2> QED
    BY <2>1, <2>4, <2>5
<1>6. CASE HandleLeave
  <2>1. /\ sent # <<>> /\ Head(sent).type = "leave" /\ sent' = Tail(sent)
        /\ inbox' = inbox /\ doing' = "left" /\ "leave" \in Types(sent)
        /\ UNCHANGED <<login, page, foreign>> /\ login = "in"
    BY <1>1, <1>6, HandleLeaveEffect
  <2>2. "joined" \notin Expected'
    BY <1>2, <2>1 DEF InOrder, OneByOne, Expected
  <2>3. ~ enabled /\ enabled' = enabled
    BY <1>2, <2>1 DEF InOrder, InputOn, Departing, page
  <2>4. "chat" \notin Types(sent')
    <3>1. Never(sent, SentOrder)
      BY <1>2 DEF InOrder, OneByOne
    <3>2. \A t \in Types(sent') : <<Head(sent).type, t>> \notin SentOrder
      BY <1>3, <2>1, <3>1, Shorter
    <3> QED
      BY <2>1, <3>2 DEF SentOrder
  <2>5. \A m \in Range(sent') : m.type # "chat"
    BY <2>4 DEF Types
  <2> QED
    BY <2>1, <2>2, <2>3, <2>5 DEF Speaking
<1> QED
  BY <1>4, <1>5, <1>6 DEF ServerStep, PlainStep

\* Nobody else takes the user out of a room but who removes a former session.
LEMMA OtherSpeaking ==
  ASSUME SessionInv, Speaking, Orderly', OtherStep
  PROVE  Speaking'
<1>1. TypeInv /\ OrderInv /\ UNCHANGED <<login, page, sent, handler, gaps, foreign>>
  BY OtherSame DEF SessionInv
<1>2. Orderly /\ InOrder
  BY <1>1 DEF Orderly, Without, OrderInv
<1>3. roster \in [Rooms -> SUBSET Users] /\ removing \in [Rooms -> Nat]
  BY <1>1 DEF TypeInv, TypeOK
<1>4. \A x \in Rooms : Safe(x) => Safe(x)'
  <2>1. CASE Move
    <3>1. PICK u \in Users \ {Me}, r \in Rooms :
            \/ roster' = [roster EXCEPT ![r] = @ \ {u}]
            \/ roster' = [roster EXCEPT ![r] = @ \cup {u}]
      BY <2>1 DEF Move
    <3>2. u # Me
      OBVIOUS
    <3>3. \A x \in Rooms : Me \in roster[x] => Me \in roster'[x]
      BY ONLY <1>3, <3>1, <3>2
    <3> QED
      BY <2>1, <3>3 DEF Move, former, Safe
  <2>2. ASSUME NEW r \in Rooms, RemoveMe(r), NEW x \in Rooms, Safe(x) PROVE Safe(x)'
    <3>1. x # r
      BY <1>3, <2>2 DEF RemoveMe, Safe
    <3>2. roster'[x] = roster[x] /\ removing'[x] = removing[x]
      BY <1>3, <2>2, <3>1 DEF RemoveMe
    <3> QED
      BY <2>2, <3>2 DEF Safe
  <2>3. ASSUME NEW r \in Rooms, LateJoin(r), NEW x \in Rooms, Safe(x) PROVE Safe(x)'
    <3>1. roster[x] \subseteq roster'[x] /\ removing' = removing
      BY <1>3, <2>3 DEF LateJoin
    <3> QED
      BY <2>3, <3>1 DEF Safe
  <2>4. CASE Spread
    BY <2>4 DEF Spread, former, Safe
  <2> QED
    BY <2>1, <2>2, <2>3, <2>4 DEF OtherStep
<1>5. "joined" \in Expected' => "joined" \in Expected
  BY <1>1, OtherInbox DEF InboxAlike
<1>6. /\ room' = room /\ handle' = handle /\ enabled' = enabled /\ ~ foreign'
  BY <1>1 DEF page, Speaking
<1> QED
  BY <1>1, <1>2, <1>4, <1>5, <1>6, SpeakingKept

LEMMA ChatStep == SessionInv /\ ChatInv /\ [Next]_vars => ChatInv'
<1> SUFFICES ASSUME SessionInv, ChatInv, [Next]_vars, Orderly',
                    Without({"forgotten", "early"})'
             PROVE  Speaking'
  BY DEF ChatInv
<1>1. CASE Logout
  <2>1. sent' = <<>> /\ foreign' = FALSE /\ login' = "out" /\ GoneType
    BY <1>1, GoneTypes DEF Logout, SessionInv
  <2>2. Expected' = {"none"}
    BY <2>1, EmptyQueue DEF GoneType, Expected
  <2> QED
    BY <2>1, <2>2, EmptyQueue DEF Speaking
<1>2. CASE ~ Logout
  <2>1. gaps \subseteq gaps'
    BY <1>2, GapsGrow
  <2>2. Speaking
    BY <2>1 DEF ChatInv, Orderly, Without
  <2>3. ~ LoseSession
    BY DEF LoseSession, Without
  <2>4. CASE UNCHANGED vars
    <3>1. UNCHANGED <<login, page, sent, inbox, server, foreign>>
      BY <2>4 DEF vars, history
    <3>2. (\A r : Safe(r)' <=> Safe(r)) /\ Expected' = Expected
      BY <3>1, ServerIdle
    <3> QED
      BY <2>2, <3>1, <3>2 DEF page, Speaking, Safe
  <2>5. "early" \notin gaps'
    BY DEF Without
  <2> QED
    BY <1>2, <2>2, <2>3, <2>4, <2>5, UserSpeaking, ClientSpeaking, ServerSpeaking, OtherSpeaking
    DEF Next
<1> QED
  BY <1>1, <1>2

\* No chat comes from a user who is not a member, if the client is used in an
\* orderly way, the server does not forget its session, and no join is handled
\* before a former session has been removed from the room.
THEOREM MembersChat == Spec => []ChatsFromMembers
<1>1. Init => ChatInv
  BY EmptyQueue DEF Init, ChatInv, Speaking, Expected
<1>2. ChatInv => ChatsFromMembers
  BY DEF ChatInv, Speaking, ChatsFromMembers, Orderly, Without
<1> QED
  BY <1>1, <1>2, ChatStep, Sessions, PTL DEF Spec

-----------------------------------------------------------------------------
\* Subscriptions.

LEMMA Apart ==
  ASSUME NEW r \in Rooms
  PROVE  Subscribing(r) \cap Unsubscribing(r) = {}
<1>1. [type |-> "subscribe", room |-> r].type # [type |-> "unsubscribe", room |-> r].type
  OBVIOUS
<1> QED
  BY <1>1 DEF Subscribing, Unsubscribing

\* A message that neither makes nor gives up a subscription.
LEMMA OtherMessage ==
  ASSUME NEW m, m.type \notin {"subscribe", "unsubscribe"}, NEW r
  PROVE  m \notin Subscribing(r) /\ m \notin Unsubscribing(r)
  BY DEF Subscribing, Unsubscribing

\* One more message is sent.
LEMMA HearMore ==
  ASSUME NEW q \in Seq(Messages), NEW m \in Messages, m.type \notin {"subscribe", "unsubscribe"},
         NEW r \in Rooms, NEW held \in BOOLEAN
  PROVE  Ends(q \o <<m>>, Subscribing(r), Unsubscribing(r), held)
           <=> Ends(q, Subscribing(r), Unsubscribing(r), held)
<1>1. m \notin Subscribing(r) /\ m \notin Unsubscribing(r)
  BY OtherMessage
<1> QED
  BY <1>1, Apart, EndsLonger

LEMMA HearSubscribe ==
  ASSUME NEW q \in Seq(Messages), NEW x \in Rooms, NEW r \in Rooms, NEW held \in BOOLEAN
  PROVE  Ends(q \o <<[type |-> "subscribe", room |-> x]>>, Subscribing(r), Unsubscribing(r), held)
           <=> r = x \/ Ends(q, Subscribing(r), Unsubscribing(r), held)
<1> DEFINE m == [type |-> "subscribe", room |-> x]
<1>1. /\ m \in Messages /\ m \notin Unsubscribing(r)
      /\ m \in Subscribing(r) <=> r = x
  <2>1. m \in Messages /\ m.type = "subscribe" /\ m.room = x
    BY SentRoom
  <2>2. [type |-> "unsubscribe", room |-> r].type = "unsubscribe"
    OBVIOUS
  <2>3. [type |-> "subscribe", room |-> r].room = r
    OBVIOUS
  <2> QED
    BY <2>1, <2>2, <2>3 DEF Subscribing, Unsubscribing
<1> HIDE DEF m
<1>2. Ends(q \o <<m>>, Subscribing(r), Unsubscribing(r), held)
        <=> r = x \/ Ends(q, Subscribing(r), Unsubscribing(r), held)
  BY <1>1, Apart, EndsLonger
<1> QED
  BY <1>2 DEF m

LEMMA HearUnsubscribe ==
  ASSUME NEW q \in Seq(Messages), NEW x \in Rooms, NEW r \in Rooms, NEW held \in BOOLEAN
  PROVE  Ends(q \o <<[type |-> "unsubscribe", room |-> x]>>, Subscribing(r), Unsubscribing(r),
              held)
           <=> r # x /\ Ends(q, Subscribing(r), Unsubscribing(r), held)
<1> DEFINE m == [type |-> "unsubscribe", room |-> x]
<1>1. /\ m \in Messages /\ m \notin Subscribing(r)
      /\ m \in Unsubscribing(r) <=> r = x
  <2>1. m \in Messages /\ m.type = "unsubscribe" /\ m.room = x
    BY SentRoom
  <2>2. [type |-> "subscribe", room |-> r].type = "subscribe"
    OBVIOUS
  <2>3. [type |-> "unsubscribe", room |-> r].room = r
    OBVIOUS
  <2> QED
    BY <2>1, <2>2, <2>3 DEF Subscribing, Unsubscribing
<1> HIDE DEF m
<1>2. Ends(q \o <<m>>, Subscribing(r), Unsubscribing(r), held)
        <=> r # x /\ Ends(q, Subscribing(r), Unsubscribing(r), held)
  BY <1>1, Apart, EndsLonger
<1> QED
  BY <1>2 DEF m

\* A subscription is handled as it was sent.
LEMMA HearTaken ==
  ASSUME TypeInv, sent # <<>>, sent' = Tail(sent), NEW r \in Rooms,
         \/ Head(sent).type \notin {"subscribe", "unsubscribe"} /\ subs' = subs
         \/ Head(sent).type = "subscribe" /\ subs' = subs \cup {Head(sent).room}
         \/ Head(sent).type = "unsubscribe" /\ subs' = subs \ {Head(sent).room}
  PROVE  WillHear(r)' <=> WillHear(r)
<1> DEFINE m == Head(sent)
           held == r \in subs
           next == r \in subs'
           On == Subscribing(r)
           Off == Unsubscribing(r)
<1>1. sent \in Seq(Messages) /\ m \in Messages
  BY Shorter DEF TypeInv, TypeOK
<1>2. /\ m.type = "subscribe" => m = [type |-> "subscribe", room |-> m.room]
      /\ m.type = "unsubscribe" => m = [type |-> "unsubscribe", room |-> m.room]
  BY <1>1 DEF Messages
<1>3. /\ [type |-> "subscribe", room |-> r].type = "subscribe"
      /\ [type |-> "subscribe", room |-> r].room = r
      /\ [type |-> "unsubscribe", room |-> r].type = "unsubscribe"
      /\ [type |-> "unsubscribe", room |-> r].room = r
  OBVIOUS
<1>4. next <=> m \in On \/ (held /\ m \notin Off)
  <2> HIDE DEF m
  <2>1. CASE m.type \notin {"subscribe", "unsubscribe"} /\ subs' = subs
    BY <2>1, OtherMessage
  <2>2. CASE m.type = "subscribe" /\ subs' = subs \cup {m.room}
    BY <1>2, <1>3, <2>2 DEF Subscribing, Unsubscribing
  <2>3. CASE m.type = "unsubscribe" /\ subs' = subs \ {m.room}
    BY <1>2, <1>3, <2>3 DEF Subscribing, Unsubscribing
  <2> QED
    BY <2>1, <2>2, <2>3 DEF m
<1>5. /\ held \in BOOLEAN /\ next \in BOOLEAN
      /\ WillHear(r) <=> Ends(sent, On, Off, held)
      /\ WillHear(r)' <=> Ends(sent', On, Off, next)
  BY DEF WillHear
<1> HIDE DEF held, next, On, Off
<1>6. Ends(sent, On, Off, held) <=> Ends(sent', On, Off, next)
  BY <1>1, <1>4, <1>5, EndsShorter
<1> QED
  BY <1>5, <1>6

\* After what is sent to leave, the client is subscribed to nothing.
LEMMA HearLeaving ==
  ASSUME TypeInv, InOrder, Hearing, login = "in", ~ Departing, room = NoRoom => handle = NoRoom
  PROVE  /\ sent \o Leaving \in Seq(Messages)
         /\ \A r \in Rooms : ~ Ends(sent \o Leaving, Subscribing(r), Unsubscribing(r), r \in subs)
<1>1. sent \in Seq(Messages)
  BY DEF TypeInv, TypeOK
<1>2. CASE room = NoRoom
  <2>1. sent \o Leaving = sent
    BY <1>1, <1>2 DEF Leaving
  <2> QED
    BY <1>1, <1>2, <2>1, ClientAssumption DEF Hearing, WillHear
<1>3. CASE room # NoRoom
  <2> DEFINE lv == [type |-> "leave", room |-> room]
             un == [type |-> "unsubscribe", room |-> handle]
             q == sent \o <<lv>>
  <2>1. handle = room /\ handle \in Rooms /\ listeners[handle] = 1
    BY <1>3 DEF Hearing, TypeInv, TypeOK, InOrder, Listening
  <2>2. lv \in Messages /\ lv.type = "leave" /\ un \in Messages
    BY <2>1, SentRoom
  <2>3. sent \o Leaving = q \o <<un>>
    <3>1. Leaving = <<lv>> \o <<un>>
      BY <1>3, <2>1, ClientAssumption DEF Leaving, Unsubscribe
    <3> HIDE DEF lv, un
    <3>2. <<lv>> \in Seq(Messages) /\ <<un>> \in Seq(Messages)
      BY <2>2
    <3> QED
      BY <1>1, <3>1, <3>2, ConcatAssociative
  <2>4. q \in Seq(Messages) /\ q \o <<un>> \in Seq(Messages)
    <3> HIDE DEF lv, un
    <3> QED
      BY <1>1, <2>2
  <2>5. ASSUME NEW r \in Rooms
        PROVE  ~ Ends(q \o <<un>>, Subscribing(r), Unsubscribing(r), r \in subs)
    <3> DEFINE held == r \in subs
    <3>1. held \in BOOLEAN /\ (Ends(sent, Subscribing(r), Unsubscribing(r), held) <=> r = handle)
      BY DEF Hearing, WillHear
    <3> HIDE DEF lv, held
    <3>2. Ends(q, Subscribing(r), Unsubscribing(r), held) <=> r = handle
      BY <1>1, <2>2, <3>1, HearMore
    <3>4. ~ Ends(q \o <<un>>, Subscribing(r), Unsubscribing(r), held)
      <4> HIDE DEF q
      <4> QED
        BY <2>1, <2>4, <3>1, <3>2, HearUnsubscribe
    <3> QED
      BY <3>4 DEF held
  <2> QED
    BY <2>3, <2>4, <2>5
<1> QED
  BY <1>2, <1>3

\* What the forms and the text field send.
LEMMA FormSent ==
  ASSUME TypeInv, CreateRoom \/ SaveRoom \/ SendText
  PROVE  \E m \in Messages : m.type \in {"create", "edit", "chat"} /\ sent' = sent \o <<m>>
<1>1. sent \in Seq(Messages)
  BY DEF TypeInv, TypeOK
<1>2. CASE CreateRoom
  <2> DEFINE c == [type |-> "create"]
  <2>1. c \in Messages /\ c.type = "create" /\ sent' = sent \o <<c>>
    BY <1>1, <1>2 DEF Messages, CreateRoom
  <2> HIDE DEF c
  <2> QED
    BY <2>1
<1>3. CASE SaveRoom
  <2> DEFINE e == [type |-> "edit", room |-> title]
  <2>1. e \in Messages /\ e.type = "edit"
    BY <1>3, SentRoom DEF SaveRoom, TypeInv, TypeOK, Held
  <2>2. sent' = sent \o <<e>>
    BY <1>1, <1>3 DEF SaveRoom
  <2> HIDE DEF e
  <2> QED
    BY <2>1, <2>2
<1>4. CASE SendText
  <2> DEFINE c == [type |-> "chat", room |-> room]
  <2>1. c \in Messages /\ c.type = "chat"
    BY <1>4, SentRoom DEF SendText, TypeInv, TypeOK
  <2>2. sent' = sent \o <<c>>
    BY <1>1, <1>4 DEF SendText
  <2> HIDE DEF c
  <2> QED
    BY <2>1, <2>2
<1> QED
  BY <1>2, <1>3, <1>4

LEMMA HearForm ==
  ASSUME TypeInv, CreateRoom \/ SaveRoom \/ SendText, NEW r \in Rooms
  PROVE  WillHear(r)' <=> WillHear(r)
<1> DEFINE held == r \in subs
           On == Subscribing(r)
           Off == Unsubscribing(r)
<1>1. PICK m \in Messages : m.type \in {"create", "edit", "chat"} /\ sent' = sent \o <<m>>
  BY FormSent
<1>2. /\ held \in BOOLEAN
      /\ WillHear(r) <=> Ends(sent, On, Off, held)
      /\ WillHear(r)' <=> Ends(sent', On, Off, held)
  BY DEF WillHear, CreateRoom, SaveRoom, SendText, server
<1> HIDE DEF held
<1>3. sent \in Seq(Messages)
  BY DEF TypeInv, TypeOK
<1>4. Ends(sent \o <<m>>, On, Off, held) <=> Ends(sent, On, Off, held)
  BY <1>1, <1>2, <1>3, HearMore
<1> QED
  BY <1>1, <1>2, <1>4

\* A click on the icon to leave, or to join.
LEMMA ClickHearing ==
  ASSUME TypeInv, OrderInv, OrderInv', Orderly', Hearing, LeaveRoom \/ \E r \in Rooms : JoinRoom(r)
  PROVE  Hearing'
<1>1. InOrder /\ ~ Departing /\ (room = NoRoom => handle = NoRoom)
  BY NothingUnderWay
<1>2. InOrder'
  BY DEF OrderInv
<1>3. login = "in"
  BY DEF LeaveRoom, JoinRoom, Join, Click
<1> DEFINE q == sent \o Leaving
<1>4. /\ q \in Seq(Messages)
      /\ \A r \in Rooms : ~ Ends(q, Subscribing(r), Unsubscribing(r), r \in subs)
  BY <1>1, <1>3, HearLeaving
<1>5. CASE LeaveRoom
  <2>1. room # NoRoom /\ sent' = q /\ handle' = NoRoom /\ subs' = subs
    BY <1>5 DEF LeaveRoom, server
  <2> HIDE DEF q
  <2>2. \A r \in Rooms : ~ WillHear(r)'
    BY <1>4, <2>1 DEF WillHear
  <2>3. Departing'
    <3>1. Leaving \in Seq(Messages) /\ "leave" \in Types(Leaving) /\ sent \in Seq(Messages)
      BY <2>1, LeavingShape DEF TypeInv, TypeOK
    <3>2. Types(sent') = Types(sent) \cup Types(Leaving)
      BY <2>1, <3>1, Longer DEF q
    <3> QED
      BY <3>1, <3>2 DEF Departing
  <2> QED
    BY <2>1, <2>2, <2>3, ClientAssumption DEF Hearing
<1>6. CASE \E r \in Rooms : JoinRoom(r)
  <2>1. PICK x \in Rooms : JoinRoom(x)
    BY <1>6
  <2> DEFINE sub == [type |-> "subscribe", room |-> x]
             join == [type |-> "join", room |-> x]
             b == q \o <<sub>>
  <2>2. sent' = b \o <<join>> /\ handle' = x /\ subs' = subs
    BY <2>1, JoinEffect DEF server
  <2>3. sub \in Messages /\ join \in Messages /\ join.type = "join"
    BY SentRoom
  <2> HIDE DEF q
  <2>4. b \in Seq(Messages)
    <3> HIDE DEF sub
    <3> QED
      BY <1>4, <2>3
  <2>5. ASSUME NEW r \in Rooms PROVE WillHear(r)' <=> r = x
    <3> DEFINE held == r \in subs
    <3>1. /\ held \in BOOLEAN /\ ~ Ends(q, Subscribing(r), Unsubscribing(r), held)
          /\ WillHear(r)' <=> Ends(sent', Subscribing(r), Unsubscribing(r), held)
      BY <1>4, <2>2 DEF WillHear
    <3> HIDE DEF held
    <3>2. Ends(b, Subscribing(r), Unsubscribing(r), held) <=> r = x
      BY <1>4, <3>1, HearSubscribe
    <3> HIDE DEF b, join
    <3>3. Ends(b \o <<join>>, Subscribing(r), Unsubscribing(r), held) <=> r = x
      BY <2>3, <2>4, <3>1, <3>2, HearMore
    <3> QED
      BY <2>2, <3>1, <3>3
  <2>6. Arriving'
    <3> HIDE DEF b, join
    <3>1. "join" \in Types(sent')
      BY <2>2, <2>3, <2>4, LongerByOne
    <3> QED
      BY <3>1 DEF Arriving
  <2>7. ~ Departing' => room' = NoRoom
    BY <1>2, <2>6 DEF InOrder, Aims
  <2> QED
    BY <2>2, <2>5, <2>7 DEF Hearing
<1> QED
  BY <1>5, <1>6

\* A step after which the same is shown and under way, and as much will be heard.
LEMMA HearingKept ==
  ASSUME Hearing, room' = room, handle' = handle, login' = "in" => login = "in",
         Departing => Departing', \A r \in Rooms : WillHear(r)' <=> WillHear(r)
  PROVE  Hearing'
  BY DEF Hearing

LEMMA UserHearing ==
  ASSUME SessionInv, OrderInv', Hearing, Orderly', UserStep, ~ Logout
  PROVE  Hearing'
<1>1. TypeInv /\ OrderInv
  BY DEF SessionInv
<1>2. CASE Login
  <2>1. /\ room' = room /\ handle' = handle /\ login' = "shaking" /\ sent' = sent
        /\ inbox' = inbox /\ server' = server
    BY <1>2 DEF Login
  <2> QED
    BY <2>1, ServerIdle DEF Hearing, Departing
<1>3. CASE LeaveRoom \/ \E r \in Rooms : JoinRoom(r)
  BY <1>1, <1>3, ClickHearing
<1>4. CASE OpenNewRoom \/ CancelNewRoom \/ OpenEdit \/ CancelEdit
  <2>1. /\ room' = room /\ handle' = handle /\ login' = login /\ sent' = sent
        /\ inbox' = inbox /\ server' = server
    BY <1>4 DEF OpenNewRoom, CancelNewRoom, OpenEdit, CancelEdit
  <2>2. subs' = subs
    BY <2>1 DEF server
  <2> QED
    BY <2>1, <2>2, ServerIdle, HearingKept DEF Departing, WillHear
<1>5. CASE CreateRoom \/ SaveRoom \/ SendText
  <2>1. room' = room /\ handle' = handle /\ login' = login /\ inbox' = inbox /\ server' = server
    BY <1>5 DEF CreateRoom, SaveRoom, SendText, page
  <2>2. \A r \in Rooms : WillHear(r)' <=> WillHear(r)
    BY <1>1, <1>5, HearForm
  <2>3. PICK m \in Messages : sent' = sent \o <<m>>
    BY <1>1, <1>5, FormSent
  <2>4. Types(sent) \subseteq Types(sent')
    BY <1>1, <2>3, LongerByOne DEF TypeInv, TypeOK
  <2> QED
    BY <2>1, <2>2, <2>4, ServerIdle, HearingKept DEF Departing
<1> QED
  BY <1>2, <1>3, <1>4, <1>5 DEF UserStep

\* The re-handshake makes the subscription to the room again.
LEMMA ClientHearing ==
  ASSUME SessionInv, Hearing, Orderly', ClientStep
  PROVE  Hearing'
<1>1. TypeInv /\ OrderInv /\ NoSession
  BY DEF SessionInv
<1>2. CASE Handshake
  <2>1. /\ login = "shaking" /\ room' = room /\ handle' = handle /\ subs' = subs
        /\ inbox' = <<[type |-> "rooms"]>>
        /\ sent' = IF handle # NoRoom THEN <<[type |-> "subscribe", room |-> handle]>> ELSE <<>>
    BY <1>2 DEF Handshake, Resubscribe, server
  <2>2. sent = <<>> /\ inbox = <<>> /\ subs = {} /\ doing = "none"
    BY <1>1, <2>1 DEF NoSession
  <2>3. ~ Departing
    BY <2>2, EmptyQueue DEF Departing, Expected
  <2>4. ASSUME NEW r \in Rooms PROVE WillHear(r)' <=> r = handle
    <3> DEFINE On == Subscribing(r)
               Off == Unsubscribing(r)
               held == r \in subs
    <3>1. (WillHear(r)' <=> Ends(sent', On, Off, held)) /\ held \in BOOLEAN /\ ~ held
      BY <2>1, <2>2 DEF WillHear
    <3> HIDE DEF held
    <3>2. CASE handle = NoRoom
      BY <2>1, <3>1, <3>2, EmptyQueue, ClientAssumption
    <3>3. CASE handle # NoRoom
      <4> DEFINE sub == [type |-> "subscribe", room |-> handle]
      <4>1. handle \in Rooms /\ <<>> \in Seq(Messages)
        BY <1>1, <3>3 DEF TypeInv, TypeOK
      <4>2. Ends(<<>> \o <<sub>>, On, Off, held) <=> r = handle \/ Ends(<<>>, On, Off, held)
        BY ZenonT(30), <3>1, <4>1, HearSubscribe
      <4>3. <<>> \o <<sub>> = <<sub>>
        OBVIOUS
      <4> QED
        BY <2>1, <3>1, <3>3, <4>2, <4>3, EmptyQueue
    <3> QED
      BY <3>2, <3>3
  <2> QED
    BY <2>1, <2>3, <2>4 DEF Hearing
<1>3. CASE OnRoomJoined
  <2>1. room' = handle /\ handle' = handle /\ login = "in" /\ sent' = sent /\ subs' = subs
    BY <1>1, <1>3, RoomJoinedEffect DEF server
  <2> QED
    BY <2>1 DEF Hearing, WillHear
<1>4. CASE OnRoomLeft
  <2>1. room' = NoRoom /\ handle' = handle /\ login = "in" /\ sent' = sent /\ subs' = subs
    BY <1>1, <1>4, RoomLeftEffect DEF server
  <2> QED
    BY <2>1 DEF Hearing, WillHear
<1>5. CASE OnMembers \/ OnRoomEdit \/ OnRoomCreate \/ OnRooms \/ OnStatus
  <2>1. /\ handle' = handle /\ login' = login /\ sent' = sent /\ subs' = subs
        /\ doing' = doing /\ about' = about
        /\ inbox # <<>> /\ inbox' = Tail(inbox) /\ Head(inbox).type \notin {"left", "joined"}
    BY <1>5 DEF OnMembers, OnRoomEdit, OnRoomCreate, OnRooms, OnStatus, Hear, page, server,
                handler
  <2>2. room' = room
    BY <1>5 DEF OnMembers, OnRoomEdit, OnRoomCreate, OnRooms, OnStatus, page, Orderly, Without
  <2>3. InboxAlike
    BY <1>1, <2>1, InboxTaken DEF TypeInv
  <2> QED
    BY <2>1, <2>2, <2>3, HearingKept DEF Departing, WillHear, InboxAlike
<1> QED
  BY <1>2, <1>3, <1>4, <1>5 DEF ClientStep

\* A leave under way is so until its answer is heard.
LEMMA StillDeparting ==
  ASSUME TypeInv, OrderInv, Orderly', ServerStep \/ OtherStep
  PROVE  Departing => Departing'
<1>1. TypeOK
  BY DEF TypeInv
<1>2. CASE PlainStep
  BY <1>1, <1>2, ServerInbox, ServerSent DEF Departing, InboxAlike, SentAlike
<1>3. CASE OtherStep
  BY <1>1, <1>3, OtherInbox, OtherSame DEF Departing, InboxAlike
<1>4. CASE HandleLeave
  <2>1. doing' = "left"
    BY <1>4, HandleLeaveEffect
  <2> QED
    BY <2>1 DEF Departing, Expected
<1>5. CASE HandleJoin
  <2>1. /\ sent # <<>> /\ Head(sent).type = "join" /\ sent' = Tail(sent) /\ doing = "none"
        /\ inbox' = inbox \/ Answer(<<[type |-> "status"]>>)
    BY <1>5, HandleJoinEffect
  <2>2. sent \in Seq(Messages) /\ inbox \in Seq(Answers)
    BY <1>1 DEF TypeOK
  <2>3. Types(sent) = {"join"} \cup Types(sent')
    BY <2>1, <2>2, Shorter
  <2>4. Types(inbox) \subseteq Types(inbox')
    <3> DEFINE status == [type |-> "status"]
    <3>1. status \in Answers
      BY AnsweredPlain
    <3>2. inbox' = inbox \/ inbox' = inbox \o <<status>>
      BY <2>1 DEF Answer
    <3> HIDE DEF status
    <3>3. Types(inbox \o <<status>>) = Types(inbox) \cup {status.type}
      BY <2>2, <3>1, LongerByOne
    <3> QED
      BY <3>2, <3>3
  <2> QED
    BY <2>1, <2>3, <2>4 DEF Departing, Expected
<1> QED
  BY <1>2, <1>3, <1>4, <1>5 DEF ServerStep, PlainStep

\* What the client will hear is settled when it is sent.
LEMMA WillHearSame ==
  ASSUME TypeInv, ServerStep \/ OtherStep, NEW r \in Rooms
  PROVE  WillHear(r)' <=> WillHear(r)
<1>1. CASE AnswerEdit \/ JoinHandled \/ MergeMembers \/ DeliverMembers \/ LeaveHandled \/ OtherStep
  <2>1. sent' = sent /\ subs' = subs
    BY <1>1, OtherSame DEF AnswerEdit, JoinHandled, MergeMembers, DeliverMembers, LeaveHandled
  <2> QED
    BY <2>1 DEF WillHear
<1>2. CASE HandleSubscription
  BY <1>2, HearTaken DEF HandleSubscription, Handle
<1>3. CASE HandleJoin \/ HandleLeave \/ HandleEdit \/ HandleCreate \/ HandleChat
  <2>1. /\ sent # <<>> /\ sent' = Tail(sent) /\ subs' = subs
        /\ Head(sent).type \notin {"subscribe", "unsubscribe"}
    BY <1>3 DEF HandleJoin, HandleLeave, HandleEdit, HandleCreate, HandleChat, Handle, server
  <2> QED
    BY <2>1, HearTaken
<1> QED
  BY <1>1, <1>2, <1>3 DEF ServerStep

LEMMA ServerHearing ==
  ASSUME SessionInv, Hearing, Orderly', ServerStep \/ OtherStep
  PROVE  Hearing'
<1>1. TypeInv /\ OrderInv
  BY DEF SessionInv
<1>2. UNCHANGED <<login, page>>
  BY ServerSame, OtherSame DEF ServerStep, PlainStep, HandleJoin, HandleLeave, Handle
<1>3. room' = room /\ handle' = handle /\ login' = login
  BY <1>2 DEF page
<1> QED
  BY <1>1, <1>3, StillDeparting, WillHearSame, HearingKept

LEMMA HearStep == SessionInv /\ HearInv /\ [Next]_vars => HearInv'
<1> SUFFICES ASSUME SessionInv, HearInv, [Next]_vars, Orderly', Without({"cut"})'
             PROVE  Hearing'
  BY DEF HearInv
<1>1. OrderInv'
  BY OrderStep
<1>2. CASE Logout
  BY <1>2 DEF Logout, Hearing
<1>3. CASE ~ Logout
  <2>1. gaps \subseteq gaps'
    BY <1>3, GapsGrow
  <2>2. Hearing
    BY <2>1 DEF HearInv, Orderly, Without
  <2>3. CASE LoseSession
    <3>1. /\ sent = <<>> /\ inbox = <<>> /\ doing = "none" /\ room' = room /\ handle' = handle
          /\ login' = "shaking"
      BY <2>3 DEF LoseSession, page, Without
    <3> QED
      BY <2>2, <3>1, EmptyQueue DEF Hearing, Departing, Expected
  <2>4. CASE UNCHANGED vars
    <3>1. UNCHANGED <<login, page, sent, inbox, server>>
      BY <2>4 DEF vars
    <3>2. subs' = subs /\ room' = room /\ handle' = handle
      BY <3>1 DEF server, page
    <3> QED
      BY <2>2, <3>1, <3>2, ServerIdle, HearingKept DEF Departing, WillHear
  <2> QED
    BY <1>1, <1>3, <2>2, <2>3, <2>4, UserHearing, ClientHearing, ServerHearing DEF Next
<1> QED
  BY <1>2, <1>3

LEMMA Heard == Spec => [](SessionInv /\ HearInv)
<1>1. Init => HearInv
  BY DEF Init, HearInv, Hearing
<1> QED
  BY <1>1, HearStep, Sessions, PTL DEF Spec

\* Once everything is answered, the client is subscribed to the room that it
\* shows and to no other, if it is used in an orderly way and no session was
\* lost with messages under way.
THEOREM HearsWhatItShows == Spec => []HearsItsRoom
<1>1. SessionInv /\ HearInv => HearsItsRoom
  <2> SUFFICES ASSUME SessionInv, Hearing, Answered, room # NoRoom
               PROVE  subs = {room}
    BY DEF HearInv, HearsItsRoom, Orderly, Without
  <2>1. ASSUME NEW r \in Rooms PROVE r \in subs <=> r = handle
    <3> DEFINE held == r \in subs
    <3>1. Ends(<<>>, Subscribing(r), Unsubscribing(r), held) <=> r = handle
      BY DEF Answered, Hearing, WillHear
    <3> HIDE DEF held
    <3>2. held <=> r = handle
      BY <3>1, EmptyQueue
    <3> QED
      BY <3>2 DEF held
  <2>2. handle = room
    BY EmptyQueue DEF Answered, Hearing, Departing, Expected
  <2>3. subs \in SUBSET Rooms /\ room \in Rooms
    BY DEF SessionInv, TypeInv, TypeOK
  <2> QED
    BY <2>1, <2>2, <2>3
<1> QED
  BY <1>1, Heard, PTL

-----------------------------------------------------------------------------
\* Members.

LEMMA NamesApart ==
  ASSUME NEW r, NEW u
  PROVE  Naming(r, "join", u) \cap Naming(r, "leave", u) = {}
  BY DEF Naming

\* Answers that are not about members show nobody else.
LEMMA ShowPlain ==
  ASSUME TypeInv, NEW ms \in Seq(Answers), inbox' = inbox \o ms, "members" \notin Types(ms),
         handle' = handle, members' = members, NEW u
  PROVE  WillShow(u)' <=> WillShow(u)
<1> DEFINE On == Naming(handle, "join", u)
           Off == Naming(handle, "leave", u)
           held == u \in members
<1>1. /\ held \in BOOLEAN /\ (WillShow(u) <=> Ends(inbox, On, Off, held))
      /\ WillShow(u)' <=> Ends(inbox', On, Off, held)
  BY DEF WillShow
<1>2. Range(ms) \cap (On \cup Off) = {}
  BY DEF Naming, Types
<1> HIDE DEF On, Off, held
<1>3. inbox \in Seq(Answers)
  BY DEF TypeInv, TypeOK
<1>4. Ends(inbox \o ms, On, Off, held) <=> Ends(inbox, On, Off, held)
  BY <1>1, <1>2, <1>3, EndsMore
<1> QED
  BY <1>1, <1>4

\* The client shows what the messages name, and hears only its room.
LEMMA ShowTaken ==
  ASSUME TypeInv, Listening, inbox # <<>>, inbox' = Tail(inbox), handle' = handle, NEW u,
         \/ Head(inbox).type # "members" /\ members' = members
         \/ /\ Head(inbox).type = "members"
            /\ members' = IF listeners[Head(inbox).room] > 0 THEN Shown(Head(inbox)) ELSE members
  PROVE  WillShow(u)' <=> WillShow(u)
<1> DEFINE m == Head(inbox)
           On == Naming(handle, "join", u)
           Off == Naming(handle, "leave", u)
           held == u \in members
           next == u \in members'
<1>1. inbox \in Seq(Answers) /\ m \in Answers
  BY Shorter DEF TypeInv, TypeOK
<1>2. /\ m.type = "members" => /\ m.room \in Rooms /\ m.action \in {"join", "leave"}
                               /\ m.users \in SUBSET Users
      /\ m.type = "members" => (listeners[m.room] > 0 <=> m.room = handle)
  <2> HIDE DEF m
  <2> QED
    BY <1>1, AnswerFields DEF Listening
<1>3. next <=> m \in On \/ (held /\ m \notin Off)
  <2> HIDE DEF m
  <2>1. CASE m.type # "members" /\ members' = members
    BY <2>1 DEF Naming
  <2>2. CASE /\ m.type = "members"
             /\ members' = IF listeners[m.room] > 0 THEN Shown(m) ELSE members
    BY <1>1, <1>2, <2>2 DEF Naming, Shown
  <2> QED
    BY <2>1, <2>2 DEF m
<1>4. /\ held \in BOOLEAN /\ next \in BOOLEAN
      /\ WillShow(u) <=> Ends(inbox, On, Off, held)
      /\ WillShow(u)' <=> Ends(inbox', On, Off, next)
  BY DEF WillShow
<1> HIDE DEF On, Off, held, next
<1>5. Ends(inbox, On, Off, held) <=> Ends(inbox', On, Off, next)
  BY <1>1, <1>3, <1>4, EndsShorter
<1> QED
  BY <1>4, <1>5

\* The server tells who has subscribed that one user joined or left.
LEMMA ShowTold ==
  ASSUME NEW q \in Seq(Answers), NEW r \in Rooms, NEW action \in {"join", "leave"},
         NEW v \in Users, NEW u, NEW x, NEW held \in BOOLEAN
  PROVE  Ends(q \o Told(r, action, {v}), Naming(x, "join", u), Naming(x, "leave", u), held)
           <=> IF r = x /\ r \in subs /\ u = v THEN action = "join"
               ELSE Ends(q, Naming(x, "join", u), Naming(x, "leave", u), held)
<1> DEFINE m == [type |-> "members", room |-> r, action |-> action, users |-> {v}]
           On == Naming(x, "join", u)
           Off == Naming(x, "leave", u)
<1>1. CASE r \notin subs
  <2>1. q \o Told(r, action, {v}) = q
    BY <1>1 DEF Told
  <2> QED
    BY <1>1, <2>1
<1>2. CASE r \in subs
  <2>1. /\ m \in Answers /\ m.type = "members" /\ m.room = r /\ m.action = action
        /\ m.users = {v}
    BY AnsweredMembers
  <2>2. Told(r, action, {v}) = <<m>>
    BY <1>2 DEF Told
  <2> HIDE DEF m
  <2>3. /\ m \in On <=> r = x /\ u = v /\ action = "join"
        /\ m \in Off <=> r = x /\ u = v /\ action = "leave"
    BY <2>1 DEF Naming
  <2>4. On \cap Off = {}
    BY NamesApart
  <2> HIDE DEF On, Off
  <2>5. Ends(q \o <<m>>, On, Off, held) <=>
          IF m \in On THEN TRUE ELSE IF m \in Off THEN FALSE ELSE Ends(q, On, Off, held)
    BY <2>1, <2>4, EndsLonger
  <2> QED
    BY <1>2, <2>2, <2>3, <2>5 DEF On, Off
<1> QED
  BY <1>1, <1>2

\* Who will be shown is shown, or is named by a message under way.
LEMMA ShowNamed ==
  ASSUME TypeInv, NEW u, WillShow(u)
  PROVE  u \in members \cup Named(handle)
<1>1. CASE u \in members
  BY <1>1
<1>2. CASE u \notin members
  <2>1. PICK i \in DOMAIN inbox : inbox[i] \in Naming(handle, "join", u)
    BY <1>2 DEF WillShow, Ends
  <2> QED
    BY <2>1 DEF Naming, Named
<1> QED
  BY <1>1, <1>2

\* A client that is in its room is subscribed to it.
LEMMA TunedSubscribed ==
  ASSUME TypeInv, Hearing, Showing, Tuned
  PROVE  handle \in subs /\ handle \in Rooms /\ login = "in" /\ TunedIn
<1> DEFINE On == Subscribing(handle)
           Off == Unsubscribing(handle)
           held == handle \in subs
<1>1. handle \in Rooms /\ login = "in"
  BY DEF TypeInv, TypeOK, Tuned, Showing
<1>2. Range(sent) \cap (On \cup Off) = {}
  <2>1. \A m \in Range(sent) : m.type \notin {"subscribe", "unsubscribe"}
    BY DEF Showing, Types
  <2> QED
    BY <2>1, OtherMessage
<1>3. held \in BOOLEAN /\ Ends(sent, On, Off, held) /\ sent \in Seq(Messages)
  BY <1>1 DEF Hearing, WillHear, TypeInv, TypeOK
<1>5. held
  <2> HIDE DEF held, On, Off
  <2> QED
    BY <1>2, <1>3, EndsAlike
<1> QED
  BY <1>1, <1>2, <1>5 DEF TunedIn

\* A step after which nobody is missing, or extra, who was not before.
LEMMA ShowingKept ==
  ASSUME TypeInv, Showing, login' = login, handle' = handle, Never(sent', SubOrder),
         \A t \in {"subscribe", "unsubscribe"} : t \in Types(sent') => t \in Types(sent),
         Tuned' => Tuned, TunedIn' => TunedIn,
         Tuned' /\ doing' \in {"joined", "merge", "deliver"} => about' = handle,
         Tuned' => \A u \in Users : Missing(u)' => Missing(u),
         TunedIn' => \A u \in Users : Extra(u)' => Extra(u)
  PROVE  Showing'
<1>1. Tuned' => \A u \in Users : ~ Missing(u)'
  BY DEF Showing
<1>2. TunedIn' => \A u \in Users : ~ Extra(u)'
  BY DEF Showing
<1>3. /\ login' # "in" => handle' = NoRoom
      /\ Tuned' => "subscribe" \notin Types(sent') /\ "unsubscribe" \notin Types(sent')
      /\ Tuned' /\ doing' \in {"joined", "merge", "deliver"} => about' = handle'
  BY DEF Showing
<1> QED
  BY <1>1, <1>2, <1>3 DEF Showing

\* The server tells the client of nothing, and goes on with what it was at.
LEMMA ShowingSame ==
  ASSUME TypeInv, Showing, login' = login, handle' = handle, Never(sent', SubOrder),
         \A t \in {"subscribe", "unsubscribe"} : t \in Types(sent') => t \in Types(sent),
         Tuned' => Tuned, TunedIn' => TunedIn,
         UNCHANGED <<roster, handler, news, misled, carried>>,
         \A u \in Users : WillShow(u)' <=> WillShow(u)
  PROVE  Showing'
<1>1. doing' = doing /\ about' = about /\ merged' = merged
  BY DEF handler
<1>2. ASSUME NEW u \in Users
      PROVE  (Missing(u)' => Missing(u)) /\ (Extra(u)' => Extra(u))
  BY <1>1 DEF Missing, Extra, Unsure, Delivered
<1>3. Tuned' /\ doing' \in {"joined", "merge", "deliver"} => about' = handle
  BY <1>1 DEF Showing
<1> QED
  BY <1>2, <1>3, ShowingKept

\* A step after which the client hears of nobody.
LEMMA ShowingNobody ==
  ASSUME login' = "in" \/ handle' = NoRoom, Never(sent', SubOrder), ~ Tuned', ~ TunedIn'
  PROVE  Showing'
  BY DEF Showing

\* One more message is sent, which is about no subscription.
LEMMA SubMore ==
  ASSUME TypeInv, Never(sent, SubOrder), NEW m \in Messages, sent' = sent \o <<m>>,
         m.type \notin {"subscribe", "unsubscribe"}
  PROVE  /\ Never(sent', SubOrder) /\ Range(sent) \subseteq Range(sent')
         /\ \A t \in {"subscribe", "unsubscribe"} : t \in Types(sent') => t \in Types(sent)
<1>1. sent \in Seq(Messages)
  BY DEF TypeInv, TypeOK
<1>2. /\ Range(sent') = Range(sent) \cup {m} /\ Types(sent') = Types(sent) \cup {m.type}
      /\ \A t \in Types(sent) : <<t, m.type>> \notin SubOrder
  BY <1>1, LongerByOne DEF SubOrder
<1>3. Never(sent', SubOrder)
  BY <1>1, <1>2, LongerByOne
<1> QED
  BY <1>2, <1>3

\* The oldest message is handled, which is about no subscription.
LEMMA SubTaken ==
  ASSUME TypeInv, Never(sent, SubOrder), sent # <<>>, sent' = Tail(sent),
         Head(sent).type \notin {"subscribe", "unsubscribe"}, handle' = handle, subs' = subs
  PROVE  /\ Never(sent', SubOrder) /\ (TunedIn' => TunedIn)
         /\ \A t \in {"subscribe", "unsubscribe"} : t \in Types(sent') => t \in Types(sent)
<1>1. sent \in Seq(Messages)
  BY DEF TypeInv, TypeOK
<1>2. /\ Range(sent) = {Head(sent)} \cup Range(sent') /\ Never(sent', SubOrder)
      /\ Types(sent) = {Head(sent).type} \cup Types(sent')
  BY <1>1, Shorter
<1>3. Head(sent) \notin Subscribing(handle) /\ Head(sent) \notin Unsubscribing(handle)
  BY OtherMessage
<1> QED
  BY <1>2, <1>3 DEF TunedIn

\* A click on the icon to leave, or to join, ends what the client hears.
LEMMA ClickShowing ==
  ASSUME SessionInv, OrderInv', TypeInv', Hearing, Showing, Orderly',
         LeaveRoom \/ \E r \in Rooms : JoinRoom(r)
  PROVE  Showing'
<1>1. TypeInv /\ OrderInv
  BY DEF SessionInv
<1>2. InOrder /\ ~ Departing /\ ~ Arriving /\ (room = NoRoom => handle = NoRoom)
  BY <1>1, NothingUnderWay
<1>3. InOrder'
  BY DEF OrderInv
<1>4. login = "in" /\ sent \in Seq(Messages)
  BY <1>1 DEF LeaveRoom, JoinRoom, Join, Click, TypeInv, TypeOK
<1> DEFINE q == sent \o Leaving
<1>5. /\ q \in Seq(Messages) /\ Never(q, SubOrder) /\ Types(sent) \subseteq Types(q)
      /\ room # NoRoom => "leave" \in Types(q)
  <2>1. CASE room = NoRoom
    BY <1>4, <2>1 DEF Leaving, Showing
  <2>2. CASE room # NoRoom
    <3>1. Tuned
      BY <1>2, <2>2 DEF Hearing, Tuned
    <3>2. "subscribe" \notin Types(sent) /\ Never(sent, SubOrder)
      BY <3>1 DEF Showing
    <3>3. /\ Leaving \in Seq(Messages) /\ Types(Leaving) \subseteq {"leave", "unsubscribe"}
          /\ "leave" \in Types(Leaving)
      BY <1>1, <2>2, LeavingShape DEF TypeInv
    <3>4. \A t1, t2 : t1 # "subscribe" => <<t1, t2>> \notin SubOrder
      BY DEF SubOrder
    <3>5. Never(Leaving, SubOrder)
      BY <3>3, <3>4 DEF Never, Types, Range
    <3>6. \A t1 \in Types(sent), t2 \in Types(Leaving) : <<t1, t2>> \notin SubOrder
      BY <3>2, <3>4
    <3> QED
      BY <1>4, <3>2, <3>3, <3>5, <3>6, Longer
  <2> QED
    BY <2>1, <2>2
<1>6. CASE LeaveRoom
  <2>1. sent' = q /\ handle' = NoRoom /\ login' = login
    BY <1>6 DEF LeaveRoom
  <2>2. ~ Tuned' /\ ~ TunedIn'
    BY <2>1, ClientAssumption DEF Tuned, TunedIn, TypeInv, TypeOK
  <2> QED
    BY <1>5, <2>1, <2>2, ShowingNobody
<1>7. CASE \E r \in Rooms : JoinRoom(r)
  <2>1. PICK x \in Rooms : JoinRoom(x)
    BY <1>7
  <2> DEFINE sub == [type |-> "subscribe", room |-> x]
             join == [type |-> "join", room |-> x]
             b == q \o <<sub>>
  <2>2. /\ sent' = b \o <<join>> /\ handle' = x /\ inbox' = inbox /\ room' = room
        /\ login' = login /\ server' = server
    BY <1>1, <2>1, JoinEffect
  <2>3. /\ sub \in Messages /\ sub.type = "subscribe" /\ sub \in Subscribing(x)
        /\ join \in Messages /\ join.type = "join"
    BY SentRoom DEF Subscribing
  <2> HIDE DEF q, sub, join
  <2>4. b \in Seq(Messages) /\ Never(b, SubOrder) /\ Range(b) = Range(q) \cup {sub}
    <3>1. \A t \in Types(q) : <<t, "subscribe">> \notin SubOrder
      BY DEF SubOrder
    <3> QED
      BY <1>5, <2>3, <3>1, LongerByOne
  <2> HIDE DEF b
  <2>5. /\ Never(sent', SubOrder) /\ Range(sent') = Range(b) \cup {join}
        /\ "join" \in Types(sent')
    <3>1. \A t \in Types(b) : <<t, "join">> \notin SubOrder
      BY DEF SubOrder
    <3> QED
      BY <2>2, <2>3, <2>4, <3>1, LongerByOne
  <2>6. ~ TunedIn'
    BY <2>2, <2>3, <2>4, <2>5 DEF TunedIn
  <2>7. "joined" \notin Expected'
    BY <1>2, <2>2, ServerIdle DEF Arriving
  <2>8. ~ Departing' => room' = NoRoom
    BY <1>3, <2>5 DEF InOrder, Aims, Arriving
  <2>9. ~ Tuned'
    BY <2>2, <2>7, <2>8, ClientAssumption DEF Tuned
  <2> QED
    BY <1>4, <2>2, <2>5, <2>6, <2>9, ShowingNobody
<1> QED
  BY <1>6, <1>7

LEMMA UserShowing ==
  ASSUME SessionInv, OrderInv', TypeInv', Hearing, Showing, Orderly', UserStep, ~ Logout
  PROVE  Showing'
<1>1. TypeInv /\ LoggedOut /\ Never(sent, SubOrder)
  BY DEF SessionInv, Showing
<1>2. CASE Login
  <2>1. handle' = NoRoom /\ sent' = sent
    BY <1>1, <1>2 DEF Login, LoggedOut
  <2>2. ~ Tuned' /\ ~ TunedIn'
    BY <2>1, ClientAssumption DEF Tuned, TunedIn, TypeInv, TypeOK
  <2> QED
    BY <1>1, <2>1, <2>2, ShowingNobody
<1>3. CASE LeaveRoom \/ \E r \in Rooms : JoinRoom(r)
  BY <1>3, ClickShowing
<1>4. CASE OpenNewRoom \/ CancelNewRoom \/ OpenEdit \/ CancelEdit
  <2>1. /\ room' = room /\ handle' = handle /\ login' = login /\ sent' = sent
        /\ inbox' = inbox /\ server' = server /\ carried' = carried /\ misled' = misled
        /\ members' = members
    BY <1>4 DEF OpenNewRoom, CancelNewRoom, OpenEdit, CancelEdit, history
  <2>2. (Tuned' <=> Tuned) /\ (TunedIn' <=> TunedIn)
    BY <2>1, ServerIdle DEF Tuned, TunedIn, Departing, server
  <2>3. \A u \in Users : WillShow(u)' <=> WillShow(u)
    BY <2>1 DEF WillShow
  <2>4. UNCHANGED <<roster, handler, news, misled, carried>>
    BY <2>1 DEF server
  <2> QED
    BY <1>1, <2>1, <2>2, <2>3, <2>4, ShowingSame
<1>5. CASE CreateRoom \/ SaveRoom \/ SendText
  <2>1. /\ room' = room /\ handle' = handle /\ login' = login
        /\ inbox' = inbox /\ server' = server /\ carried' = carried /\ misled' = misled
        /\ members' = members
    BY <1>5 DEF CreateRoom, SaveRoom, SendText, page, history
  <2>2. PICK m \in Messages : m.type \in {"create", "edit", "chat"} /\ sent' = sent \o <<m>>
    BY <1>1, <1>5, FormSent
  <2>3. /\ Never(sent', SubOrder) /\ Range(sent) \subseteq Range(sent')
        /\ \A t \in {"subscribe", "unsubscribe"} : t \in Types(sent') => t \in Types(sent)
    BY <1>1, <2>2, SubMore
  <2>4. Types(sent) \subseteq Types(sent')
    BY <2>3 DEF Types
  <2>5. (Tuned' => Tuned) /\ (TunedIn' => TunedIn)
    BY <2>1, <2>3, <2>4, ServerIdle DEF Tuned, TunedIn, Departing, server
  <2>6. \A u \in Users : WillShow(u)' <=> WillShow(u)
    BY <2>1 DEF WillShow
  <2>7. UNCHANGED <<roster, handler, news, misled, carried>>
    BY <2>1 DEF server
  <2> QED
    BY <1>1, <2>1, <2>3, <2>5, <2>6, <2>7, ShowingSame
<1> QED
  BY <1>2, <1>3, <1>4, <1>5 DEF UserStep

LEMMA ClientShowing ==
  ASSUME SessionInv, TypeInv', Showing, Orderly', ClientStep
  PROVE  Showing'
<1>1. TypeInv /\ OrderInv /\ NoSession /\ Never(sent, SubOrder)
  BY DEF SessionInv, Showing
<1>2. CASE Handshake
  <2>1. /\ login = "shaking" /\ handle' = handle /\ login' = "in"
        /\ sent' = IF handle # NoRoom THEN <<[type |-> "subscribe", room |-> handle]>> ELSE <<>>
    BY <1>2 DEF Handshake, Resubscribe
  <2>2. handle = NoRoom /\ Never(sent', SubOrder)
    BY <2>1, EmptyQueue DEF Showing
  <2>3. ~ Tuned' /\ ~ TunedIn'
    BY <2>1, <2>2, ClientAssumption DEF Tuned, TunedIn, TypeInv, TypeOK
  <2> QED
    BY <2>1, <2>2, <2>3, ShowingNobody
<1>3. CASE ~ Handshake
  <2>1. /\ handle' = handle /\ login' = login /\ sent' = sent /\ server' = server
        /\ inbox # <<>> /\ inbox' = Tail(inbox) /\ carried' = carried /\ misled' = misled
    BY <1>3 DEF ClientStep, OnMembers, OnRoomJoined, OnRoomLeft, OnRoomEdit, OnRoomCreate,
                OnRooms, OnStatus, Hear, page, history
  <2>2. Listening
    <3>1. gaps \subseteq gaps'
      BY <1>3 DEF ClientStep, OnMembers, OnRoomJoined, OnRoomLeft, OnRoomEdit, OnRoomCreate,
                  OnRooms, OnStatus, history
    <3> QED
      BY <1>1, <3>1 DEF OrderInv, InOrder, Orderly, Without
  <2>3. \/ Head(inbox).type # "members" /\ members' = members
        \/ /\ Head(inbox).type = "members"
           /\ members' = IF listeners[Head(inbox).room] > 0 THEN Shown(Head(inbox)) ELSE members
    BY <1>3 DEF ClientStep, OnMembers, OnRoomJoined, OnRoomLeft, OnRoomEdit, OnRoomCreate,
                OnRooms, OnStatus, Hear, page
  <2>4. \A u \in Users : WillShow(u)' <=> WillShow(u)
    BY <1>1, <2>1, <2>2, <2>3, ShowTaken
  <2>5. UNCHANGED <<roster, handler, news, misled, carried, subs, doing, about>>
    BY <2>1 DEF server, handler
  <2>6. TunedIn' => TunedIn
    BY <2>1, <2>5 DEF TunedIn
  <2>7. Tuned' => Tuned
    <3>1. inbox \in Seq(Answers)
      BY <1>1 DEF TypeInv, TypeOK
    <3>2. Types(inbox') \subseteq Types(inbox)
      BY <2>1, <3>1, Shorter
    <3>3. CASE OnRoomJoined
      <4>1. "joined" \in Types(inbox) /\ handle \in Rooms
        BY <1>1, <3>3, RoomJoinedEffect
      <4> QED
        BY <4>1, ClientAssumption DEF Tuned, Expected
    <3>4. CASE OnRoomLeft
      <4>1. room' = NoRoom
        BY <1>1, <3>4, RoomLeftEffect
      <4> QED
        BY <2>1, <2>5, <3>2, <4>1 DEF Tuned, Expected
    <3>5. CASE OnMembers \/ OnRoomEdit \/ OnRoomCreate \/ OnRooms \/ OnStatus
      <4>1. room' = room /\ Head(inbox).type \notin {"left", "joined"}
        BY <3>5
        DEF OnMembers, OnRoomEdit, OnRoomCreate, OnRooms, OnStatus, Hear, page, Orderly, Without
      <4>2. InboxAlike
        BY <1>1, <2>1, <2>5, <4>1, InboxTaken DEF TypeInv
      <4> QED
        BY <2>1, <4>1, <4>2 DEF Tuned, Departing, InboxAlike
    <3> QED
      BY <1>3, <3>3, <3>4, <3>5 DEF ClientStep
  <2>8. UNCHANGED <<roster, handler, news, misled, carried>>
    BY <2>5
  <2> QED
    BY <1>1, <2>1, <2>4, <2>6, <2>7, <2>8, ShowingSame
<1> QED
  BY <1>2, <1>3

\* A leave or a join that is under way goes on so.
LEMMA TunedSame ==
  ASSUME TypeInv, PlainStep \/ OtherStep
  PROVE  Tuned' => Tuned
<1>1. InboxAlike /\ SentAlike
  BY ServerInbox, ServerSent, OtherInbox, OtherSame, SentSame DEF TypeInv
<1>2. room' = room /\ handle' = handle
  BY ServerSame, OtherSame DEF page
<1> QED
  BY <1>1, <1>2 DEF Tuned, Departing, InboxAlike, SentAlike

\* A subscription begins, or ends.
LEMMA SubscriptionShowing ==
  ASSUME SessionInv, Hearing', Showing, HandleSubscription
  PROVE  Showing'
<1>1. TypeInv /\ Never(sent, SubOrder)
  BY DEF SessionInv, Showing
<1> DEFINE m == Head(sent)
<1>2. /\ sent # <<>> /\ sent' = Tail(sent) /\ login = "in" /\ login' = login
      /\ handle' = handle /\ room' = room /\ members' = members /\ inbox' = inbox
      /\ UNCHANGED <<roster, handler, news, misled>>
  BY DEF HandleSubscription, Handle, page
<1>3. /\ sent \in Seq(Messages) /\ m \in Messages /\ Range(sent) = {m} \cup Range(sent')
      /\ Types(sent) = {m.type} \cup Types(sent') /\ Never(sent', SubOrder)
      /\ \A t \in Types(sent') : <<m.type, t>> \notin SubOrder
  <2>1. sent \in Seq(Messages)
    BY <1>1 DEF TypeInv, TypeOK
  <2> QED
    BY <1>1, <1>2, <2>1, Shorter
<1>4. \/ m.type = "subscribe" /\ subs' = subs \cup {m.room} /\ carried' = members \cup Named(m.room)
      \/ m.type = "unsubscribe" /\ subs' = subs \ {m.room} /\ carried' = carried
  BY DEF HandleSubscription, Handle
<1>5. m.room \in Rooms
  BY <1>3, <1>4, MessageFields
<1> HIDE DEF m
<1>6. ~ Tuned'
  <2>1. Tuned' => Tuned
    BY <1>1, TunedSame DEF PlainStep
  <2> QED
    BY <1>3, <1>4, <2>1 DEF Showing
<1>7. \A u : WillShow(u)' <=> WillShow(u)
  BY <1>2 DEF WillShow
<1>8. ASSUME TunedIn', NEW u \in Users, Extra(u)' PROVE FALSE
  <2>0. WillShow(u) /\ u \notin carried'
    BY <1>7, <1>8 DEF Extra
  <2>1. CASE m.type = "subscribe" /\ subs' = subs \cup {m.room}
               /\ carried' = members \cup Named(m.room)
    <3>1. PICK x \in Rooms : x = m.room
      BY <1>5
    <3>2. "unsubscribe" \notin Types(sent')
      BY <1>3, <2>1 DEF SubOrder
    <3>3. \A i \in DOMAIN sent' : sent'[i] \notin Unsubscribing(x)
      BY <3>2 DEF Types, Range, Unsubscribing
    <3>4. WillHear(x)'
      BY <2>1, <3>1, <3>3 DEF WillHear, Ends
    <3>5. x = handle
      BY <1>2, <3>4 DEF Hearing
    <3> QED
      BY <1>1, <2>0, <2>1, <3>1, <3>5, ShowNamed
  <2>2. CASE m.type = "unsubscribe" /\ subs' = subs \ {m.room} /\ carried' = carried
    <3>1. handle \in subs /\ handle # m.room
      BY <1>2, <1>8, <2>2 DEF TunedIn
    <3>2. [type |-> "unsubscribe", room |-> handle].room = handle
      OBVIOUS
    <3>3. [type |-> "subscribe", room |-> handle].type = "subscribe"
      OBVIOUS
    <3>4. m \notin Subscribing(handle) /\ m \notin Unsubscribing(handle)
      BY <2>2, <3>1, <3>2, <3>3 DEF Subscribing, Unsubscribing
    <3>5. TunedIn
      BY <1>2, <1>3, <1>8, <3>1, <3>4 DEF TunedIn
    <3>6. Extra(u)
      BY <1>2, <1>7, <1>8, <2>2 DEF Extra, Unsure, handler
    <3> QED
      BY <3>5, <3>6 DEF Showing
  <2> QED
    BY <1>4, <2>1, <2>2
<1>9. TunedIn' => \A u \in Users : ~ Extra(u)'
  BY <1>8
<1> QED
  BY <1>2, <1>3, <1>6, <1>9 DEF Showing

\* What the server answers is about no member.
LEMMA PlainAnswers ==
  ASSUME TypeInv, HandleEdit \/ AnswerEdit \/ HandleCreate \/ HandleChat
  PROVE  \E ms \in Seq(Answers) : inbox' = inbox \o ms /\ "members" \notin Types(ms)
<1>1. inbox \in Seq(Answers)
  BY DEF TypeInv, TypeOK
<1>2. <<>> \in Seq(Answers) /\ inbox \o <<>> = inbox /\ "members" \notin Types(<<>>)
  BY <1>1, EmptyQueue
<1>3. CASE HandleChat
  BY <1>2, <1>3 DEF HandleChat
<1>4. CASE HandleEdit
  <2> DEFINE ms == <<[type |-> "status"]>>
  <2>1. ms \in Seq(Answers) /\ Types(ms) = {"status"}
    BY AnsweredPlain, Single
  <2>2. inbox' = inbox \/ inbox' = inbox \o ms
    BY <1>4 DEF HandleEdit, Answer
  <2> HIDE DEF ms
  <2> QED
    BY <1>2, <2>1, <2>2
<1>5. CASE AnswerEdit
  <2>1. PICK r \in Rooms : Answer(<<[type |-> "edited", room |-> r], [type |-> "rooms"]>>)
    BY <1>5 DEF AnswerEdit, TypeInv, TypeOK
  <2> DEFINE a == [type |-> "edited", room |-> r]
             b == [type |-> "rooms"]
             ms == <<a, b>>
  <2>2. a \in Answers /\ b \in Answers /\ a.type = "edited" /\ b.type = "rooms"
    BY AnsweredPlain, AnsweredRoom
  <2>3. inbox' = inbox \o ms
    BY <2>1 DEF Answer
  <2>4. ms \in Seq(Answers) /\ Types(ms) = {"edited", "rooms"}
    <3> HIDE DEF a, b
    <3> QED
      BY <2>2, Pair
  <2> HIDE DEF ms
  <2> QED
    BY <2>3, <2>4
<1>6. CASE HandleCreate
  <2> DEFINE a == [type |-> "created"]
             b == [type |-> "rooms"]
             ms == <<a, b>>
  <2>2. a \in Answers /\ b \in Answers /\ a.type = "created" /\ b.type = "rooms"
    BY AnsweredPlain
  <2>3. inbox' = inbox \o ms
    BY <1>6 DEF HandleCreate, Answer
  <2>4. ms \in Seq(Answers) /\ Types(ms) = {"created", "rooms"}
    <3> HIDE DEF a, b
    <3> QED
      BY <2>2, Pair
  <2> HIDE DEF ms
  <2> QED
    BY <2>3, <2>4
<1> QED
  BY <1>3, <1>4, <1>5, <1>6

LEMMA PlainShowing ==
  ASSUME SessionInv, Showing, HandleEdit \/ AnswerEdit \/ HandleCreate \/ HandleChat
  PROVE  Showing'
<1>1. TypeInv /\ Never(sent, SubOrder)
  BY DEF SessionInv, Showing
<1>2. /\ login' = login /\ handle' = handle /\ room' = room /\ members' = members
      /\ UNCHANGED <<roster, handler, news, misled, carried>> /\ subs' = subs
  BY DEF HandleEdit, AnswerEdit, HandleCreate, HandleChat, Handle, page, server, history
<1>3. PICK ms \in Seq(Answers) : inbox' = inbox \o ms /\ "members" \notin Types(ms)
  BY <1>1, PlainAnswers
<1>4. \A u \in Users : WillShow(u)' <=> WillShow(u)
  BY <1>1, <1>2, <1>3, ShowPlain
<1>5. Tuned' => Tuned
  BY <1>1, TunedSame DEF PlainStep
<1>6. /\ Never(sent', SubOrder) /\ (TunedIn' => TunedIn)
      /\ \A t \in {"subscribe", "unsubscribe"} : t \in Types(sent') => t \in Types(sent)
  <2>1. CASE AnswerEdit
    BY <1>1, <1>2, <2>1 DEF AnswerEdit, TunedIn
  <2>2. CASE HandleEdit \/ HandleCreate \/ HandleChat
    <3>1. /\ sent # <<>> /\ sent' = Tail(sent)
          /\ Head(sent).type \notin {"subscribe", "unsubscribe"}
      BY <2>2 DEF HandleEdit, HandleCreate, HandleChat, Handle
    <3> QED
      BY <1>1, <1>2, <3>1, SubTaken
  <2> QED
    BY <2>1, <2>2
<1> QED
  BY <1>1, <1>2, <1>4, <1>5, <1>6, ShowingSame

LEMMA ToldShows ==
  ASSUME inbox \in Seq(Answers), NEW r \in Rooms, NEW action \in {"join", "leave"},
         NEW v \in Users, NEW u, NEW held \in BOOLEAN
  PROVE  Ends(inbox \o Told(r, action, {v}), Naming(handle, "join", u),
              Naming(handle, "leave", u), held)
           <=> IF r = handle /\ r \in subs /\ u = v THEN action = "join"
               ELSE Ends(inbox, Naming(handle, "join", u), Naming(handle, "leave", u), held)
<1>1. PICK x, q : x = handle /\ q = inbox
  OBVIOUS
<1>2. q \in Seq(Answers)
  BY <1>1
<1>3. Ends(q \o Told(r, action, {v}), Naming(x, "join", u), Naming(x, "leave", u), held)
        <=> IF r = x /\ r \in subs /\ u = v THEN action = "join"
            ELSE Ends(q, Naming(x, "join", u), Naming(x, "leave", u), held)
  BY <1>2, ShowTold
<1> QED
  BY <1>1, <1>3

\* What has been told of a user is so, or the user is among the misled.
Settles(r, v) ==
  \A u \in Users :
    IF r = handle /\ u = v
    THEN <<handle, u>> \in misled' \/ (WillShow(u)' <=> u \in roster[handle])
    ELSE /\ <<handle, u>> \in misled' <=> <<handle, u>> \in misled
         /\ WillShow(u)' <=> WillShow(u)

\* The server tells of a change, and may answer something else after it.
LEMMA TellSettles ==
  ASSUME TypeInv, NEW r \in Rooms, NEW action \in {"join", "leave"}, NEW v \in Users,
         NEW ms \in Seq(Answers), "members" \notin Types(ms),
         Tell(action, r, v), inbox' = inbox \o (Told(r, action, {v}) \o ms),
         handle' = handle, members' = members, handle \in Rooms, handle \in subs
  PROVE  Settles(r, v)
<1> DEFINE told == Told(r, action, {v})
           q == inbox \o told
<1>1. /\ inbox \in Seq(Answers) /\ roster \in [Rooms -> SUBSET Users]
      /\ misled \in SUBSET (Rooms \X Users)
  BY DEF TypeInv, TypeOK
<1>2. told \in Seq(Answers)
  BY ToldType
<1>3. inbox' = q \o ms /\ q \in Seq(Answers)
  <2>1. inbox' = inbox \o (told \o ms)
    OBVIOUS
  <2> HIDE DEF told
  <2>2. inbox \o (told \o ms) = (inbox \o told) \o ms
    BY <1>1, <1>2, ConcatAssociative
  <2>3. inbox \o told \in Seq(Answers)
    BY <1>1, <1>2
  <2> QED
    BY <2>1, <2>2, <2>3
<1>4. ASSUME NEW u \in Users
      PROVE  WillShow(u)' <=> IF r = handle /\ u = v THEN action = "join" ELSE WillShow(u)
  <2> DEFINE On == Naming(handle, "join", u)
             Off == Naming(handle, "leave", u)
             held == u \in members
  <2>1. /\ held \in BOOLEAN /\ (WillShow(u) <=> Ends(inbox, On, Off, held))
        /\ WillShow(u)' <=> Ends(inbox', On, Off, held)
    BY DEF WillShow
  <2>2. Range(ms) \cap (On \cup Off) = {}
    BY DEF Naming, Types
  <2> HIDE DEF held
  <2>3. ASSUME NEW h \in BOOLEAN
        PROVE  Ends(q, On, Off, h) <=> IF r = handle /\ r \in subs /\ u = v THEN action = "join"
                                       ELSE Ends(inbox, On, Off, h)
    <3> HIDE DEF q, told, On, Off
    <3>1. inbox \in Seq(Answers) /\ r \in Rooms /\ action \in {"join", "leave"} /\ v \in Users
      BY <1>1
    <3>2. Ends(inbox \o Told(r, action, {v}), Naming(handle, "join", u),
               Naming(handle, "leave", u), h)
            <=> IF r = handle /\ r \in subs /\ u = v THEN action = "join"
                ELSE Ends(inbox, Naming(handle, "join", u), Naming(handle, "leave", u), h)
      BY <3>1, ToldShows
    <3> QED
      BY <3>2 DEF q, told, On, Off
  <2> HIDE DEF q, On, Off
  <2>4. Ends(q, On, Off, held) <=> IF r = handle /\ u = v THEN action = "join"
                                   ELSE Ends(inbox, On, Off, held)
    BY <2>1, <2>3
  <2>5. Ends(q \o ms, On, Off, held) <=> Ends(q, On, Off, held)
    BY <1>3, <2>1, <2>2, EndsMore
  <2>6. Ends(inbox', On, Off, held) <=> Ends(q, On, Off, held)
    BY <1>3, <2>5
  <2> QED
    BY <2>1, <2>4, <2>6
<1>5. misled' = IF (action = "join") <=> (v \in roster[r])
                THEN misled \ {<<r, v>>} ELSE misled \cup {<<r, v>>}
  BY DEF Tell
<1>6. ASSUME NEW u \in Users, r = handle, u = v
      PROVE  <<handle, u>> \in misled' \/ (WillShow(u)' <=> u \in roster[handle])
  <2>1. CASE (action = "join") <=> (v \in roster[r])
    BY <1>4, <1>6, <2>1
  <2>2. CASE ~ ((action = "join") <=> (v \in roster[r]))
    BY <1>5, <1>6, <2>2
  <2> QED
    BY <2>1, <2>2
<1>7. ASSUME NEW u \in Users, ~ (r = handle /\ u = v)
      PROVE  /\ <<handle, u>> \in misled' <=> <<handle, u>> \in misled
             /\ WillShow(u)' <=> WillShow(u)
  <2>1. <<handle, u>> # <<r, v>>
    BY <1>7
  <2> QED
    BY <1>4, <1>5, <1>7, <2>1
<1> QED
  BY <1>6, <1>7 DEF Settles

\* The handler of a join tells of it.
LEMMA JoinHandledShowing ==
  ASSUME SessionInv, TypeInv', Hearing, Showing, JoinHandled
  PROVE  Showing'
<1>1. TypeInv /\ Never(sent, SubOrder)
  BY DEF SessionInv, Showing
<1> DEFINE m == [type |-> "joined", room |-> about]
           ms == <<m>>
<1>2. /\ login' = login /\ handle' = handle /\ room' = room /\ members' = members
      /\ UNCHANGED <<roster, about, news, carried>> /\ subs' = subs /\ sent' = sent
      /\ doing = "joined" /\ doing' = "merge" /\ about \in Rooms
      /\ Tell("join", about, Me) /\ inbox' = inbox \o (Told(about, "join", {Me}) \o ms)
  BY <1>1 DEF JoinHandled, page, Answer, TypeInv, Held
<1>3. ms \in Seq(Answers) /\ "members" \notin Types(ms)
  <2>1. m \in Answers /\ m.type = "joined"
    BY <1>2, AnsweredRoom
  <2> HIDE DEF m
  <2> QED
    BY <2>1, Single
<1> HIDE DEF ms
<1>4. (Tuned' => Tuned) /\ (TunedIn' => TunedIn)
  BY <1>1, <1>2, TunedSame DEF PlainStep, TunedIn
<1>5. Tuned' /\ doing' \in {"joined", "merge", "deliver"} => about' = handle
  BY <1>2, <1>4 DEF Showing
<1>6. \A u \in Users : ~ Missing(u)'
  BY <1>2 DEF Missing, Delivered
<1>7. ASSUME TunedIn', NEW u \in Users, Extra(u)' PROVE Extra(u)
  <2>1. handle \in subs /\ handle \in Rooms
    BY <1>1, <1>2, <1>7 DEF TunedIn, TypeInv, TypeOK
  <2>2. Settles(about, Me)
    BY <1>1, <1>2, <1>3, <2>1, TellSettles, ClientAssumption
  <2> QED
    BY <1>2, <1>7, <2>2 DEF Settles, Extra, Unsure
<1> QED
  BY <1>1, <1>2, <1>4, <1>5, <1>6, <1>7, ShowingKept

\* The handler of a leave tells of it.
LEMMA LeaveHandledShowing ==
  ASSUME SessionInv, TypeInv', Hearing, Showing, LeaveHandled
  PROVE  Showing'
<1>1. TypeInv /\ Never(sent, SubOrder)
  BY DEF SessionInv, Showing
<1> DEFINE m == [type |-> "left", room |-> about]
           ms == <<m>>
<1>2. /\ login' = login /\ handle' = handle /\ room' = room /\ members' = members
      /\ UNCHANGED <<roster, news, carried>> /\ subs' = subs /\ sent' = sent
      /\ doing = "left" /\ doing' = "none" /\ about \in Rooms
      /\ Tell("leave", about, Me) /\ inbox' = inbox \o (Told(about, "leave", {Me}) \o ms)
  BY <1>1 DEF LeaveHandled, page, Answer, TypeInv, Held
<1>3. ms \in Seq(Answers) /\ "members" \notin Types(ms)
  <2>1. m \in Answers /\ m.type = "left"
    BY <1>2, AnsweredRoom
  <2> HIDE DEF m
  <2> QED
    BY <2>1, Single
<1> HIDE DEF ms
<1>4. (Tuned' => Tuned) /\ (TunedIn' => TunedIn)
  BY <1>1, <1>2, TunedSame DEF PlainStep, TunedIn
<1>5. handle \in subs /\ handle \in Rooms => Settles(about, Me)
  BY <1>1, <1>2, <1>3, TellSettles, ClientAssumption
<1>6. ASSUME Tuned', NEW u \in Users, Missing(u)' PROVE Missing(u)
  <2>1. Settles(about, Me)
    BY <1>1, <1>4, <1>5, <1>6, TunedSubscribed
  <2> QED
    BY <1>2, <1>6, <2>1 DEF Settles, Missing, Unsure, Delivered
<1>7. ASSUME TunedIn', NEW u \in Users, Extra(u)' PROVE Extra(u)
  <2>1. handle \in subs /\ handle \in Rooms
    BY <1>1, <1>2, <1>7 DEF TunedIn, TypeInv, TypeOK
  <2> QED
    BY <1>2, <1>5, <1>7, <2>1 DEF Settles, Extra, Unsure
<1> QED
  BY <1>1, <1>2, <1>4, <1>6, <1>7, ShowingKept

\* The members are read, for the client that waits for them.
LEMMA MergeShowing ==
  ASSUME SessionInv, Showing, MergeMembers
  PROVE  Showing'
<1>1. TypeInv /\ Never(sent, SubOrder)
  BY DEF SessionInv, Showing
<1>2. /\ login' = login /\ handle' = handle /\ room' = room /\ members' = members
      /\ UNCHANGED <<roster, about, news, misled, carried, inbox>> /\ subs' = subs /\ sent' = sent
      /\ doing = "merge" /\ doing' = "deliver" /\ merged' = roster[about]
  BY DEF MergeMembers, page, history
<1>3. (Tuned' => Tuned) /\ (TunedIn' => TunedIn)
  BY <1>1, <1>2, TunedSame DEF PlainStep, TunedIn
<1>4. Tuned => about = handle
  BY <1>2 DEF Showing
<1>5. \A u \in Users : WillShow(u)' <=> WillShow(u)
  BY <1>2 DEF WillShow
<1>6. ASSUME Tuned', NEW u \in Users, Missing(u)' PROVE Missing(u)
  BY <1>2, <1>3, <1>4, <1>6 DEF Missing, Delivered
<1>7. ASSUME NEW u \in Users, Extra(u)' PROVE Extra(u)
  BY <1>2, <1>5, <1>7 DEF Extra, Unsure
<1> QED
  BY <1>1, <1>2, <1>3, <1>4, <1>6, <1>7, ShowingKept

\* They are delivered: of those who have gone in between the client is misled.
LEMMA DeliverShowing ==
  ASSUME SessionInv, TypeInv', Showing, DeliverMembers
  PROVE  Showing'
<1>1. TypeInv /\ Never(sent, SubOrder)
  BY DEF SessionInv, Showing
<1> DEFINE m == [type |-> "members", room |-> about, action |-> "join", users |-> merged]
<1>2. /\ login' = login /\ handle' = handle /\ room' = room /\ members' = members
      /\ UNCHANGED <<roster, news, carried>> /\ subs' = subs /\ sent' = sent
      /\ doing = "deliver" /\ doing' = "none" /\ about \in Rooms /\ merged \in SUBSET Users
      /\ inbox' = inbox \o <<m>>
      /\ misled' = (misled \ ({about} \X merged)) \cup ({about} \X (merged \ roster[about]))
  BY <1>1 DEF DeliverMembers, page, Answer, TypeInv, TypeOK, Held
<1>3. /\ m \in Answers /\ m.type = "members" /\ m.room = about /\ m.action = "join"
      /\ m.users = merged
  BY <1>2, AnsweredMembers
<1> HIDE DEF m
<1>4. (Tuned' => Tuned) /\ (TunedIn' => TunedIn)
  BY <1>1, <1>2, TunedSame DEF PlainStep, TunedIn
<1>5. Tuned => about = handle
  BY <1>2 DEF Showing
<1>6. ASSUME NEW u \in Users
      PROVE  WillShow(u)' <=> (about = handle /\ u \in merged) \/ WillShow(u)
  <2> DEFINE On == Naming(handle, "join", u)
             Off == Naming(handle, "leave", u)
             held == u \in members
  <2>1. /\ held \in BOOLEAN /\ (WillShow(u) <=> Ends(inbox, On, Off, held))
        /\ WillShow(u)' <=> Ends(inbox', On, Off, held)
    BY <1>2 DEF WillShow
  <2>2. On \cap Off = {} /\ (m \in On <=> about = handle /\ u \in merged) /\ m \notin Off
    BY <1>3, NamesApart DEF Naming
  <2>3. inbox \in Seq(Answers)
    BY <1>1 DEF TypeInv, TypeOK
  <2> HIDE DEF held, On, Off
  <2>4. Ends(inbox \o <<m>>, On, Off, held) <=>
          IF m \in On THEN TRUE ELSE IF m \in Off THEN FALSE ELSE Ends(inbox, On, Off, held)
    BY <1>3, <2>1, <2>2, <2>3, EndsLonger
  <2> QED
    BY <1>2, <2>1, <2>2, <2>4
<1>7. ASSUME NEW u \in Users
      PROVE  <<handle, u>> \in misled' <=>
               IF about = handle /\ u \in merged THEN u \notin roster[handle]
               ELSE <<handle, u>> \in misled
  BY <1>2
<1>8. ASSUME Tuned', NEW u \in Users, Missing(u)' PROVE Missing(u)
  BY <1>2, <1>4, <1>5, <1>6, <1>7, <1>8 DEF Missing, Unsure, Delivered
<1>9. ASSUME NEW u \in Users, Extra(u)' PROVE Extra(u)
  BY <1>2, <1>6, <1>7, <1>9 DEF Extra, Unsure
<1> QED
  BY <1>1, <1>2, <1>4, <1>8, <1>9, ShowingKept

\* A user changes the members, and the clients will hear of it.
LEMMA TellsShowing ==
  ASSUME SessionInv, Showing, OtherStep, NEW r \in Rooms, NEW v \in Users,
         NEW action \in {"join", "leave"}, Tells(action, r, v), inbox' = inbox,
         misled' = misled,
         roster' = [roster EXCEPT ![r] = @ \ {v}] \/ roster' = [roster EXCEPT ![r] = @ \cup {v}]
  PROVE  Showing'
<1>1. TypeInv /\ Never(sent, SubOrder) /\ roster \in [Rooms -> SUBSET Users]
  BY DEF SessionInv, Showing, TypeInv, TypeOK
<1>2. /\ login' = login /\ handle' = handle /\ room' = room /\ members' = members
      /\ carried' = carried /\ subs' = subs /\ sent' = sent
      /\ doing' = doing /\ about' = about /\ merged' = merged
  BY OtherSame DEF page, handler
<1>3. (Tuned' => Tuned) /\ (TunedIn' => TunedIn)
  BY <1>1, <1>2, TunedSame DEF TunedIn
<1>4. \A u : WillShow(u)' <=> WillShow(u)
  BY <1>2 DEF WillShow
<1>5. ASSUME NEW u \in Users, handle \in Rooms
      PROVE  \/ r = handle /\ u = v /\ Unsure(handle, u)'
             \/ /\ u \in roster'[handle] <=> u \in roster[handle]
                /\ Unsure(handle, u) => Unsure(handle, u)'
  <2>0. news \in [News -> Nat]
    BY <1>1 DEF TypeInv, TypeOK
  <2>1. \A m \in News : news'[m] = IF m = Untold(action, r, v) THEN news[m] + 1 ELSE news[m]
    BY <1>1, TellsType
  <2>2. \A a \in {"join", "leave"} : Untold(a, handle, u) \in News
    BY <1>5, UntoldNews
  <2>3. CASE r = handle /\ u = v
    <3>1. news'[Untold(action, handle, u)] = news[Untold(action, handle, u)] + 1
      BY <2>0, <2>1, <2>2, <2>3
    <3>2. news'[Untold(action, handle, u)] > 0
      BY <2>0, <2>1, <2>2, <3>1
    <3> QED
      BY <1>2, <2>3, <3>2 DEF Unsure
  <2>4. CASE ~ (r = handle /\ u = v)
    <3>1. u \in roster'[handle] <=> u \in roster[handle]
      BY <1>1, <1>5, <2>4
    <3>2. \A a \in {"join", "leave"} :
            news[Untold(a, handle, u)] > 0 => news'[Untold(a, handle, u)] > 0
      BY <2>0, <2>1, <2>2
    <3> QED
      BY <1>2, <3>1, <3>2 DEF Unsure
  <2> QED
    BY <2>3, <2>4
<1>6. ASSUME Tuned', NEW u \in Users, Missing(u)' PROVE Missing(u)
  <2>1. handle \in Rooms
    BY <1>1, <1>3, <1>6 DEF Tuned, TypeInv, TypeOK
  <2> QED
    BY <1>2, <1>4, <1>5, <1>6, <2>1 DEF Missing, Delivered
<1>7. ASSUME TunedIn', NEW u \in Users, Extra(u)' PROVE Extra(u)
  <2>1. handle \in Rooms
    BY <1>1, <1>3, <1>7 DEF TunedIn, TypeInv, TypeOK
  <2> QED
    BY <1>2, <1>4, <1>5, <1>7, <2>1 DEF Extra
<1>8. Tuned' /\ doing' \in {"joined", "merge", "deliver"} => about' = handle
  BY <1>2, <1>3 DEF Showing
<1> QED
  BY <1>1, <1>2, <1>3, <1>6, <1>7, <1>8, ShowingKept

\* The clients hear of a change.
LEMMA SpreadShowing ==
  ASSUME SessionInv, Hearing, Showing, Spread
  PROVE  Showing'
<1>1. TypeInv /\ Never(sent, SubOrder) /\ news \in [News -> Nat]
  BY DEF SessionInv, Showing, TypeInv, TypeOK
<1>2. /\ login' = login /\ handle' = handle /\ room' = room /\ members' = members
      /\ carried' = carried /\ subs' = subs /\ sent' = sent /\ roster' = roster
      /\ doing' = doing /\ about' = about /\ merged' = merged
  BY DEF Spread, page, handler
<1>3. PICK m \in News : /\ news' = [news EXCEPT ![m] = @ - 1]
                        /\ Tell(m.action, m.room, m.user)
                        /\ Answer(Told(m.room, m.action, {m.user}))
  BY DEF Spread
<1>4. m.action \in {"join", "leave"} /\ m.room \in Rooms /\ m.user \in Users
  BY DEF News
<1>5. (Tuned' => Tuned) /\ (TunedIn' => TunedIn)
  BY <1>1, <1>2, TunedSame DEF TunedIn, OtherStep
<1>6. handle \in subs /\ handle \in Rooms => Settles(m.room, m.user)
  <2> DEFINE told == Told(m.room, m.action, {m.user})
  <2>1. told \in Seq(Answers) /\ inbox' = inbox \o told
    BY <1>3, <1>4, ToldType DEF Answer
  <2> HIDE DEF told
  <2>2. told = told \o <<>> /\ <<>> \in Seq(Answers) /\ "members" \notin Types(<<>>)
    BY <2>1, EmptyQueue
  <2>3. inbox' = inbox \o (told \o <<>>)
    BY <2>1, <2>2
  <2> QED
    BY <1>1, <1>2, <1>3, <1>4, <2>2, <2>3, TellSettles DEF told
<1>7. ASSUME NEW u \in Users, handle \in Rooms, ~ (m.room = handle /\ m.user = u)
      PROVE  \A a \in {"join", "leave"} : news'[Untold(a, handle, u)] = news[Untold(a, handle, u)]
  <2>1. \A a \in {"join", "leave"} : Untold(a, handle, u) \in News /\ Untold(a, handle, u) # m
    BY <1>7, UntoldNews DEF Untold
  <2> QED
    BY <1>1, <1>3, <2>1
<1>8. ASSUME Tuned', NEW u \in Users, Missing(u)' PROVE Missing(u)
  <2>1. Settles(m.room, m.user) /\ handle \in Rooms
    BY <1>1, <1>5, <1>6, <1>8, TunedSubscribed
  <2>2. CASE m.room = handle /\ u = m.user
    BY <1>2, <1>8, <2>1, <2>2 DEF Settles, Missing, Unsure
  <2>3. CASE ~ (m.room = handle /\ u = m.user)
    BY <1>2, <1>7, <1>8, <2>1, <2>3 DEF Settles, Missing, Unsure, Delivered
  <2> QED
    BY <2>2, <2>3
<1>9. ASSUME TunedIn', NEW u \in Users, Extra(u)' PROVE Extra(u)
  <2>1. Settles(m.room, m.user) /\ handle \in Rooms
    BY <1>1, <1>5, <1>6, <1>9 DEF TunedIn, TypeInv, TypeOK
  <2>2. CASE m.room = handle /\ u = m.user
    BY <1>2, <1>9, <2>1, <2>2 DEF Settles, Extra, Unsure
  <2>3. CASE ~ (m.room = handle /\ u = m.user)
    BY <1>2, <1>7, <1>9, <2>1, <2>3 DEF Settles, Extra, Unsure
  <2> QED
    BY <2>2, <2>3
<1>10. Tuned' /\ doing' \in {"joined", "merge", "deliver"} => about' = handle
  BY <1>2, <1>5 DEF Showing
<1> QED
  BY <1>1, <1>2, <1>5, <1>8, <1>9, <1>10, ShowingKept

LEMMA OtherShowing ==
  ASSUME SessionInv, Hearing, Showing, OtherStep
  PROVE  Showing'
<1>1. CASE Move
  <2>1. PICK v \in Users, r \in Rooms, action \in {"join", "leave"} :
          /\ Tells(action, r, v)
          /\ roster' = [roster EXCEPT ![r] = @ \ {v}] \/ roster' = [roster EXCEPT ![r] = @ \cup {v}]
    BY <1>1 DEF Move
  <2> QED
    BY <1>1, <2>1, TellsShowing DEF Move, history
<1>2. ASSUME NEW r \in Rooms, RemoveMe(r) \/ LateJoin(r) PROVE Showing'
  <2>1. PICK action \in {"join", "leave"} :
          /\ Tells(action, r, Me)
          /\ \/ roster' = [roster EXCEPT ![r] = @ \ {Me}]
             \/ roster' = [roster EXCEPT ![r] = @ \cup {Me}]
    BY <1>2 DEF RemoveMe, LateJoin
  <2> QED
    BY <1>2, <2>1, TellsShowing, ClientAssumption DEF RemoveMe, LateJoin
<1> QED
  BY <1>1, <1>2, SpreadShowing DEF OtherStep

\* Who is let in will be told who is there.
LEMMA JoinShowing ==
  ASSUME SessionInv, Hearing, Showing, Orderly', HandleJoin
  PROVE  Showing'
<1>1. TypeInv /\ OrderInv /\ Never(sent, SubOrder)
  BY DEF SessionInv, Showing
<1> DEFINE status == [type |-> "status"]
<1>2. /\ InOrder /\ sent # <<>> /\ Head(sent).type = "join" /\ sent' = Tail(sent)
      /\ handle \in Rooms /\ doing = "none" /\ login = "in"
      /\ \/ roster' = roster /\ Answer(<<status>>) /\ UNCHANGED <<handler, ghosts, gaps>>
         \/ /\ roster' = [roster EXCEPT ![handle] = @ \cup {Me}]
            /\ doing' = "joined" /\ about' = handle /\ UNCHANGED <<inbox, merged>>
      /\ UNCHANGED <<login, page, subs, news, carried, misled>>
  BY <1>1, HandleJoinEffect
<1>3. /\ room' = room /\ handle' = handle /\ members' = members
  BY <1>2 DEF page
<1>4. /\ Never(sent', SubOrder) /\ (TunedIn' => TunedIn)
      /\ \A t \in {"subscribe", "unsubscribe"} : t \in Types(sent') => t \in Types(sent)
  BY <1>1, <1>2, <1>3, SubTaken
<1>5. inbox \in Seq(Answers) /\ sent \in Seq(Messages) /\ roster \in [Rooms -> SUBSET Users]
  BY <1>1 DEF TypeInv, TypeOK
<1>6. CASE roster' = roster /\ Answer(<<status>>) /\ UNCHANGED <<handler, ghosts, gaps>>
  <2> DEFINE ms == <<status>>
  <2>1. status \in Answers /\ status.type = "status"
    BY AnsweredPlain
  <2> HIDE DEF status
  <2>2. ms \in Seq(Answers) /\ Types(ms) = {"status"}
    BY <2>1, Single
  <2>3. InboxAlike
    BY <1>1, <1>6, <2>1, PlainOne, DoingSame DEF handler, TypeInv
  <2> HIDE DEF ms
  <2>4. inbox' = inbox \o ms
    BY <1>6 DEF Answer, ms
  <2>5. \A u \in Users : WillShow(u)' <=> WillShow(u)
    BY <1>1, <1>3, <2>2, <2>4, ShowPlain
  <2>6. Types(sent) = {"join"} \cup Types(sent')
    BY <1>2, <1>5, Shorter
  <2>7. Tuned' => Tuned
    BY <1>3, <2>3, <2>6 DEF Tuned, Departing, InboxAlike
  <2> QED
    BY <1>1, <1>2, <1>3, <1>4, <1>6, <2>5, <2>7, ShowingSame
<1>7. CASE /\ roster' = [roster EXCEPT ![handle] = @ \cup {Me}]
           /\ doing' = "joined" /\ about' = handle /\ UNCHANGED <<inbox, merged>>
  <2>1. "subscribe" \notin Types(sent') /\ "unsubscribe" \notin Types(sent')
    <3>1. Never(sent, SentOrder)
      BY <1>2 DEF InOrder, OneByOne
    <3>2. \A t \in Types(sent') : <<Head(sent).type, t>> \notin SentOrder
      BY <1>2, <1>5, <3>1, Shorter
    <3> QED
      BY <1>2, <3>2 DEF SentOrder
  <2>2. \A u : WillShow(u)' <=> WillShow(u)
    BY <1>3, <1>7 DEF WillShow
  <2>3. \A u \in Users : ~ Missing(u)'
    BY <1>7 DEF Missing, Delivered
  <2>4. roster[handle] \subseteq roster'[handle]
    BY <1>2, <1>5, <1>7
  <2>5. ASSUME NEW u \in Users, Extra(u)' PROVE Extra(u)
    BY <1>2, <1>3, <2>2, <2>4, <2>5 DEF Extra, Unsure
  <2>6. TunedIn' => \A u \in Users : ~ Extra(u)'
    BY <1>4, <2>5 DEF Showing
  <2>7. login' = "in" /\ about' = handle'
    BY <1>2, <1>3, <1>7
  <2> QED
    BY <1>4, <2>1, <2>3, <2>6, <2>7 DEF Showing
<1> QED
  BY <1>2, <1>6, <1>7

\* Who leaves is told of nobody until the server has let it in again.
LEMMA LeaveShowing ==
  ASSUME SessionInv, Hearing, Showing, Orderly', HandleLeave
  PROVE  Showing'
<1>1. TypeInv /\ OrderInv /\ Never(sent, SubOrder)
  BY DEF SessionInv, Showing
<1>2. /\ InOrder /\ sent # <<>> /\ Head(sent).type = "leave" /\ sent' = Tail(sent)
      /\ room \in Rooms /\ roster' = [roster EXCEPT ![room] = @ \ {Me}] /\ inbox' = inbox
      /\ doing = "none" /\ doing' = "left" /\ about' = room /\ login = "in"
      /\ UNCHANGED <<login, page, subs, merged, news, carried, misled>>
      /\ "leave" \in Types(sent)
  BY <1>1, HandleLeaveEffect
<1>3. room' = room /\ handle' = handle /\ members' = members
  BY <1>2 DEF page
<1>4. ~ Tuned'
  <2>1. "joined" \notin Expected'
    BY <1>2 DEF InOrder, OneByOne, Expected
  <2>2. Departing'
    BY <1>2 DEF Departing, Expected
  <2> QED
    BY <2>1, <2>2 DEF Tuned
<1>5. Never(sent', SubOrder) /\ (TunedIn' => TunedIn)
  BY <1>1, <1>2, <1>3, SubTaken
<1>6. ASSUME TunedIn', NEW u \in Users, Extra(u)' PROVE FALSE
  <2>1. TunedIn /\ handle \in Rooms /\ roster \in [Rooms -> SUBSET Users]
    BY <1>1, <1>5, <1>6 DEF TunedIn, TypeInv, TypeOK
  <2>2. WillShow(u) <=> WillShow(u)'
    BY <1>2, <1>3 DEF WillShow
  <2>3. ~ (room = handle /\ u = Me)
    BY <1>2, <1>3, <1>6 DEF Extra
  <2>4. u \in roster[handle] => u \in roster'[handle]
    BY <1>2, <2>1, <2>3
  <2>5. Extra(u)
    BY <1>2, <1>3, <1>6, <2>2, <2>4 DEF Extra, Unsure
  <2> QED
    BY <2>1, <2>5 DEF Showing
<1>7. TunedIn' => \A u \in Users : ~ Extra(u)'
  BY <1>6
<1> QED
  BY <1>2, <1>4, <1>5, <1>7 DEF Showing

LEMMA ShowStep == SessionInv /\ HearInv /\ ShowInv /\ [Next]_vars => ShowInv'
<1> SUFFICES ASSUME SessionInv, HearInv, ShowInv, [Next]_vars, Without(Gaps \ {"early"})'
             PROVE  Showing'
  BY DEF ShowInv
<1>1. TypeInv' /\ OrderInv' /\ HearInv' /\ Orderly'
  BY TypeStep, OrderStep, HearStep DEF SessionInv, Orderly, Without, Gaps
<1>2. Hearing'
  BY <1>1 DEF HearInv, Without, Gaps
<1>3. CASE Logout
  <2>1. sent' = <<>> /\ handle' = NoRoom
    BY <1>3 DEF Logout
  <2>2. ~ Tuned' /\ ~ TunedIn'
    BY <1>1, <2>1, ClientAssumption DEF Tuned, TunedIn, TypeInv, TypeOK
  <2> QED
    BY <2>1, <2>2, EmptyQueue, ShowingNobody
<1>4. CASE ~ Logout
  <2>1. gaps \subseteq gaps'
    BY <1>4, GapsGrow
  <2>2. Showing /\ Hearing
    BY <2>1 DEF ShowInv, HearInv, Orderly, Without, Gaps
  <2>3. ~ LoseSession
    BY DEF LoseSession, Without, Gaps
  <2>4. CASE UNCHANGED vars
    <3>1. UNCHANGED <<login, page, sent, inbox, server, misled, carried>>
      BY <2>4 DEF vars, history
    <3>2. room' = room /\ handle' = handle /\ members' = members /\ subs' = subs
          /\ UNCHANGED <<roster, handler, news, misled, carried>>
      BY <3>1 DEF server, page
    <3>3. (Tuned' => Tuned) /\ (TunedIn' => TunedIn)
      BY <3>1, <3>2, ServerIdle DEF Tuned, TunedIn, Departing
    <3>4. \A u \in Users : WillShow(u)' <=> WillShow(u)
      BY <3>1, <3>2 DEF WillShow
    <3>5. TypeInv /\ Never(sent', SubOrder)
      BY <2>2, <3>1 DEF SessionInv, Showing
    <3> QED
      BY <2>2, <3>1, <3>2, <3>3, <3>4, <3>5, ShowingSame
  <2>5. CASE ServerStep
    BY <1>1, <1>2, <2>2, <2>5, SubscriptionShowing, PlainShowing, JoinShowing, LeaveShowing,
       JoinHandledShowing, LeaveHandledShowing, MergeShowing, DeliverShowing DEF ServerStep
  <2>6. CASE OtherStep
    BY <2>2, <2>6, OtherShowing
  <2> QED
    BY <1>1, <1>4, <2>2, <2>3, <2>4, <2>5, <2>6, UserShowing, ClientShowing DEF Next
<1> QED
  BY <1>3, <1>4

\* Once all has come to its end, every member of the room that the client shows
\* is shown, and nobody else but who was shown before the subscription to it
\* began and those of whom the server said last what was not so, if none of the
\* gaps but a join before the removal of a former session has happened.
THEOREM MembersShown == Spec => []ShowsMembers
<1>1. Init => ShowInv
  <2> SUFFICES ASSUME Init PROVE Showing
    BY DEF ShowInv
  <2>1. handle = NoRoom /\ sent = <<>> /\ subs = {}
    BY DEF Init
  <2> QED
    BY <2>1, EmptyQueue DEF Showing, Tuned, TunedIn
<1>2. SessionInv /\ HearInv /\ ShowInv => ShowsMembers
  <2> SUFFICES ASSUME SessionInv, HearInv, ShowInv, Settled, room # NoRoom,
                      Without(Gaps \ {"early"}), NEW u \in Users, <<room, u>> \notin misled
               PROVE  IF u \in roster[room] THEN u \in members ELSE u \in members => u \in carried
    BY DEF ShowsMembers
  <2>1. Hearing /\ Showing /\ TypeInv
    BY DEF HearInv, ShowInv, SessionInv, Orderly, Without, Gaps
  <2>2. room = handle /\ ~ Departing
    BY <2>1, EmptyQueue DEF Hearing, Departing, Expected, Settled, Answered
  <2>3. Tuned
    BY <2>2 DEF Tuned
  <2>4. TunedIn /\ handle \in Rooms
    BY <2>1, <2>3, TunedSubscribed
  <2>5. WillShow(u) <=> u \in members
    <3> DEFINE held == u \in members
    <3>1. WillShow(u) <=> Ends(<<>>, Naming(handle, "join", u), Naming(handle, "leave", u), held)
      BY DEF WillShow, Settled, Answered
    <3> HIDE DEF held
    <3>2. WillShow(u) <=> held
      BY <3>1, EmptyQueue
    <3> QED
      BY <3>2 DEF held
  <2>6. ~ Unsure(handle, u)
    <3>1. \A action \in {"join", "leave"} : news[Untold(action, handle, u)] = 0
      BY <2>4, UntoldNews DEF Settled
    <3> QED
      BY <2>2, <3>1 DEF Unsure
  <2>7. doing = "none"
    BY DEF Settled, Answered
  <2> QED
    BY <2>1, <2>2, <2>3, <2>4, <2>5, <2>6, <2>7 DEF Showing, Missing, Extra, Delivered
<1> QED
  BY <1>1, <1>2, ShowStep, Heard, PTL DEF Spec
=============================================================================
