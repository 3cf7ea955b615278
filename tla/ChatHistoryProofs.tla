------------------------- MODULE ChatHistoryProofs -------------------------
(***************************************************************************)
(* ChatHistory implements ChatLog, whatever the number of calls, of rooms  *)
(* and of chats that are kept.                                             *)
(***************************************************************************)
EXTENDS ChatHistory, TLAPS

-----------------------------------------------------------------------------
\* The latest chats of a log.

\* How many chats of a log of n are kept.
Kept(n) == IF n <= MaxEntries THEN n ELSE MaxEntries

LEMMA LatestLength ==
  ASSUME NEW s \in Seq(Archives)
  PROVE  /\ Kept(Len(s)) \in 0 .. Len(s)
         /\ Kept(Len(s)) <= MaxEntries
         /\ Log!Latest(s) \in Seq(Archives)
         /\ Len(Log!Latest(s)) = Kept(Len(s))
         /\ \A i \in 1 .. Kept(Len(s)) : Log!Latest(s)[i] = s[Len(s) - Kept(Len(s)) + i]
<1> DEFINE k == Kept(Len(s))
           f == [i \in 1 .. k |-> s[Len(s) - k + i]]
<1>1. k \in 0 .. Len(s) /\ k <= MaxEntries
  BY ChatHistoryAssumption DEF Kept
<1>2. Log!Latest(s) = f
  BY DEF Log!Latest, Kept
<1>3. f \in [1 .. k -> Archives]
  BY <1>1
<1>4. \A i \in 1 .. k : f[i] = s[Len(s) - k + i]
  OBVIOUS
<1> HIDE DEF f, k
<1>5. f \in Seq(Archives) /\ Len(f) = k
  BY <1>1, <1>3
<1> QED
  BY <1>1, <1>2, <1>4, <1>5 DEF k

\* The latest chats are a sequence no longer than MaxEntries.
LEMMA LatestIsHistory ==
  ASSUME NEW s \in Seq(Archives)
  PROVE  Log!Latest(s) \in Histories
BY LatestLength DEF Histories

\* Of an empty log there are none.
LEMMA LatestOfNothing == Log!Latest(<<>>) = <<>>
BY ChatHistoryAssumption DEF Log!Latest

\* ChatHistoryInfo.add turns the latest chats of a log into those of the log
\* with the chat appended.
LEMMA KeepIsLatest ==
  ASSUME NEW s \in Seq(Archives), NEW c \in Archives
  PROVE  Log!Latest(Append(s, c)) = Keep(Log!Latest(s), c)
<1> DEFINE t == Append(s, c)
           L == Log!Latest(s)
           M == Log!Latest(t)
           n == Len(s)
<1>1. /\ n \in Nat
      /\ t \in Seq(Archives) /\ Len(t) = n + 1
      /\ \A i \in 1 .. n : t[i] = s[i]
      /\ t[n + 1] = c
  OBVIOUS
<1> HIDE DEF t
<1>2. /\ L \in Seq(Archives) /\ Len(L) = Kept(n)
      /\ \A i \in 1 .. Kept(n) : L[i] = s[n - Kept(n) + i]
  BY LatestLength
<1>3. /\ M \in Seq(Archives) /\ Len(M) = Kept(n + 1)
      /\ \A i \in 1 .. Kept(n + 1) : M[i] = t[n + 1 - Kept(n + 1) + i]
  <2>1. /\ M \in Seq(Archives) /\ Len(M) = Kept(Len(t))
        /\ \A i \in 1 .. Kept(Len(t)) : M[i] = t[Len(t) - Kept(Len(t)) + i]
    BY <1>1, LatestLength
  <2> HIDE DEF M, n
  <2> QED
    BY SMTT(30), <1>1, <2>1
<1> HIDE DEF L, M, n
<1>4. CASE n < MaxEntries
  <2>1. Kept(n) = n /\ Kept(n + 1) = n + 1
    BY <1>1, <1>4, ChatHistoryAssumption DEF Kept
  <2>2. Keep(L, c) = Append(L, c)
    BY <1>1, <1>2, <1>4, <2>1, ChatHistoryAssumption DEF Keep
  <2>3. ASSUME NEW i \in 1 .. n PROVE M[i] = L[i]
    <3>1. n - n + i = i /\ n + 1 - (n + 1) + i = i /\ i \in 1 .. n + 1
      BY <1>1
    <3>2. L[i] = s[i]
      BY <1>2, <2>1, <3>1
    <3>3. M[i] = t[i]
      BY <1>3, <2>1, <3>1
    <3> QED
      BY <1>1, <3>2, <3>3
  <2>4. M[n + 1] = c
    <3>1. n + 1 - (n + 1) + (n + 1) = n + 1 /\ n + 1 \in 1 .. n + 1
      BY <1>1
    <3> QED
      BY <1>1, <1>3, <2>1, <3>1
  <2>5. M = Append(L, c)
    BY <1>1, <1>2, <1>3, <2>1, <2>3, <2>4
  <2> QED
    BY <2>2, <2>5 DEF L, M, t
<1>5. CASE n >= MaxEntries
  <2>1. Kept(n) = MaxEntries /\ Kept(n + 1) = MaxEntries
    BY <1>1, <1>5, ChatHistoryAssumption DEF Kept
  <2>2. Keep(L, c) = Append(Tail(L), c)
    BY <1>2, <2>1 DEF Keep
  <2>3. ASSUME NEW i \in 1 .. MaxEntries - 1 PROVE M[i] = L[i + 1]
    <3>1. /\ i \in 1 .. MaxEntries /\ i + 1 \in 1 .. MaxEntries
          /\ n + 1 - MaxEntries + i = n - MaxEntries + (i + 1)
          /\ n + 1 - MaxEntries + i \in 1 .. n
      BY <1>1, <1>5, ChatHistoryAssumption
    <3>2. L[i + 1] = s[n - MaxEntries + (i + 1)]
      BY <1>2, <2>1, <3>1
    <3>3. M[i] = t[n + 1 - MaxEntries + i]
      BY <1>3, <2>1, <3>1
    <3> QED
      BY <1>1, <3>1, <3>2, <3>3
  <2>4. M[MaxEntries] = c
    <3>1. n + 1 - MaxEntries + MaxEntries = n + 1 /\ MaxEntries \in 1 .. MaxEntries
      BY <1>1, ChatHistoryAssumption
    <3> QED
      BY <1>1, <1>3, <2>1, <3>1
  <2>5. /\ Tail(L) \in Seq(Archives) /\ Len(Tail(L)) = MaxEntries - 1
        /\ \A i \in 1 .. MaxEntries - 1 : Tail(L)[i] = L[i + 1]
    BY <1>2, <2>1, ChatHistoryAssumption
  <2>6. M = Append(Tail(L), c)
    BY <1>3, <2>1, <2>3, <2>4, <2>5, ChatHistoryAssumption
  <2> QED
    BY <2>2, <2>6 DEF L, M, t
<1> QED
  BY <1>1, <1>4, <1>5, ChatHistoryAssumption

-----------------------------------------------------------------------------
\* The inductive invariant.

\* A call that is about to use an object has that of its room.
GotTheRooms ==
  \A c \in Calls : pc[c] \in {"add", "read"} =>
    /\ history[c] = roomToHistory[RoomOf[c]]
    /\ history[c] # NoHistory

\* The object of a room was created by a call about that room, which has
\* gone on; the object of any other call is empty.
CreatedForRoom ==
  /\ \A r \in Rooms : roomToHistory[r] # NoHistory =>
       /\ RoomOf[roomToHistory[r]] = r
       /\ pc[roomToHistory[r]] \in {"add", "done"}
  /\ \A c \in Archives : pc[c] \in {"get", "create"} => chatInfos[c] = <<>>

\* A call adds its chat once and answers once.
Once ==
  /\ \A r \in Rooms : \A i \in 1 .. Len(archived[r]) : pc[archived[r][i]] = "done"
  /\ \A q \in Requests : pc[q] # "done" => answer[q] = NoAnswer

IInv == TypeOK /\ GotTheRooms /\ CreatedForRoom /\ Once /\ KeepsLatest

LEMMA Initially == Init => IInv
BY ChatHistoryAssumption, LatestOfNothing
   DEF Init, IInv, TypeOK, GotTheRooms, CreatedForRoom, Once, KeepsLatest, Histories, Calls

LEMMA KeepIsHistory ==
  ASSUME NEW s \in Histories, NEW c \in Archives
  PROVE  Keep(s, c) \in Histories
BY ChatHistoryAssumption DEF Histories, Keep

LEMMA TypeStep == TypeOK /\ [Next]_vars /\ GotTheRooms => TypeOK'
<1> SUFFICES ASSUME TypeOK, [Next]_vars, GotTheRooms PROVE TypeOK'
  OBVIOUS
<1> USE ChatHistoryAssumption DEF TypeOK, Calls
<1>1. <<>> \in Histories
  BY DEF Histories
<1>2. ASSUME NEW c \in Archives, Get(c) PROVE TypeOK'
  BY <1>2 DEF Get
<1>3. ASSUME NEW c \in Archives, PutIfAbsent(c) PROVE TypeOK'
  <2>1. c \in Calls /\ RoomOf[c] \in Rooms
    OBVIOUS
  <2>2. history' \in [Calls -> Archives \cup {NoHistory}]
    BY <1>3, <2>1 DEF PutIfAbsent
  <2>3. roomToHistory' \in [Rooms -> Archives \cup {NoHistory}]
    BY <1>3, <2>1 DEF PutIfAbsent
  <2>4. pc' \in [Calls -> {"get", "create", "add", "read", "done"}]
    BY <1>3, <2>1 DEF PutIfAbsent
  <2> QED
    BY <1>3, <2>2, <2>3, <2>4 DEF PutIfAbsent
<1>4. ASSUME NEW c \in Archives, Add(c) PROVE TypeOK'
  <2>1. history[c] \in Archives
    BY <1>4 DEF Add, GotTheRooms
  <2>2. Keep(chatInfos[history[c]], c) \in Histories
    BY <2>1, KeepIsHistory
  <2> QED
    BY <1>4, <2>1, <2>2 DEF Add
<1>5. ASSUME NEW q \in Requests, Retrieve(q) PROVE TypeOK'
  <2>1. q \in Calls /\ RoomOf[q] \in Rooms
    OBVIOUS
  <2>2. history' \in [Calls -> Archives \cup {NoHistory}]
    BY <1>5, <2>1 DEF Retrieve
  <2>3. answer' \in [Requests -> Histories \cup {NoAnswer}]
    BY <1>1, <1>5, <2>1 DEF Retrieve
  <2>4. pc' \in [Calls -> {"get", "create", "add", "read", "done"}]
    BY <1>5, <2>1 DEF Retrieve
  <2> QED
    BY <1>5, <2>2, <2>3, <2>4 DEF Retrieve
<1>6. ASSUME NEW q \in Requests, GetChatInfos(q) PROVE TypeOK'
  <2>1. history[q] \in Archives
    BY <1>6 DEF GetChatInfos, GotTheRooms
  <2> QED
    BY <1>6, <2>1 DEF GetChatInfos
<1>7. CASE UNCHANGED vars
  BY <1>7 DEF vars
<1> QED
  BY <1>2, <1>3, <1>4, <1>5, <1>6, <1>7 DEF Next

\* A call gets the object of the room, and a room never changes its object.
LEMMA GotTheRoomsStep == TypeOK /\ [Next]_vars /\ GotTheRooms => GotTheRooms'
<1> SUFFICES ASSUME TypeOK, [Next]_vars, GotTheRooms PROVE GotTheRooms'
  OBVIOUS
<1> USE ChatHistoryAssumption DEF TypeOK, Calls, GotTheRooms
<1>1. ASSUME NEW c \in Archives, Get(c) PROVE GotTheRooms'
  <2>1. c \in Calls /\ roomToHistory' = roomToHistory
    BY <1>1 DEF Get
  <2>2. pc'[c] = "add" => history'[c] = roomToHistory[RoomOf[c]] /\ history'[c] # NoHistory
    BY <1>1, <2>1 DEF Get
  <2>3. pc'[c] # "read"
    BY <1>1, <2>1 DEF Get
  <2>4. ASSUME NEW d \in Calls, d # c
        PROVE  pc'[d] = pc[d] /\ history'[d] = history[d]
    BY <1>1, <2>1, <2>4 DEF Get
  <2> QED
    BY <2>1, <2>2, <2>3, <2>4
<1>2. ASSUME NEW c \in Archives, PutIfAbsent(c) PROVE GotTheRooms'
  <2>1. c \in Calls /\ RoomOf[c] \in Rooms
    OBVIOUS
  <2>2. history'[c] = roomToHistory'[RoomOf[c]] /\ history'[c] # NoHistory
    BY <1>2, <2>1 DEF PutIfAbsent
  <2>3. ASSUME NEW d \in Calls, d # c, pc'[d] \in {"add", "read"}
        PROVE  history'[d] = roomToHistory'[RoomOf[d]] /\ history'[d] # NoHistory
    <3>1. /\ pc[d] \in {"add", "read"} /\ history'[d] = history[d]
          /\ RoomOf[d] \in Rooms
      BY <1>2, <2>1, <2>3 DEF PutIfAbsent
    <3>2. roomToHistory[RoomOf[d]] # NoHistory
      BY <3>1
    <3>3. roomToHistory'[RoomOf[d]] = roomToHistory[RoomOf[d]]
      BY <1>2, <2>1, <3>1, <3>2 DEF PutIfAbsent
    <3> QED
      BY <3>1, <3>3
  <2> QED
    BY <2>2, <2>3
<1>3. ASSUME NEW c \in Archives, Add(c) PROVE GotTheRooms'
  BY <1>3 DEF Add
<1>4. ASSUME NEW q \in Requests, Retrieve(q) PROVE GotTheRooms'
  <2>1. q \in Calls /\ roomToHistory' = roomToHistory
    BY <1>4 DEF Retrieve
  <2>2. pc'[q] = "read" => history'[q] = roomToHistory[RoomOf[q]] /\ history'[q] # NoHistory
    BY <1>4, <2>1 DEF Retrieve
  <2>3. pc'[q] # "add"
    BY <1>4, <2>1 DEF Retrieve
  <2>4. ASSUME NEW d \in Calls, d # q
        PROVE  pc'[d] = pc[d] /\ history'[d] = history[d]
    BY <1>4, <2>1, <2>4 DEF Retrieve
  <2> QED
    BY <2>1, <2>2, <2>3, <2>4
<1>5. ASSUME NEW q \in Requests, GetChatInfos(q) PROVE GotTheRooms'
  BY <1>5 DEF GetChatInfos
<1>6. CASE UNCHANGED vars
  BY <1>6 DEF vars
<1> QED
  BY <1>1, <1>2, <1>3, <1>4, <1>5, <1>6 DEF Next

LEMMA CreatedForRoomStep ==
  TypeOK /\ [Next]_vars /\ GotTheRooms /\ CreatedForRoom => CreatedForRoom'
<1> SUFFICES ASSUME TypeOK, [Next]_vars, GotTheRooms, CreatedForRoom PROVE CreatedForRoom'
  OBVIOUS
<1> USE ChatHistoryAssumption DEF TypeOK, Calls, CreatedForRoom
<1>1. ASSUME NEW c \in Archives, Get(c) PROVE CreatedForRoom'
  BY <1>1 DEF Get
<1>2. ASSUME NEW c \in Archives, PutIfAbsent(c) PROVE CreatedForRoom'
  <2>1. /\ pc[c] = "create" /\ RoomOf[c] \in Rooms
        /\ pc' = [pc EXCEPT ![c] = "add"] /\ chatInfos' = chatInfos
    BY <1>2 DEF PutIfAbsent
  <2>2. ASSUME NEW r \in Rooms, roomToHistory'[r] # NoHistory
        PROVE  \/ roomToHistory'[r] = roomToHistory[r]
               \/ r = RoomOf[c] /\ roomToHistory'[r] = c
    BY <1>2, <2>1, <2>2 DEF PutIfAbsent
  <2>3. ASSUME NEW r \in Rooms, roomToHistory'[r] # NoHistory
        PROVE  /\ RoomOf[roomToHistory'[r]] = r
               /\ pc'[roomToHistory'[r]] \in {"add", "done"}
    <3>1. CASE roomToHistory'[r] = roomToHistory[r]
      BY <2>1, <2>3, <3>1
    <3>2. CASE r = RoomOf[c] /\ roomToHistory'[r] = c
      BY <2>1, <3>2
    <3> QED
      BY <2>2, <2>3, <3>1, <3>2
  <2>4. \A d \in Archives : pc'[d] \in {"get", "create"} => chatInfos'[d] = <<>>
    BY <2>1
  <2> QED
    BY <2>3, <2>4
<1>3. ASSUME NEW c \in Archives, Add(c) PROVE CreatedForRoom'
  <2>1. history[c] = roomToHistory[RoomOf[c]] /\ history[c] \in Archives
    BY <1>3 DEF Add, GotTheRooms
  <2>2. pc[history[c]] \in {"add", "done"}
    BY <2>1
  <2> QED
    BY <1>3, <2>1, <2>2 DEF Add
<1>4. ASSUME NEW q \in Requests, Retrieve(q) PROVE CreatedForRoom'
  <2>1. /\ roomToHistory' = roomToHistory /\ chatInfos' = chatInfos
        /\ \A c \in Archives : pc'[c] = pc[c]
    BY <1>4 DEF Retrieve
  <2>2. \A r \in Rooms : roomToHistory[r] # NoHistory => roomToHistory[r] \in Archives
    OBVIOUS
  <2> QED
    BY <2>1, <2>2
<1>5. ASSUME NEW q \in Requests, GetChatInfos(q) PROVE CreatedForRoom'
  BY <1>5 DEF GetChatInfos
<1>6. CASE UNCHANGED vars
  BY <1>6 DEF vars
<1> QED
  BY <1>1, <1>2, <1>3, <1>4, <1>5, <1>6 DEF Next

LEMMA OnceStep == TypeOK /\ [Next]_vars /\ Once => Once'
<1> SUFFICES ASSUME TypeOK, [Next]_vars, Once PROVE Once'
  OBVIOUS
<1> USE ChatHistoryAssumption DEF TypeOK, Calls, Once
<1>1. \A r \in Rooms : \A i \in 1 .. Len(archived[r]) : archived[r][i] \in Archives
  OBVIOUS
<1>2. ASSUME NEW c \in Archives, Get(c) PROVE Once'
  BY <1>1, <1>2 DEF Get
<1>3. ASSUME NEW c \in Archives, PutIfAbsent(c) PROVE Once'
  BY <1>1, <1>3 DEF PutIfAbsent
<1>4. ASSUME NEW c \in Archives, Add(c) PROVE Once'
  <2>1. ASSUME NEW r \in Rooms, NEW i \in 1 .. Len(archived'[r])
        PROVE  pc'[archived'[r][i]] = "done"
    <3>1. CASE r = RoomOf[c]
      <4>1. archived'[r] = Append(archived[r], c)
        BY <1>4, <3>1 DEF Add
      <4>2. archived'[r][i] = c \/ (i \in 1 .. Len(archived[r]) /\ archived'[r][i] = archived[r][i])
        BY <4>1
      <4> QED
        BY <1>1, <1>4, <4>2 DEF Add
    <3>2. CASE r # RoomOf[c]
      BY <1>1, <1>4, <3>2 DEF Add
    <3> QED
      BY <3>1, <3>2
  <2>2. (\A q \in Requests : pc[q] # "done" => answer[q] = NoAnswer)'
    BY <1>4 DEF Add
  <2> QED
    BY <2>1, <2>2
<1>5. ASSUME NEW q \in Requests, Retrieve(q) PROVE Once'
  <2>1. /\ archived' = archived
        /\ \A c \in Archives : pc'[c] = pc[c]
    BY <1>5 DEF Retrieve
  <2>2. \A p \in Requests : pc'[p] # "done" => answer'[p] = answer[p] /\ pc[p] # "done"
    BY <1>5 DEF Retrieve
  <2> QED
    BY <1>1, <2>1, <2>2
<1>6. ASSUME NEW q \in Requests, GetChatInfos(q) PROVE Once'
  BY <1>1, <1>6 DEF GetChatInfos
<1>7. CASE UNCHANGED vars
  BY <1>7 DEF vars
<1> QED
  BY <1>2, <1>3, <1>4, <1>5, <1>6, <1>7 DEF Next

LEMMA KeepsLatestStep ==
  TypeOK /\ [Next]_vars /\ GotTheRooms /\ CreatedForRoom /\ KeepsLatest => KeepsLatest'
<1> SUFFICES ASSUME TypeOK, [Next]_vars, GotTheRooms, CreatedForRoom, KeepsLatest
             PROVE  KeepsLatest'
  OBVIOUS
<1> USE ChatHistoryAssumption DEF TypeOK, Calls, KeepsLatest
<1>1. ASSUME NEW c \in Archives, Get(c) PROVE KeepsLatest'
  BY <1>1 DEF Get
<1>2. ASSUME NEW c \in Archives, PutIfAbsent(c) PROVE KeepsLatest'
  <2>1. chatInfos[c] = <<>>
    BY <1>2 DEF PutIfAbsent, CreatedForRoom
  <2> QED
    BY <1>2, <2>1, LatestOfNothing DEF PutIfAbsent
<1>3. ASSUME NEW c \in Archives, Add(c) PROVE KeepsLatest'
  <2> DEFINE room == RoomOf[c]
             o == history[c]
  <2>1. room \in Rooms /\ o \in Archives /\ o = roomToHistory[room]
    BY <1>3 DEF Add, GotTheRooms
  <2>2. chatInfos'[o] = Log!Latest(archived'[room])
    <3>1. chatInfos[o] = Log!Latest(archived[room])
      BY <2>1
    <3>2. chatInfos'[o] = Keep(chatInfos[o], c) /\ archived'[room] = Append(archived[room], c)
      BY <1>3, <2>1 DEF Add
    <3>3. Log!Latest(Append(archived[room], c)) = Keep(Log!Latest(archived[room]), c)
      BY <2>1, KeepIsLatest
    <3> QED
      BY <3>1, <3>2, <3>3
  <2>3. ASSUME NEW r \in Rooms, r # room
        PROVE  /\ archived'[r] = archived[r]
               /\ roomToHistory[r] # NoHistory =>
                    chatInfos'[roomToHistory[r]] = chatInfos[roomToHistory[r]]
    BY <1>3, <2>1, <2>3 DEF Add, CreatedForRoom
  <2>4. roomToHistory' = roomToHistory
    BY <1>3 DEF Add
  <2> QED
    BY ZenonT(30), <2>1, <2>2, <2>3, <2>4
<1>4. ASSUME NEW q \in Requests, Retrieve(q) PROVE KeepsLatest'
  BY <1>4 DEF Retrieve
<1>5. ASSUME NEW q \in Requests, GetChatInfos(q) PROVE KeepsLatest'
  BY <1>5 DEF GetChatInfos
<1>6. CASE UNCHANGED vars
  BY <1>6 DEF vars
<1> QED
  BY <1>1, <1>2, <1>3, <1>4, <1>5, <1>6 DEF Next

LEMMA Inductive == IInv /\ [Next]_vars => IInv'
BY TypeStep, GotTheRoomsStep, CreatedForRoomStep, OnceStep, KeepsLatestStep DEF IInv

LEMMA Invariance == Spec => []IInv
<1> QED
  BY Initially, Inductive, PTL DEF Spec

-----------------------------------------------------------------------------
\* Every variable keeps its type; no history grows beyond MaxEntries.
THEOREM TypeCorrect == Spec => []TypeOK
BY Invariance, PTL DEF IInv

\* However many calls of archive and of retrieve run at once, the object of
\* a room holds the latest chats of the room and no chat is lost.
THEOREM LatestKept == Spec => []KeepsLatest
BY Invariance, PTL DEF IInv

-----------------------------------------------------------------------------
\* The refinement: Add archives a chat; the answer is that of the moment at
\* which retrieve finds no object, or the object it found is copied.

LEMMA StepRefines == IInv /\ [Next]_vars => [Log!Next]_<<archived, answer>>
<1> SUFFICES ASSUME IInv, [Next]_vars PROVE [Log!Next]_<<archived, answer>>
  OBVIOUS
<1> USE ChatHistoryAssumption DEF IInv, TypeOK, Calls
<1>1. ASSUME NEW c \in Archives, Get(c) PROVE UNCHANGED <<archived, answer>>
  BY <1>1 DEF Get
<1>2. ASSUME NEW c \in Archives, PutIfAbsent(c) PROVE UNCHANGED <<archived, answer>>
  BY <1>2 DEF PutIfAbsent
<1>3. ASSUME NEW c \in Archives, Add(c) PROVE Log!Archive(c)
  <2>1. ~ Log!Archived(c)
    BY <1>3 DEF Add, Log!Archived, Once
  <2> QED
    BY <1>3, <2>1 DEF Add, Log!Archive
<1>4. ASSUME NEW q \in Requests, Retrieve(q)
      PROVE  Log!Retrieve(q) \/ UNCHANGED <<archived, answer>>
  <2>1. answer[q] = NoAnswer /\ RoomOf[q] \in Rooms
    BY <1>4 DEF Retrieve, Once
  <2>2. CASE roomToHistory[RoomOf[q]] = NoHistory
    <3>1. Log!Latest(archived[RoomOf[q]]) = <<>>
      BY <2>1, <2>2, LatestOfNothing DEF KeepsLatest
    <3> QED
      BY <1>4, <2>1, <2>2, <3>1 DEF Retrieve, Log!Retrieve
  <2>3. CASE roomToHistory[RoomOf[q]] # NoHistory
    BY <1>4, <2>3 DEF Retrieve
  <2> QED
    BY <2>2, <2>3
<1>5. ASSUME NEW q \in Requests, GetChatInfos(q) PROVE Log!Retrieve(q)
  <2>1. answer[q] = NoAnswer /\ RoomOf[q] \in Rooms
    BY <1>5 DEF GetChatInfos, Once
  <2>2. chatInfos[history[q]] = Log!Latest(archived[RoomOf[q]])
    BY <1>5, <2>1 DEF GetChatInfos, GotTheRooms, KeepsLatest
  <2> QED
    BY <1>5, <2>1, <2>2 DEF GetChatInfos, Log!Retrieve
<1>6. CASE UNCHANGED vars
  BY <1>6 DEF vars
<1> QED
  BY <1>1, <1>2, <1>3, <1>4, <1>5, <1>6 DEF Next, Log!Next

\* ChatHistoryService is a log of chats of which everybody is shown the
\* latest ones.
THEOREM HistoryIsLog == Spec => IsChatLog
<1>1. Init => Log!Init
  BY DEF Init, Log!Init
<1> QED
  BY <1>1, Invariance, StepRefines, PTL DEF Spec, IsChatLog, Log!Spec
=============================================================================
