------------------------------- MODULE Users -------------------------------
(***************************************************************************)
(* UsersService and the authentication of SecurityPolicy: the registry of  *)
(* the users that are logged in, one OortStringMap of UserInfo per node,   *)
(* replicated to every other node.                                         *)
(*                                                                         *)
(* The server calls sessionAdded and sessionRemoved on the thread that     *)
(* serves the session; two sessions are served by two threads, so each     *)
(* access of a listener to userToSession, seti or userInfos is a step of   *)
(* its own here.  UserInfo is equal by id alone, so a user is its id.      *)
(***************************************************************************)
EXTENDS OortLinks

CONSTANTS
  UserIds,            \* the ids users log in with
  Sessions,           \* the sessions there ever are, over all nodes
  NoUser,             \* the USER_INFO attribute of a session that has none
  NoSession,          \* userToSession has no entry
  NoNode,             \* the session has not reached a node yet
  MaxPartings         \* bound: how often two nodes lose each other

ASSUME UsersAssumption ==
  /\ NoUser \notin UserIds
  /\ NoSession \notin Sessions
  /\ NoNode \notin Nodes
  /\ MaxPartings \in Nat

VARIABLES
  pc,             \* where the thread that serves a session is
  user,           \* the USER_INFO session attribute
  home,           \* the node a session is connected to
  userToSession,  \* per node: the session that registered a user
  seti,           \* the sessions associated with their user
  infos,          \* infos[n][m]: the part of userInfos owned by m, seen at n
  links,          \* what is under way between nodes
  joined,         \* which nodes reach which
  partings,       \* how often nodes have parted
  met             \* history: the pairs of sessions that a user had open at
                  \* the same time on a node

vars == <<pc, user, home, userToSession, seti, infos, links, joined, partings, met>>

Pcs == {"new", "added", "associate", "share", "connected",
        "disassociate", "forget", "gone"}

\* put and remove carry the user, object the whole map of the sender.
Messages ==
  [type : {"put", "remove"}, user : UserIds]
    \cup [type : {"object"}, users : SUBSET UserIds]
    \cup [type : {"left"}]

TypeOK ==
  /\ pc \in [Sessions -> Pcs]
  /\ user \in [Sessions -> UserIds \cup {NoUser}]
  /\ home \in [Sessions -> Nodes \cup {NoNode}]
  /\ userToSession \in [Nodes -> [UserIds -> Sessions \cup {NoSession}]]
  /\ seti \in SUBSET Sessions
  /\ infos \in [Nodes -> [Nodes -> SUBSET UserIds]]
  /\ links \in [Nodes -> [Nodes -> Seq(Messages)]]
  /\ joined \in [Nodes -> SUBSET Nodes]
  /\ partings \in 0 .. MaxPartings
  /\ met \in SUBSET (Sessions \X Sessions)

Init ==
  /\ pc = [s \in Sessions |-> "new"]
  /\ user = [s \in Sessions |-> NoUser]
  /\ home = [s \in Sessions |-> NoNode]
  /\ userToSession = [n \in Nodes |-> [u \in UserIds |-> NoSession]]
  /\ seti = {}
  /\ infos = [n \in Nodes |-> [m \in Nodes |-> {}]]
  /\ links = NoLinks
  /\ joined = AllJoined
  /\ partings = 0
  /\ met = {}

-----------------------------------------------------------------------------
\* Handshake and sessionAdded.

\* A session that exists on n for user u, whatever its thread is doing.
Open(s, n, u) ==
  /\ pc[s] \notin {"new", "gone"}
  /\ home[s] = n
  /\ user[s] = u

\* The sessions that user u has open on n when s opens, each paired with s.
Meetings(s, n, u) ==
  LET others == {t \in Sessions : u # NoUser /\ Open(t, n, u)}
  IN  ({s} \X others) \cup (others \X {s})

\* A handshake that is accepted.  A remote user gets the USER_INFO
\* attribute, another Oort node is let in without one.  Nothing keeps a user
\* from opening a second session while the first is open or being removed.
CanHandshake(s, n, u) ==
  /\ pc[s] = "new"
  /\ pc' = [pc EXCEPT ![s] = "added"]
  /\ user' = [user EXCEPT ![s] = u]
  /\ home' = [home EXCEPT ![s] = n]
  /\ met' = met \cup Meetings(s, n, u)
  /\ UNCHANGED <<userToSession, seti, infos, links, joined, partings>>

\* sessionAdded: only the first session of a user registers it.
PutIfAbsent(s) ==
  /\ pc[s] = "added"
  /\ \/ /\ user[s] # NoUser
        /\ userToSession[home[s]][user[s]] = NoSession
        /\ userToSession' = [userToSession EXCEPT ![home[s]][user[s]] = s]
        /\ pc' = [pc EXCEPT ![s] = "associate"]
     \/ /\ \/ user[s] = NoUser
           \/ user[s] # NoUser /\ userToSession[home[s]][user[s]] # NoSession
        /\ pc' = [pc EXCEPT ![s] = "connected"]
        /\ UNCHANGED userToSession
  /\ UNCHANGED <<user, home, seti, infos, links, joined, partings, met>>

Associate(s) ==
  /\ pc[s] = "associate"
  /\ seti' = seti \cup {s}
  /\ pc' = [pc EXCEPT ![s] = "share"]
  /\ UNCHANGED <<user, home, userToSession, infos, links, joined, partings, met>>

\* Slip: the map is changed on this node and not shared.
PutOnly(s) ==
  /\ pc[s] = "share"
  /\ infos' = [infos EXCEPT ![home[s]][home[s]] = @ \cup {user[s]}]
  /\ pc' = [pc EXCEPT ![s] = "connected"]
  /\ UNCHANGED <<user, home, userToSession, seti, links, joined, partings, met>>

PutAndShare(s) ==
  /\ pc[s] = "share"
  /\ infos' = [infos EXCEPT ![home[s]][home[s]] = @ \cup {user[s]}]
  /\ links' = Publish(links, home[s], joined[home[s]],
                      [type |-> "put", user |-> user[s]])
  /\ pc' = [pc EXCEPT ![s] = "connected"]
  /\ UNCHANGED <<user, home, userToSession, seti, joined, partings, met>>

-----------------------------------------------------------------------------
\* sessionRemoved, after a disconnect or an expiry.

\* Slip: the null check of the attribute is missing.
RemoveUnchecked(s) ==
  /\ pc[s] = "connected"
  /\ infos' = [infos EXCEPT ![home[s]][home[s]] = @ \ {user[s]}]
  /\ links' = Publish(links, home[s], joined[home[s]],
                      [type |-> "remove", user |-> user[s]])
  /\ pc' = [pc EXCEPT ![s] = "disassociate"]
  /\ UNCHANGED <<user, home, userToSession, seti, joined, partings, met>>

\* Slip: a session that is not the registered one leaves the map alone.
RemoveIfRegistered(s) ==
  /\ pc[s] = "connected"
  /\ IF user[s] # NoUser /\ userToSession[home[s]][user[s]] = s
     THEN /\ infos' = [infos EXCEPT ![home[s]][home[s]] = @ \ {user[s]}]
          /\ links' = Publish(links, home[s], joined[home[s]],
                              [type |-> "remove", user |-> user[s]])
     ELSE UNCHANGED <<infos, links>>
  /\ pc' = [pc EXCEPT ![s] = IF user[s] = NoUser THEN "gone" ELSE "disassociate"]
  /\ UNCHANGED <<user, home, userToSession, seti, joined, partings, met>>

RemoveAndShare(s) ==
  /\ pc[s] = "connected"
  /\ \/ /\ user[s] # NoUser
        /\ infos' = [infos EXCEPT ![home[s]][home[s]] = @ \ {user[s]}]
        /\ links' = Publish(links, home[s], joined[home[s]],
                            [type |-> "remove", user |-> user[s]])
        /\ pc' = [pc EXCEPT ![s] = "disassociate"]
     \/ /\ user[s] = NoUser
        /\ pc' = [pc EXCEPT ![s] = "gone"]
        /\ UNCHANGED <<infos, links>>
  /\ UNCHANGED <<user, home, userToSession, seti, joined, partings, met>>

Disassociate(s) ==
  /\ pc[s] = "disassociate"
  /\ seti' = seti \ {s}
  /\ pc' = [pc EXCEPT ![s] = "forget"]
  /\ UNCHANGED <<user, home, userToSession, infos, links, joined, partings, met>>

\* Slip: the entry of userToSession is left behind.
ForgetNothing(s) ==
  /\ pc[s] = "forget"
  /\ pc' = [pc EXCEPT ![s] = "gone"]
  /\ UNCHANGED <<user, home, userToSession, seti, infos, links, joined, partings, met>>

\* The entry goes by user id, whichever session it names.
Forget(s) ==
  /\ pc[s] = "forget"
  /\ userToSession' = [userToSession EXCEPT ![home[s]][user[s]] = NoSession]
  /\ pc' = [pc EXCEPT ![s] = "gone"]
  /\ UNCHANGED <<user, home, seti, infos, links, joined, partings, met>>

-----------------------------------------------------------------------------
\* The replication of userInfos.

\* n applies the oldest message of m to its copy of what m owns.
Applied(msg, S) ==
  CASE msg.type = "put"    -> S \cup {msg.user}
    [] msg.type = "remove" -> S \ {msg.user}
    [] msg.type = "object" -> msg.users
    [] msg.type = "left"   -> {}

Receive(m, n) ==
  /\ links[m][n] # <<>>
  /\ infos' = [infos EXCEPT ![n][m] = Applied(Head(links[m][n]), @)]
  /\ links' = Consume(links, m, n)
  /\ UNCHANGED <<pc, user, home, userToSession, seti, joined, partings, met>>

NodesPart(m, n) ==
  /\ n \in joined[m]
  /\ partings < MaxPartings
  /\ links' = Sever(links, m, n, [type |-> "left"])
  /\ joined' = Part(joined, m, n)
  /\ partings' = partings + 1
  /\ UNCHANGED <<pc, user, home, userToSession, seti, infos, met>>

NodesJoin(m, n) ==
  /\ m # n /\ n \notin joined[m]
  /\ links' = Exchange(links, m, n,
                       [type |-> "object", users |-> infos[m][m]],
                       [type |-> "object", users |-> infos[n][n]])
  /\ joined' = Join(joined, m, n)
  /\ UNCHANGED <<pc, user, home, userToSession, seti, infos, partings, met>>

-----------------------------------------------------------------------------
\* What a thread does once the server has called the listener.
Step(s) ==
  \/ PutIfAbsent(s)
  \/ Associate(s)
  \/ PutAndShare(s)
  \/ Disassociate(s)
  \/ Forget(s)

Next ==
  \/ \E s \in Sessions, n \in Nodes, u \in UserIds \cup {NoUser} : CanHandshake(s, n, u)
  \/ \E s \in Sessions : Step(s)
  \/ \E s \in Sessions : RemoveAndShare(s)
  \/ \E m, n \in Nodes : Receive(m, n)
  \/ \E m, n \in Nodes : NodesPart(m, n)
  \/ \E m, n \in Nodes : NodesJoin(m, n)

Spec == Init /\ [][Next]_vars

\* Threads run on and messages arrive; nobody has to log in, log out, or
\* lose or find a node.
Fairness ==
  /\ \A s \in Sessions : WF_vars(Step(s))
  /\ \A m, n \in Nodes : WF_vars(Receive(m, n))

FairSpec == Spec /\ Fairness

-----------------------------------------------------------------------------
\* Properties.

\* A UserInfo on the node that owns it is backed by a session of that user
\* which still has its sessionRemoved ahead, so no UserInfo outlives the
\* last session of its user, in whatever order two sessions of one user come
\* and go (sessionRemoved removes by user id, not by session).
NoOrphanInfo ==
  \A n \in Nodes : \A u \in infos[n][n] :
    \E s \in Sessions : Open(s, n, u) /\ pc[s] = "connected"

\* A session that is gone has left nothing behind on its node: it is
\* neither associated in Seti nor the session userToSession names, even
\* when another session of the same user removed or replaced the entry.
NothingLeftBehind ==
  \A s \in Sessions : pc[s] = "gone" =>
    /\ s \notin seti
    /\ \A n \in Nodes, u \in UserIds : userToSession[n][u] # s

\* The sessions of the user of s, open with s on its node, that are still on
\* their way into the map, or have taken the user out of it.
Entering(s) == {t \in Sessions : <<s, t>> \in met /\ pc[t] \in {"associate", "share"}}
Leaving(s) ==
  {t \in Sessions : <<s, t>> \in met /\ pc[t] \in {"disassociate", "forget", "gone"}}

\* Once sessionAdded has returned, the user of the session is in the map of
\* its node until the session is removed, unless another session of the user
\* that was open at the same time is still entering it or took it out: a
\* session that ended before this one began never costs it its entry.
Registered ==
  \A s \in Sessions :
    pc[s] = "connected" /\ user[s] # NoUser =>
      user[s] \in infos[home[s]][home[s]] \/ Entering(s) # {} \/ Leaving(s) # {}

\* Whether a copy S of a map holds u once the messages q have been applied:
\* the last message about u decides.
About(msg, u) == msg.type \in {"object", "left"} \/ msg.user = u

Says(msg, u) ==
  \/ msg.type = "put"
  \/ msg.type = "object" /\ u \in msg.users

Last(q, u, i) == About(q[i], u) /\ \A j \in i+1 .. Len(q) : ~ About(q[j], u)

WillHold(q, S, u) ==
  \/ \E i \in 1 .. Len(q) : Last(q, u, i) /\ Says(q[i], u)
  \/ u \in S /\ \A i \in 1 .. Len(q) : ~ About(q[i], u)

\* Whatever is under way brings the copies of a map to the map itself on
\* every node that is joined with its owner, and to nothing on the others.
ReplicasConverge ==
  \A m, n \in Nodes : m # n =>
    \A u \in UserIds :
      WillHold(links[m][n], infos[n][m], u) <=> n \in joined[m] /\ u \in infos[m][m]

\* A user that stays connected becomes known on every node that stays
\* joined with its own, unless another of its sessions took it out of the map.
KnownEverywhere ==
  \A s \in Sessions, n \in Nodes :
    pc[s] = "connected" /\ user[s] # NoUser
      ~> \/ pc[s] # "connected"
         \/ n # home[s] /\ n \notin joined[home[s]]
         \/ user[s] \in infos[n][home[s]]
         \/ Leaving(s) # {}
=============================================================================
