---------------------------- MODULE LoaderProofs ----------------------------
(***************************************************************************)
(* Proofs about Loader, for any program, any number of modules, scripts    *)
(* and calls, and whatever the scripts' order and the clock.               *)
(***************************************************************************)
EXTENDS Loader, FiniteSetTheorems, WellFoundedInduction, TLAPS

-----------------------------------------------------------------------------
\* What paths lead to.

LEMMA ReachedWithin ==
  ASSUME NEW n, NEW edges, NEW S \in SUBSET Modules,
         \A e \in edges : e[1] \in S \cup {n} => e[2] \in S
  PROVE  Reached(n, edges) \subseteq S
  BY DEF Reached

LEMMA ReachedFirst ==
  ASSUME NEW edges, NEW e \in edges, e[2] \in Modules
  PROVE  e[2] \in Reached(e[1], edges)
  BY DEF Reached

LEMMA ReachedNext ==
  ASSUME NEW n, NEW edges, NEW e \in edges, e[2] \in Modules, e[1] \in Reached(n, edges)
  PROVE  e[2] \in Reached(n, edges)
  BY DEF Reached

LEMMA ReachedMore ==
  ASSUME NEW n, NEW edges, NEW more, edges \subseteq more
  PROVE  Reached(n, edges) \subseteq Reached(n, more)
  BY DEF Reached

LEMMA ReachedOn ==
  ASSUME NEW n, NEW edges, \A e \in edges : e[2] \in Modules,
         NEW m \in Reached(n, edges)
  PROVE  Reached(m, edges) \subseteq Reached(n, edges)
<1>1. Reached(n, edges) \in SUBSET Modules
  BY DEF Reached
<1>2. \A e \in edges : e[1] \in Reached(n, edges) \cup {m} => e[2] \in Reached(n, edges)
  BY ReachedNext
<1> QED
  BY <1>1, <1>2, ReachedWithin

\* A path begins with an edge.
LEMMA ReachedStart ==
  ASSUME NEW n, NEW edges, \A e \in edges : e[2] \in Modules,
         NEW m \in Reached(n, edges)
  PROVE  \E e \in edges : e[1] = n /\ (m = e[2] \/ m \in Reached(e[2], edges))
<1> DEFINE S == {x \in Modules :
                   \E e \in edges : e[1] = n /\ (x = e[2] \/ x \in Reached(e[2], edges))}
<1>1. ASSUME NEW e \in edges, e[1] \in S \cup {n}
      PROVE  e[2] \in S
  <2>1. CASE e[1] = n
    BY <2>1
  <2>2. CASE e[1] \in S
    <3>1. PICK f \in edges : f[1] = n /\ (e[1] = f[2] \/ e[1] \in Reached(f[2], edges))
      BY <2>2
    <3>2. e[2] \in Reached(f[2], edges)
      BY <3>1, ReachedFirst, ReachedNext
    <3> QED
      BY <3>1, <3>2
  <2> QED
    BY <1>1, <2>1, <2>2
<1> HIDE DEF S
<1>2. S \in SUBSET Modules
  BY DEF S
<1>3. Reached(n, edges) \subseteq S
  BY <1>1, <1>2, ReachedWithin
<1> QED
  BY <1>3 DEF S

\* If whatever n reaches has an edge, then an edge that n reaches closes a
\* cycle: what is reached from the end of an edge is less than what is reached
\* from its beginning, or else the two reach each other.
LEMMA EndlessPathCloses ==
  ASSUME NEW n, NEW edges, \A e \in edges : e[2] \in Modules, IsFiniteSet(Modules),
         Reached(n, edges) # {},
         \A m \in Reached(n, edges) : \E e \in edges : e[1] = m
  PROVE  \E e \in edges : e[1] \in Reached(n, edges) /\ e[1] \in Reached(e[2], edges)
<1> SUFFICES ASSUME \A e \in edges : e[1] \in Reached(n, edges) => e[1] \notin Reached(e[2], edges)
             PROVE  FALSE
  OBVIOUS
<1> DEFINE T == {Reached(m, edges) : m \in Reached(n, edges)}
<1>1. T \subseteq SUBSET Modules /\ T # {}
  <2>1. \A m : Reached(m, edges) \subseteq Modules
    BY DEF Reached
  <2> QED
    BY <2>1
<1>2. IsWellFoundedOn(StrictSubsetOrdering(Modules), SUBSET Modules)
  BY FS_StrictSubsetOrderingWellFounded, FS_FiniteSubsetsOfFinite
<1>3. PICK least \in T : \A t \in T : ~(<<t, least>> \in StrictSubsetOrdering(Modules))
  <2> HIDE DEF T
  <2> QED
    BY <1>1, <1>2, WFMin
<1>4. PICK m \in Reached(n, edges) : least = Reached(m, edges)
  OBVIOUS
<1>5. PICK e \in edges : e[1] = m
  BY <1>4
<1>6. e[2] \in Reached(m, edges) /\ e[2] \in Reached(n, edges)
  BY <1>5, ReachedFirst, ReachedNext
<1>7. Reached(e[2], edges) \in T
  BY <1>6
<1>8. Reached(e[2], edges) \subseteq least
  BY <1>4, <1>6, ReachedOn
<1>9. e[2] \notin Reached(e[2], edges)
  <2> SUFFICES ASSUME e[2] \in Reached(e[2], edges) PROVE FALSE
    OBVIOUS
  <2>1. PICK f \in edges : f[1] = e[2] /\ (e[2] = f[2] \/ e[2] \in Reached(f[2], edges))
    BY ReachedStart
  <2>2. f[1] \in Reached(f[2], edges)
    BY <2>1
  <2> QED
    BY <2>1, <2>2, <1>6
<1>10. <<Reached(e[2], edges), least>> \in StrictSubsetOrdering(Modules)
  BY <1>1, <1>4, <1>6, <1>7, <1>8, <1>9 DEF StrictSubsetOrdering
<1> QED
  BY <1>3, <1>7, <1>10

-----------------------------------------------------------------------------
\* Types.

\* A call is registered when it is made, a module before it is; what runs
\* leaves the registry.
Registered ==
  /\ registry \cap Calls \subseteq inited
  /\ defined \subseteq inited
  /\ inited \subseteq registry \cup defined
  /\ registry \cap defined \cap Modules = {}

Errors == error \subseteq reported /\ error \cap Calls = {} /\ (defining # {} => aborted)

\* enable is called anew only for what has just been made.
Fresh == \A n \in enables \cap enabled : enables = {n} /\ emits = {}

\* Listeners are told of definitions that they wait for.
Told ==
  \A d, n \in Nodes : <<d, n>> \in emits =>
    d \in defined /\ n \in enabled \cap inited /\ d \in Deps(n)

NothingLeft == task = Idle => Quiet

\* The values that a node has are those of its dependencies, which have run or
\* were given up.
Matched ==
  \A n \in Nodes :
    /\ matched[n] \subseteq Deps(n)
    /\ n \notin inited => matched[n] = {}
    /\ \A d \in matched[n] : d \in defined \/ <<n, d>> \in given

Fetched == \A m \in Modules : script[m] # "none" => m \in registry \cup defined

TypeInv ==
  /\ TypeOK /\ Registered /\ Errors /\ Fresh /\ Told /\ NothingLeft /\ Matched /\ Fetched

LEMMA DepsType ==
  ASSUME TypeOK, NEW n \in Nodes
  PROVE  Deps(n) \subseteq Modules
<1>1. program.deps \in [Nodes -> SUBSET Modules]
  BY LoaderAssumption DEF TypeOK
<1>2. \A m \in Modules : factory[m] \in Modules \cup {NoFactory}
  BY DEF TypeOK
<1>3. Modules \subseteq Nodes /\ Nodes = Modules \cup Calls
  BY DEF Nodes
<1> QED
  BY <1>1, <1>2, <1>3 DEF Deps

LEMMA TaskType ==
  ASSUME task \in Tasks
  PROVE  /\ task.at \in {"idle", "check", "break", "complete", "issue", "tick"}
         /\ task.at = "idle" => task = Idle
         /\ task.at = "complete" => task.of \in Modules /\ task.found \in BOOLEAN
         /\ task.at = "issue" => task.of \in Modules
         /\ task.at = "tick" => task.of \in Calls
         /\ task.at \in {"check", "break"} => task = [at |-> task.at]
         /\ task.at \in {"issue", "tick"} => task = [at |-> task.at, of |-> task.of]
  BY DEF Tasks, Idle

LEMMA TasksBuilt ==
  /\ Idle \in Tasks /\ Idle.at = "idle"
  /\ [at |-> "check"] \in Tasks /\ [at |-> "break"] \in Tasks
  /\ \A m \in Modules : /\ [at |-> "complete", of |-> m, found |-> FALSE] \in Tasks
                        /\ [at |-> "issue", of |-> m] \in Tasks
  /\ \A c \in Calls : [at |-> "tick", of |-> c] \in Tasks
  BY DEF Tasks, Idle

LEMMA InitTyped == Init => TypeInv
<1> SUFFICES ASSUME Init PROVE TypeInv
  OBVIOUS
<1> USE DEF Init
<1>1. MainCalls \subseteq Calls
  BY LoaderAssumption DEF MainCalls
<1>2. TypeOK
  <2>1. MaxThrows \in Nat /\ Modules \subseteq Nodes
    BY LoaderAssumption DEF Nodes
  <2>2. <<>> \in Seq(Items)
    OBVIOUS
  <2>3. /\ matched \in [Nodes -> SUBSET Modules]
        /\ factory \in [Modules -> Modules \cup {NoFactory}]
        /\ script \in [Modules -> {"none", "loading", "arrived", "failed"}]
    OBVIOUS
  <2>4. throws \in 0 .. MaxThrows
    BY <2>1
  <2> QED
    BY <1>1, <2>2, <2>3, <2>4, TasksBuilt DEF TypeOK
<1>3. \A n \in Nodes : matched[n] = {}
  OBVIOUS
<1> QED
  BY <1>2, <1>3 DEF TypeInv, Registered, Errors, Fresh, Told, NothingLeft, Quiet, Matched, Fetched

-----------------------------------------------------------------------------
\* enable, the listeners and breakCycle: a node gets values and is checked.

Visit(n, got, reg, told, calls) ==
  /\ matched' = [matched EXCEPT ![n] = got]
  /\ enabled' = enabled \cup {n}
  /\ Check(n, got, reg, told, calls)
  /\ UNCHANGED <<program, inited, error, factory, definitions, ticks, timer, wronged>>

\* What the caller has seen to before.
Prepared(n, got, reg, told, calls) ==
  /\ task # Idle
  /\ n \in Nodes /\ n \in registry \cup inited
  /\ matched[n] \subseteq got /\ got \subseteq Deps(n)
  /\ n \notin inited => got = {}
  /\ \A d \in got : d \in defined \/ <<n, d>> \in given'
  /\ registry \subseteq reg /\ reg \ registry \subseteq Modules \ defined
  /\ told \subseteq emits
  /\ \A e \in emits : e \in told \/ (e[2] = n /\ e[1] \in got)
  /\ enables \ {n} \subseteq calls /\ calls \subseteq reg
  /\ n \notin calls /\ calls \cap enabled = {}
  /\ given \subseteq given' /\ given' \subseteq Nodes \X Modules

\* How a check ends: the node runs, its factory fails, or it goes on waiting.
LEMMA CheckEnds ==
  ASSUME NEW n, NEW got, NEW reg, NEW told, NEW calls, Check(n, got, reg, told, calls)
  PROVE  /\ n \in inited => UNCHANGED network
         /\ \/ /\ n \in inited /\ n \notin error \cup defining \cup defined /\ got = Deps(n)
               /\ Run(n, reg, told) /\ enables' = calls
            \/ /\ n \in inited /\ n \notin error \cup defining \cup defined /\ got = Deps(n)
               /\ Throw(n, reg)
            \/ /\ n \in inited => n \in error \cup defining \cup defined \/ got # Deps(n)
               /\ registry' = reg /\ emits' = told /\ enables' = calls
               /\ UNCHANGED <<defined, defining, checking, task, early, reported, aborted, throws>>
  BY DEF Check

\* A script is asked for by a node that waits for it.
LEMMA FetchedOnce ==
  ASSUME TypeInv, NEW n, NEW got, NEW reg, NEW told, NEW calls,
         Check(n, got, reg, told, calls), n \in registry \cup inited
  PROVE  /\ script' \in [Modules -> {"none", "loading", "arrived", "failed"}]
         /\ expired' \in BOOLEAN
         /\ \A m \in Modules : \/ script'[m] = script[m]
                               \/ /\ m = n /\ n \in registry \ inited
                                  /\ script[m] = "none" /\ script'[m] = "loading"
<1>1. CASE n \notin inited /\ n \notin queued /\ script[n] = "none"
  <2>1. n \in registry
    BY <1>1
  <2>2. script' = [script EXCEPT ![n] = "loading"] /\ expired' = FALSE
    BY <1>1 DEF Check, Fetch
  <2> QED
    BY <1>1, <2>1, <2>2 DEF TypeInv, TypeOK
<1>2. CASE ~(n \notin inited /\ n \notin queued /\ script[n] = "none")
  <2>1. UNCHANGED network
    BY <1>2 DEF Check, Fetch
  <2> QED
    BY <2>1 DEF TypeInv, TypeOK, network
<1> QED
  BY <1>1, <1>2

LEMMA VisitTyped ==
  ASSUME TypeInv, NEW n, NEW got, NEW reg, NEW told, NEW calls,
         Visit(n, got, reg, told, calls), Prepared(n, got, reg, told, calls)
  PROVE  TypeInv'
<1>0. /\ UNCHANGED <<program, inited, error, factory, queue, queued, ticks, timer, wronged>>
      /\ matched' = [matched EXCEPT ![n] = got] /\ enabled' = enabled \cup {n}
      /\ Check(n, got, reg, told, calls)
  BY DEF Visit, definitions
<1>1. /\ n \in Nodes /\ \A m \in Nodes : Deps(m) \subseteq Modules /\ Deps(m)' = Deps(m)
      /\ Modules \subseteq Nodes
  BY <1>0, DepsType DEF Prepared, TypeInv, Deps, Nodes
<1>2. /\ matched' \in [Nodes -> SUBSET Modules]
      /\ \A m \in Nodes : matched'[m] = IF m = n THEN got ELSE matched[m]
  BY <1>0, <1>1 DEF Prepared, TypeInv, TypeOK
<1>3. /\ script' \in [Modules -> {"none", "loading", "arrived", "failed"}]
      /\ expired' \in BOOLEAN
      /\ \A m \in Modules : \/ script'[m] = script[m]
                            \/ /\ m = n /\ n \in registry \ inited
                               /\ script[m] = "none" /\ script'[m] = "loading"
  BY <1>0, FetchedOnce DEF Prepared
<1>4. reg \subseteq Nodes
  BY <1>1 DEF Prepared, TypeInv, TypeOK
<1>8. /\ program' \in Programs /\ enabled' \in SUBSET Nodes /\ inited' \in SUBSET Nodes
      /\ error' \in SUBSET Nodes /\ factory' \in [Modules -> Modules \cup {NoFactory}]
      /\ queue' \in Seq(Items) /\ queued' \in SUBSET Modules /\ ticks' \in SUBSET Calls
      /\ timer' \in BOOLEAN /\ wronged' \in SUBSET Modules
      /\ given' \in SUBSET (Nodes \X Modules)
  BY <1>0, <1>1 DEF Prepared, TypeInv, TypeOK
<1>5. ASSUME /\ n \in inited /\ n \notin error \cup defining \cup defined /\ got = Deps(n)
             /\ Run(n, reg, told) /\ enables' = calls
      PROVE  TypeInv'
  <2>1. /\ defined' = defined \cup {n} /\ registry' = reg \ {n}
        /\ emits' = told \cup {<<n, l>> : l \in Listeners(n)}
        /\ early' = early \cup {<<n, d>> : d \in Deps(n) \ defined}
        /\ UNCHANGED <<defining, checking, task, reported, aborted, throws>>
    BY <1>5 DEF Run
  <2>2. Listeners(n) \subseteq Nodes
        /\ \A l \in Listeners(n) : l \in enabled \cap inited /\ n \in Deps(l)
    BY DEF Listeners, TypeInv, TypeOK
  <2>3. TypeOK'
    <3>1. early' \in SUBSET (Nodes \X Modules)
      BY <1>1, <2>1 DEF TypeInv, TypeOK
    <3>2. emits' \in SUBSET (Nodes \X Nodes)
      BY <1>1, <2>1, <2>2 DEF Prepared, TypeInv, TypeOK
    <3>3. enables' \in SUBSET registry' /\ registry' \in SUBSET Nodes
      BY <1>4, <1>5, <2>1 DEF Prepared
    <3>4. /\ defined' \in SUBSET Nodes /\ defining' \in SUBSET Nodes /\ reported' \in SUBSET Nodes
          /\ checking' \in BOOLEAN /\ aborted' \in BOOLEAN /\ task' \in Tasks
          /\ throws' \in 0 .. MaxThrows
      BY <1>1, <2>1 DEF TypeInv, TypeOK
    <3> QED
      BY <1>2, <1>3, <1>8, <3>1, <3>2, <3>3, <3>4 DEF TypeOK
  <2>4. Registered'
    BY <1>0, <1>1, <1>5, <2>1, LoaderAssumption DEF Prepared, TypeInv, Registered
  <2>5. Fresh'
    BY <1>0, <1>5, <2>1 DEF Prepared, TypeInv, Fresh
  <2>6. Told'
    <3>1. ASSUME NEW d \in Nodes, NEW m \in Nodes, <<d, m>> \in emits'
          PROVE  d \in defined' /\ m \in enabled \cap inited /\ d \in Deps(m)
      <4>1. <<d, m>> \in emits \/ (d = n /\ m \in Listeners(n))
        BY <2>1, <3>1 DEF Prepared
      <4> QED
        BY <2>1, <2>2, <4>1 DEF TypeInv, Told
    <3> QED
      BY <1>0, <1>1, <3>1 DEF Told
  <2>7. NothingLeft'
    BY <2>1 DEF Prepared, NothingLeft
  <2>8. Matched' /\ Errors'
    BY <1>0, <1>1, <1>2, <2>1 DEF Prepared, TypeInv, Matched, Errors
  <2>9. Fetched'
    BY <1>3, <2>1 DEF Prepared, TypeInv, Fetched
  <2> QED
    BY <2>3, <2>4, <2>5, <2>6, <2>7, <2>8, <2>9 DEF TypeInv
<1>6. ASSUME /\ n \in inited /\ n \notin error \cup defining \cup defined /\ got = Deps(n)
             /\ Throw(n, reg)
      PROVE  TypeInv'
  <2>1. /\ throws < MaxThrows /\ throws' = throws + 1
        /\ defining' = defining \cup {n} /\ registry' = reg
        /\ emits' = {} /\ enables' = {} /\ task' = Idle
        /\ reported' = reported \cup {n} /\ aborted' = TRUE
        /\ UNCHANGED <<defined, checking, early>>
    BY <1>6 DEF Throw
  <2>2. throws' \in 0 .. MaxThrows
    BY <2>1, LoaderAssumption DEF TypeInv, TypeOK
  <2>3. TypeOK'
    <3>1. /\ defined' \in SUBSET Nodes /\ defining' \in SUBSET Nodes /\ reported' \in SUBSET Nodes
          /\ checking' \in BOOLEAN /\ aborted' \in BOOLEAN /\ task' \in Tasks
          /\ early' \in SUBSET (Nodes \X Modules)
      BY <1>1, <2>1, TasksBuilt DEF TypeInv, TypeOK
    <3>2. /\ enables' \in SUBSET registry' /\ registry' \in SUBSET Nodes
          /\ emits' \in SUBSET (Nodes \X Nodes)
      BY <1>4, <2>1
    <3> QED
      BY <1>2, <1>3, <1>8, <2>2, <3>1, <3>2 DEF TypeOK
  <2>4. Registered'
    BY <1>0, <1>1, <2>1, LoaderAssumption DEF Prepared, TypeInv, Registered
  <2>5. Fresh' /\ Told' /\ NothingLeft' /\ Errors'
    BY <1>0, <2>1 DEF TypeInv, Fresh, Told, NothingLeft, Quiet, Errors
  <2>6. Matched'
    BY <1>0, <1>1, <1>2, <2>1 DEF Prepared, TypeInv, Matched
  <2>7. Fetched'
    BY <1>3, <2>1 DEF Prepared, TypeInv, Fetched
  <2> QED
    BY <2>3, <2>4, <2>5, <2>6, <2>7 DEF TypeInv
<1>7. ASSUME /\ registry' = reg /\ emits' = told /\ enables' = calls
             /\ UNCHANGED <<defined, defining, checking, task, early, reported, aborted, throws>>
      PROVE  TypeInv'
  <2>1. TypeOK'
    <3>1. /\ defined' \in SUBSET Nodes /\ defining' \in SUBSET Nodes /\ reported' \in SUBSET Nodes
          /\ checking' \in BOOLEAN /\ aborted' \in BOOLEAN /\ task' \in Tasks
          /\ early' \in SUBSET (Nodes \X Modules) /\ throws' \in 0 .. MaxThrows
      BY <1>7 DEF TypeInv, TypeOK
    <3>2. /\ enables' \in SUBSET registry' /\ registry' \in SUBSET Nodes
          /\ emits' \in SUBSET (Nodes \X Nodes)
      BY <1>4, <1>7 DEF Prepared, TypeInv, TypeOK
    <3> QED
      BY <1>2, <1>3, <1>8, <3>1, <3>2 DEF TypeOK
  <2>2. Registered'
    BY <1>0, <1>1, <1>7, LoaderAssumption DEF Prepared, TypeInv, Registered
  <2>3. Fresh' /\ Errors' /\ NothingLeft'
    BY <1>0, <1>7 DEF Prepared, TypeInv, Fresh, NothingLeft, Errors
  <2>4. Told'
    BY <1>0, <1>1, <1>7 DEF Prepared, TypeInv, Told
  <2>5. Matched'
    BY <1>0, <1>1, <1>2, <1>7 DEF Prepared, TypeInv, Matched
  <2>6. Fetched'
    BY <1>3, <1>7 DEF Prepared, TypeInv, Fetched
  <2> QED
    BY <2>1, <2>2, <2>3, <2>4, <2>5, <2>6 DEF TypeInv
<1> QED
  BY <1>0, <1>5, <1>6, <1>7, CheckEnds

\* What enable looks at and enters in the registry.
DepsAtEnable(n) == IF n \in inited THEN Deps(n) ELSE {}
WaitsAtEnable(n) == DepsAtEnable(n) \ (defined \cup matched[n])
GotAtEnable(n) == matched[n] \cup (DepsAtEnable(n) \cap defined)
CallsAtEnable(n) == (enables \ {n}) \cup (WaitsAtEnable(n) \ (enabled \cup {n}))

LEMMA EnableVisits ==
  ASSUME TypeInv, NEW n \in Nodes, Enable(n)
  PROVE  /\ Visit(n, GotAtEnable(n), registry \cup WaitsAtEnable(n), emits, CallsAtEnable(n))
         /\ Prepared(n, GotAtEnable(n), registry \cup WaitsAtEnable(n), emits, CallsAtEnable(n))
         /\ given' = given
<1>1. /\ UNCHANGED <<program, inited, error, factory, definitions, ticks, timer, given, wronged>>
      /\ Visit(n, GotAtEnable(n), registry \cup WaitsAtEnable(n), emits, CallsAtEnable(n))
      /\ n \in enables
  BY DEF Enable, Visit, GotAtEnable, WaitsAtEnable, CallsAtEnable, DepsAtEnable
<1>2. Deps(n) \subseteq Modules
  BY DepsType DEF TypeInv
<1>3. n \in registry /\ task # Idle
  BY <1>1 DEF TypeInv, TypeOK, NothingLeft, Quiet
<1>4. /\ matched[n] \subseteq GotAtEnable(n) /\ GotAtEnable(n) \subseteq Deps(n)
      /\ n \notin inited => GotAtEnable(n) = {}
      /\ \A d \in GotAtEnable(n) : d \in defined \/ <<n, d>> \in given'
  BY <1>1 DEF TypeInv, Matched, GotAtEnable, DepsAtEnable
<1>5. WaitsAtEnable(n) \subseteq Modules \ defined
  BY <1>2 DEF WaitsAtEnable, DepsAtEnable
<1>6. CallsAtEnable(n) \cap enabled = {} /\ n \notin CallsAtEnable(n)
  BY <1>1 DEF CallsAtEnable, TypeInv, Fresh
<1>7. enables \ {n} \subseteq CallsAtEnable(n)
      /\ CallsAtEnable(n) \subseteq registry \cup WaitsAtEnable(n)
  BY DEF CallsAtEnable, TypeInv, TypeOK
<1>8. given' \subseteq Nodes \X Modules
  BY <1>1 DEF TypeInv, TypeOK
<1> QED
  BY <1>1, <1>3, <1>4, <1>5, <1>6, <1>7, <1>8 DEF Prepared

LEMMA EmitVisits ==
  ASSUME TypeInv, NEW d \in Nodes, NEW n \in Nodes, Emit(d, n)
  PROVE  /\ Visit(n, matched[n] \cup {d}, registry, emits \ {<<d, n>>}, enables)
         /\ Prepared(n, matched[n] \cup {d}, registry, emits \ {<<d, n>>}, enables)
         /\ given' = given
         /\ n \in enabled \cap inited /\ enables \cap enabled = {}
<1>1. /\ <<d, n>> \in emits
      /\ UNCHANGED <<program, enabled, inited, error, factory, definitions, ticks, timer, given,
                     wronged>>
      /\ matched' = [matched EXCEPT ![n] = @ \cup {d}]
      /\ Check(n, matched[n] \cup {d}, registry, emits \ {<<d, n>>}, enables)
  BY DEF Emit
<1>2. d \in defined /\ n \in enabled \cap inited /\ d \in Deps(n)
  BY <1>1 DEF TypeInv, Told
<1>3. enables \cap enabled = {}
  BY <1>1 DEF TypeInv, Fresh
<1>4. [matched EXCEPT ![n] = @ \cup {d}] = [matched EXCEPT ![n] = matched[n] \cup {d}]
  BY DEF TypeInv, TypeOK
<1>5. enabled' = enabled \cup {n}
  BY <1>1, <1>2
<1>6. task # Idle /\ enables \subseteq registry /\ given' \subseteq Nodes \X Modules
  BY <1>1 DEF TypeInv, TypeOK, NothingLeft, Quiet
<1>7. /\ matched[n] \cup {d} \subseteq Deps(n)
      /\ \A x \in matched[n] \cup {d} : x \in defined \/ <<n, x>> \in given'
  BY <1>1, <1>2 DEF TypeInv, Matched
<1>8. Visit(n, matched[n] \cup {d}, registry, emits \ {<<d, n>>}, enables)
  BY <1>1, <1>4, <1>5 DEF Visit
<1>9. \A e \in emits : e \in emits \ {<<d, n>>} \/ (e[2] = n /\ e[1] \in matched[n] \cup {d})
  OBVIOUS
<1>10. n \notin enables
  BY <1>2, <1>3
<1> QED
  BY <1>1, <1>2, <1>3, <1>6, <1>7, <1>8, <1>9, <1>10 DEF Prepared

\* Who waits for whom is about modules that the scripts tell.
LEMMA WaitsType ==
  ASSUME TypeInv
  PROVE  /\ Waits \subseteq Nodes \X Modules
         /\ \A e \in Waits : e[2] \in Modules
         /\ \A e \in Waits : /\ e[1] \in inited \cap enabled \cap (registry \ error)
                             /\ e[2] \in registry \ error
                             /\ e[2] \in Deps(e[1]) \ matched[e[1]]
<1>1. \A n \in Nodes : Deps(n) \subseteq Modules
  BY DepsType DEF TypeInv
<1> QED
  BY <1>1 DEF Waits, TypeInv, TypeOK

\* What is given up for a cycle was made by its own factory, and waits in turn.
LEMMA ClosingMade ==
  ASSUME TypeInv, NEW e \in Closing
  PROVE  e \in Waits /\ e[1] \in Modules /\ e[2] \in inited
<1>1. e \in Waits /\ e[1] \in Reached(e[2], Waits)
  BY DEF Closing
<1>2. \E f \in Waits : f[1] = e[2]
  BY <1>1, WaitsType, ReachedStart
<1>3. e[1] \in Modules
  BY <1>1 DEF Reached
<1> QED
  BY <1>1, <1>2, <1>3, WaitsType

LEMMA BreakVisits ==
  ASSUME TypeInv, BreakCycle
  PROVE  \E e \in Closing :
           /\ given' = given \cup {e}
           /\ e = <<e[1], e[2]>> /\ e[1] \in Modules /\ e[2] \in Modules /\ e[2] \in inited
           /\ e[1] \in inited \cap enabled /\ enables = {} /\ emits = {} /\ task.at = "break"
           /\ Visit(e[1], matched[e[1]] \cup {e[2]}, registry, emits, enables)
           /\ Prepared(e[1], matched[e[1]] \cup {e[2]}, registry, emits, enables)
<1>1. PICK e \in Closing :
        /\ given' = given \cup {e}
        /\ matched' = [matched EXCEPT ![e[1]] = @ \cup {e[2]}]
        /\ Check(e[1], matched[e[1]] \cup {e[2]}, registry, emits, enables)
  BY DEF BreakCycle
<1>2. /\ UNCHANGED <<program, enabled, inited, error, factory, definitions, ticks, timer, wronged>>
      /\ enables = {} /\ emits = {} /\ task.at = "break" /\ task # Idle
  BY DEF BreakCycle, Quiet, Idle
<1>3. /\ e \in Waits /\ e[1] \in Modules /\ e[2] \in Modules /\ e[2] \in inited
      /\ e \in Nodes \X Modules /\ e = <<e[1], e[2]>>
      /\ e[1] \in inited \cap enabled \cap registry /\ e[2] \in Deps(e[1])
  BY ClosingMade, WaitsType
<1>4. e[1] \in Nodes
  BY <1>3 DEF Nodes
<1>5. [matched EXCEPT ![e[1]] = @ \cup {e[2]}]
        = [matched EXCEPT ![e[1]] = matched[e[1]] \cup {e[2]}]
  BY <1>4 DEF TypeInv, TypeOK
<1>6. enabled' = enabled \cup {e[1]}
  BY <1>2, <1>3
<1>7. Visit(e[1], matched[e[1]] \cup {e[2]}, registry, emits, enables)
  BY <1>1, <1>2, <1>5, <1>6 DEF Visit
<1>8. /\ matched[e[1]] \cup {e[2]} \subseteq Deps(e[1])
      /\ \A x \in matched[e[1]] \cup {e[2]} : x \in defined \/ <<e[1], x>> \in given'
  BY <1>1, <1>3, <1>4 DEF TypeInv, Matched
<1>9. given \subseteq given' /\ given' \subseteq Nodes \X Modules
  BY <1>1, <1>3 DEF TypeInv, TypeOK
<1>10. Prepared(e[1], matched[e[1]] \cup {e[2]}, registry, emits, enables)
  BY <1>2, <1>3, <1>4, <1>8, <1>9 DEF Prepared
<1> QED
  BY <1>1, <1>2, <1>3, <1>7, <1>10

-----------------------------------------------------------------------------
\* The definitions that are taken from the queue.

Make(m, for) ==
  /\ CallGetModule(m, for)
  /\ UNCHANGED <<program, enabled, defined, defining, error, matched, network, ticks, timer,
                 checking, emits, history, throws>>

LEMMA QueueParts ==
  ASSUME TypeOK, queue # <<>>
  PROVE  /\ Head(queue) \in Items /\ Tail(queue) \in Seq(Items)
         /\ Head(queue).for \in Modules
         /\ Head(queue).name # Anonymous => Head(queue).name \in Modules
<1>1. Head(queue) \in Items /\ Tail(queue) \in Seq(Items)
  BY DEF TypeOK
<1> QED
  BY <1>1 DEF Items

\* What taking a definition changes.
LEMMA MakeEffect ==
  ASSUME TypeInv, NEW m \in Modules, NEW for \in Modules \cup {NoFactory}, CallGetModule(m, for)
  PROVE  \/ /\ m \in inited /\ UNCHANGED <<registry, inited, factory, enables>>
         \/ /\ m \notin inited /\ m \notin defined
            /\ registry' = registry \cup {m} /\ inited' = inited \cup {m}
            /\ factory' \in [Modules -> Modules \cup {NoFactory}] /\ factory'[m] = for
            /\ \A x \in Modules \ {m} : factory'[x] = factory[x]
            /\ enables' = enables \cup ({m} \cap enabled)
<1>1. CASE m \in defined \cup inited
  BY <1>1 DEF CallGetModule, TypeInv, Registered
<1>2. CASE m \notin defined \cup inited
  BY <1>2 DEF CallGetModule, TypeInv, TypeOK
<1> QED
  BY <1>1, <1>2

LEMMA MakeTyped ==
  ASSUME TypeInv, NEW m \in Modules, NEW for \in Modules \cup {NoFactory}, Make(m, for), Quiet,
         queue' \in Seq(Items), queued' \in SUBSET Modules, task' \in Tasks, task' # Idle
  PROVE  TypeInv'
<1>1. /\ UNCHANGED <<program, enabled, defined, defining, error, matched, script, expired, ticks,
                     timer, checking, emits, early, given, reported, wronged, aborted, throws>>
      /\ CallGetModule(m, for) /\ enables = {} /\ emits = {}
  BY DEF Make, network, history, Quiet
<1>2. Modules \subseteq Nodes /\ Modules \cap Calls = {}
  BY LoaderAssumption DEF Nodes
<1>3. /\ registry' \in SUBSET Nodes /\ inited' \in SUBSET Nodes /\ registry \subseteq registry'
      /\ factory' \in [Modules -> Modules \cup {NoFactory}]
      /\ enables' \in SUBSET registry' /\ enables' \subseteq {m}
  BY <1>1, <1>2, MakeEffect DEF TypeInv, TypeOK
<1>4. TypeOK'
  <2>1. /\ program' \in Programs /\ enabled' \in SUBSET Nodes /\ defined' \in SUBSET Nodes
        /\ defining' \in SUBSET Nodes /\ error' \in SUBSET Nodes
        /\ matched' \in [Nodes -> SUBSET Modules]
        /\ script' \in [Modules -> {"none", "loading", "arrived", "failed"}]
        /\ ticks' \in SUBSET Calls
        /\ timer' \in BOOLEAN /\ expired' \in BOOLEAN /\ checking' \in BOOLEAN
        /\ emits' \in SUBSET (Nodes \X Nodes)
        /\ early' \in SUBSET (Nodes \X Modules) /\ given' \in SUBSET (Nodes \X Modules)
        /\ reported' \in SUBSET Nodes /\ wronged' \in SUBSET Modules
        /\ aborted' \in BOOLEAN /\ throws' \in 0 .. MaxThrows
    BY <1>1 DEF TypeInv, TypeOK
  <2> QED
    BY <1>3, <2>1 DEF TypeOK
<1>5. Registered'
  BY <1>1, <1>2, MakeEffect DEF TypeInv, Registered
<1>6. Errors' /\ Fresh' /\ Told' /\ NothingLeft'
  BY <1>1, <1>3 DEF TypeInv, Errors, Fresh, Told, NothingLeft
<1>7. Matched'
  <2>1. ASSUME NEW n \in Nodes, n # m \/ m \in inited PROVE Deps(n)' = Deps(n)
    BY <1>1, <2>1, MakeEffect DEF Deps, Nodes
  <2>2. ASSUME NEW n \in Nodes, n = m, m \notin inited PROVE matched[n] = {}
    BY <2>2 DEF TypeInv, Matched
  <2>3. inited \subseteq inited'
    BY <1>1, MakeEffect
  <2> QED
    BY <1>1, <2>1, <2>2, <2>3 DEF TypeInv, Matched
<1>8. Fetched'
  BY <1>1, <1>3 DEF TypeInv, Fetched
<1> QED
  BY <1>4, <1>5, <1>6, <1>7, <1>8 DEF TypeInv

LEMMA TakeDefineMakes ==
  ASSUME TypeInv, TakeDefine
  PROVE  LET item == Head(queue)
             name == IF item.name = Anonymous THEN task.of ELSE item.name
         IN /\ name \in Modules /\ item.for \in Modules /\ Make(name, item.for) /\ Quiet
            /\ queue' = Tail(queue) /\ queued' = queued /\ task.of \in Modules
            /\ task.found \in BOOLEAN
            /\ task' = [at |-> "complete", of |-> task.of, found |-> task.found \/ name = task.of]
            /\ task' \in Tasks
<1> DEFINE item == Head(queue)
           name == IF item.name = Anonymous THEN task.of ELSE item.name
<1>1. /\ task.at = "complete" /\ Quiet /\ queue # <<>> /\ CallGetModule(name, item.for)
      /\ task' = [task EXCEPT !.found = @ \/ name = task.of]
      /\ queue' = Tail(queue)
      /\ UNCHANGED <<program, enabled, defined, defining, error, matched, network, queued, ticks,
                     timer, checking, emits, history, throws>>
  BY DEF TakeDefine, MoreToTake
<1>2. task.of \in Modules /\ task.found \in BOOLEAN
  BY <1>1, TaskType DEF TypeInv, TypeOK
<1>3. name \in Modules /\ item.for \in Modules
  BY <1>1, <1>2, QueueParts DEF TypeInv
<1> HIDE DEF item, name
<1>4. task \in [at : {"complete"}, of : Modules, found : BOOLEAN]
  BY <1>1 DEF TypeInv, TypeOK, Tasks
<1>5. task' = [at |-> "complete", of |-> task.of, found |-> task.found \/ name = task.of]
  BY <1>1, <1>4
<1>6. task' \in Tasks
  BY <1>2, <1>5 DEF Tasks
<1>7. Make(name, item.for) /\ queued' = queued
  BY <1>1 DEF Make
<1> QED
  BY <1>1, <1>2, <1>3, <1>5, <1>6, <1>7 DEF item, name

LEMMA IntakeDefineMakes ==
  ASSUME TypeInv, IntakeDefine
  PROVE  /\ Head(queue).name \in Modules /\ Head(queue).for \in Modules
         /\ Make(Head(queue).name, Head(queue).for) /\ Quiet
         /\ queue' = Tail(queue) /\ queued' = queued /\ task' = task
         /\ task.at \in {"issue", "tick"} /\ queue # <<>>
<1>1. /\ task.at \in {"issue", "tick"} /\ Quiet /\ queue # <<>> /\ Head(queue).name # Anonymous
      /\ CallGetModule(Head(queue).name, Head(queue).for)
      /\ UNCHANGED <<program, enabled, defined, defining, error, matched, network, queued, ticks,
                     timer, checking, task, emits, history, throws>>
      /\ queue' = Tail(queue)
  BY DEF IntakeDefine
<1> QED
  BY <1>1, QueueParts DEF Make, TypeInv

LEMMA CompleteMakes ==
  ASSUME TypeInv, Complete
  PROVE  /\ task.at = "complete" /\ task.of \in Modules /\ task.found \in BOOLEAN /\ Quiet
         /\ ~MoreToTake
         /\ queue' = (IF queue = <<>> THEN queue ELSE Tail(queue)) /\ queued' = {}
         /\ task' = [at |-> "check"]
         /\ IF ~task.found /\ task.of \in registry
            THEN Make(task.of, NoFactory)
            ELSE UNCHANGED <<program, node, network, ticks, timer, checking, pending, history,
                             throws>>
<1>1. task.of \in Modules /\ task.found \in BOOLEAN
  BY TaskType DEF Complete, TypeInv, TypeOK
<1> QED
  BY <1>1 DEF Complete, Make, node, pending

LEMMA ProgramType ==
  ASSUME program \in Programs, NEW m \in Modules
  PROVE  /\ program.deps \in [Nodes -> SUBSET Modules]
         /\ program.defines[m] \in Seq(Items) /\ NamesIn(m) \subseteq Modules
         /\ program.issues[m] \subseteq Calls /\ MainCalls \subseteq Calls
<1>1. /\ program.deps \in [Nodes -> SUBSET Modules]
      /\ program.defines \in [Modules -> Seq(Items)]
      /\ program.issues \in [Modules -> SUBSET Calls] /\ program.main \in SUBSET Calls
  BY LoaderAssumption
<1>2. program.defines[m] \in Seq(Items)
  BY <1>1
<1>3. \A i \in DOMAIN program.defines[m] : program.defines[m][i].name \in Modules \cup {Anonymous}
  <2>1. \A i \in DOMAIN program.defines[m] : program.defines[m][i] \in Items
    BY <1>2
  <2> QED
    BY <2>1 DEF Items
<1> QED
  BY <1>1, <1>2, <1>3 DEF NamesIn, MainCalls

\* What leaves the modules alone.
LEMMA NodesUntouched ==
  ASSUME TypeInv, UNCHANGED <<program, node, pending, early, given, reported, wronged, throws>>,
         script' \in [Modules -> {"none", "loading", "arrived", "failed"}],
         \A m \in Modules : script'[m] # "none" => script[m] # "none",
         expired' \in BOOLEAN, queue' \in Seq(Items), queued' \in SUBSET Modules,
         ticks' \in SUBSET Calls, timer' \in BOOLEAN, checking' \in BOOLEAN,
         task' \in Tasks, Quiet \/ task' # Idle, aborted' \in BOOLEAN, aborted => aborted'
  PROVE  TypeInv'
<1>1. /\ UNCHANGED <<program, registry, enabled, inited, defined, defining, error, matched, factory,
                     enables, emits, early, given, reported, wronged, throws>>
      /\ \A n : Deps(n)' = Deps(n)
  BY DEF node, pending, Deps
<1>2. TypeOK'
  BY <1>1 DEF TypeInv, TypeOK
<1> QED
  BY <1>1, <1>2 DEF TypeInv, Registered, Errors, Fresh, Told, NothingLeft, Quiet, Matched, Fetched

LEMMA ArriveTyped ==
  ASSUME TypeInv, NEW m \in Modules, Arrive(m)
  PROVE  TypeInv'
<1>1. program.defines[m] \in Seq(Items) /\ NamesIn(m) \subseteq Modules
  BY ProgramType DEF TypeInv, TypeOK
<1>2. queue' \in Seq(Items) /\ queued' \in SUBSET Modules
  BY <1>1 DEF Arrive, TypeInv, TypeOK
<1>3. /\ script' \in [Modules -> {"none", "loading", "arrived", "failed"}]
      /\ \A l \in Modules : script'[l] # "none" => script[l] # "none"
  BY DEF Arrive, TypeInv, TypeOK
<1>4. task' \in Tasks /\ Quiet
  BY TasksBuilt DEF Arrive, TypeInv, NothingLeft
<1>5. /\ expired' \in BOOLEAN /\ ticks' \in SUBSET Calls /\ timer' \in BOOLEAN
      /\ checking' \in BOOLEAN /\ aborted' \in BOOLEAN /\ (aborted => aborted')
  BY DEF Arrive, TypeInv, TypeOK, history
<1>6. UNCHANGED <<program, node, pending, early, given, reported, wronged, throws>>
  BY DEF Arrive, history
<1> QED
  BY <1>2, <1>3, <1>4, <1>5, <1>6, NodesUntouched

LEMMA MismatchEffect ==
  ASSUME TypeInv, Mismatch
  PROVE  /\ task' \in Tasks /\ queue' \in Seq(Items) /\ aborted' = TRUE /\ queue # <<>>
         /\ task.at \in {"issue", "tick"} /\ Quiet
         /\ UNCHANGED <<program, node, network, queued, ticks, timer, checking, pending, early,
                        given, reported, wronged, throws>>
<1>1. task.at = "issue" => task.of \in Modules
  BY TaskType DEF TypeInv, TypeOK
<1>2. task' \in Tasks
  BY <1>1, TasksBuilt DEF Mismatch
<1>3. queue' \in Seq(Items)
  BY QueueParts DEF Mismatch, TypeInv
<1> QED
  BY <1>2, <1>3 DEF Mismatch

LEMMA MismatchTyped ==
  ASSUME TypeInv, Mismatch
  PROVE  TypeInv'
  BY MismatchEffect, NodesUntouched DEF TypeInv, TypeOK, network

LEMMA RequireTyped ==
  ASSUME TypeInv, Require
  PROVE  TypeInv'
<1>1. task.of \in Modules
  BY TaskType DEF Require, TypeInv, TypeOK
<1>2. ticks' \in SUBSET Calls
  BY <1>1, ProgramType DEF Require, TypeInv, TypeOK
<1>3. task' \in Tasks
  BY <1>1, TasksBuilt DEF Require
<1> QED
  BY <1>2, <1>3, NodesUntouched DEF Require, TypeInv, TypeOK, network, history

LEMMA TickTyped ==
  ASSUME TypeInv, NEW c \in Calls, Tick(c)
  PROVE  TypeInv'
<1>1. task' \in Tasks /\ Quiet
  BY TasksBuilt DEF Tick, TypeInv, NothingLeft
<1> QED
  BY <1>1, NodesUntouched DEF Tick, TypeInv, TypeOK, network, history, definitions

LEMMA InitCallTyped ==
  ASSUME TypeInv, InitCall
  PROVE  TypeInv'
<1>1. task.of \in Calls /\ task.of \in Nodes
  BY TaskType DEF InitCall, TypeInv, TypeOK, Nodes
<1>2. /\ UNCHANGED <<program, enabled, defined, defining, error, matched, factory, script, expired,
                     queue, ticks, timer, checking, emits, early, given, reported, wronged,
                     aborted, throws>>
      /\ queued' = {} /\ emits = {} /\ enables' = {task.of} /\ task' = [at |-> "check"]
      /\ registry' = registry \cup {task.of} /\ inited' = inited \cup {task.of}
      /\ \A n : Deps(n)' = Deps(n)
  BY DEF InitCall, network, history, Quiet, Deps
<1>3. task' \in Tasks /\ task' # Idle
  BY <1>2, TasksBuilt DEF Idle
<1>4. TypeOK'
  BY <1>1, <1>2, <1>3 DEF TypeInv, TypeOK
<1>5. Registered'
  BY <1>1, <1>2, LoaderAssumption DEF TypeInv, Registered
<1> QED
  BY <1>2, <1>3, <1>4, <1>5
     DEF TypeInv, Errors, Fresh, Told, NothingLeft, Matched, Fetched

LEMMA NoCycleTyped ==
  ASSUME TypeInv, NoCycle
  PROVE  TypeInv'
  BY NodesUntouched, TasksBuilt DEF NoCycle, TypeInv, TypeOK, network, history, definitions

LEMMA TimerTyped ==
  ASSUME TypeInv, TimerFires
  PROVE  TypeInv'
<1>1. Quiet
  BY DEF TimerFires, TypeInv, NothingLeft
<1> QED
  BY <1>1, NodesUntouched, TasksBuilt
     DEF TimerFires, TypeInv, TypeOK, network, history, definitions

LEMMA TimeTyped ==
  ASSUME TypeInv, TimePasses
  PROVE  TypeInv'
<1>1. Quiet \/ task' # Idle
  BY DEF TimePasses, TypeInv, NothingLeft
<1> QED
  BY <1>1, NodesUntouched DEF TimePasses, TypeInv, TypeOK, history, definitions

\* What is waited for: enabled, but not made, and without an error.
Waiting == (registry \cap enabled) \ (error \cup inited)

LEMMA WaitingModules ==
  ASSUME TypeInv
  PROVE  Waiting \subseteq Modules
  BY DEF Waiting, TypeInv, TypeOK, Registered, Nodes

LEMMA CheckLoadedTyped ==
  ASSUME TypeInv, CheckLoaded
  PROVE  TypeInv'
<1>1. /\ error' = error \/ error' = error \cup Waiting
      /\ reported \subseteq reported' /\ reported' \subseteq reported \cup Waiting
      /\ error' \subseteq error \cup reported'
      /\ wronged' \subseteq wronged \cup Waiting
      /\ UNCHANGED <<program, registry, enabled, inited, defined, defining, matched, factory,
                     script, expired, queue, queued, ticks, enables, emits, early, given, aborted,
                     throws>>
      /\ enables = {} /\ emits = {}
      /\ \A n : Deps(n)' = Deps(n)
  BY DEF CheckLoaded, Waiting, Quiet, network, definitions, pending, Deps
<1>2. task' \in Tasks
  BY TasksBuilt DEF CheckLoaded
<1>3. timer' \in BOOLEAN /\ checking' \in BOOLEAN
  BY DEF CheckLoaded, TypeInv, TypeOK
<1>4. Waiting \subseteq Modules /\ Modules \subseteq Nodes /\ Modules \cap Calls = {}
  BY WaitingModules, LoaderAssumption DEF Nodes
<1>5. TypeOK'
  BY <1>1, <1>2, <1>3, <1>4 DEF TypeInv, TypeOK
<1>6. Errors'
  BY <1>1, <1>4 DEF TypeInv, Errors
<1> QED
  BY <1>1, <1>5, <1>6
     DEF TypeInv, Registered, Fresh, Told, NothingLeft, Quiet, Matched, Fetched

LEMMA ScriptErrorTyped ==
  ASSUME TypeInv, NEW m \in Modules, ScriptError(m)
  PROVE  TypeInv'
<1>1. /\ error' = error \cup ({m} \cap registry) /\ reported' = reported \cup {m}
      /\ script[m] = "loading" /\ script' = [script EXCEPT ![m] = "failed"]
      /\ UNCHANGED <<program, registry, enabled, inited, defined, defining, matched, factory,
                     expired, queue, queued, ticks, timer, checking, task, enables, emits, early,
                     given, wronged, aborted, throws>>
      /\ \A n : Deps(n)' = Deps(n)
  BY DEF ScriptError, definitions, pending, Deps
<1>2. /\ script' \in [Modules -> {"none", "loading", "arrived", "failed"}]
      /\ \A l \in Modules : script'[l] # "none" => script[l] # "none"
  BY <1>1 DEF TypeInv, TypeOK
<1>3. Modules \subseteq Nodes /\ Modules \cap Calls = {}
  BY LoaderAssumption DEF Nodes
<1>4. TypeOK'
  BY <1>1, <1>2, <1>3 DEF TypeInv, TypeOK
<1>5. Errors'
  BY <1>1, <1>3 DEF TypeInv, Errors
<1> QED
  BY <1>1, <1>2, <1>4, <1>5
     DEF TypeInv, Registered, Fresh, Told, NothingLeft, Quiet, Matched, Fetched

LEMMA StutterTyped ==
  ASSUME TypeInv, UNCHANGED vars
  PROVE  TypeInv'
  BY NodesUntouched
     DEF vars, network, definitions, history, TypeInv, TypeOK, NothingLeft

LEMMA StepTyped == TypeInv /\ [Next]_vars => TypeInv'
<1> SUFFICES ASSUME TypeInv, [Next]_vars PROVE TypeInv'
  OBVIOUS
<1>1. ASSUME NEW n \in Nodes, Enable(n) PROVE TypeInv'
  BY <1>1, EnableVisits, VisitTyped
<1>2. ASSUME NEW d \in Nodes, NEW n \in Nodes, Emit(d, n) PROVE TypeInv'
  BY <1>2, EmitVisits, VisitTyped
<1>3. CASE TakeDefine
  <2>1. Tail(queue) \in Seq(Items)
    BY <1>3, QueueParts DEF TakeDefine, MoreToTake, TypeInv
  <2>2. task' # Idle
    BY <1>3, TakeDefineMakes DEF Idle
  <2>3. queued \in SUBSET Modules
    BY DEF TypeInv, TypeOK
  <2> QED
    BY <1>3, <2>1, <2>2, <2>3, TakeDefineMakes, MakeTyped
<1>4. CASE Complete
  <2>1. task' \in Tasks /\ task' # Idle /\ queued' \in SUBSET Modules
    BY <1>4, CompleteMakes, TasksBuilt DEF Idle
  <2>2. queue' \in Seq(Items)
    BY <1>4, CompleteMakes, QueueParts DEF TypeInv, TypeOK
  <2>3. CASE ~task.found /\ task.of \in registry
    BY <1>4, <2>1, <2>2, <2>3, CompleteMakes, MakeTyped
  <2>4. CASE ~(~task.found /\ task.of \in registry)
    BY <1>4, <2>1, <2>2, <2>4, CompleteMakes, NodesUntouched
       DEF TypeInv, TypeOK, network, history
  <2> QED
    BY <2>3, <2>4
<1>5. CASE IntakeDefine
  <2>1. Tail(queue) \in Seq(Items) /\ task # Idle /\ queued \in SUBSET Modules /\ task \in Tasks
    BY <1>5, IntakeDefineMakes, QueueParts DEF TypeInv, TypeOK, Idle
  <2> QED
    BY <1>5, <2>1, IntakeDefineMakes, MakeTyped
<1>6. CASE BreakCycle
  BY <1>6, BreakVisits, VisitTyped
<1>7. ASSUME Work PROVE TypeInv'
  BY <1>1, <1>2, <1>3, <1>4, <1>5, <1>6, <1>7, MismatchTyped, RequireTyped, InitCallTyped,
     CheckLoadedTyped, NoCycleTyped DEF Work
<1> QED
  BY <1>7, ArriveTyped, ScriptErrorTyped, TickTyped, TimerTyped, TimeTyped, StutterTyped DEF Next

LEMMA AlwaysTyped == Spec => []TypeInv
  BY InitTyped, StepTyped, PTL DEF Spec

\* The types are right, in every program: a task that has ended leaves no call
\* behind, and enable is called only for what is still in the registry.
THEOREM TypeCorrect == Spec => []TypeOK
<1>1. TypeInv => TypeOK
  BY DEF TypeInv
<1> QED
  BY <1>1, AlwaysTyped, PTL

-----------------------------------------------------------------------------
\* Whose factory a module has.

NameIn(m, i) ==
  LET item == program.defines[m][i] IN IF item.name = Anonymous THEN m ELSE item.name

\* How many of the defines of script m have been taken from the queue.
Taken(m) == Len(program.defines[m]) - Len(queue)

\* While a script is completed the queue is what is left of its defines, the
\* others have been made, and found tells whether the script's own is one of
\* them.  At all other times the queue is empty.
Taking ==
  IF task.at = "complete"
  THEN LET m == task.of
       IN /\ Taken(m) \in Nat
          /\ \A i \in 1 .. Len(queue) : queue[i] = program.defines[m][Taken(m) + i]
          /\ queued = NamesIn(m)
          /\ \A i \in 1 .. Taken(m) : NameIn(m, i) \in inited
          /\ task.found <=> \E i \in 1 .. Taken(m) : program.defines[m][i].for = m
  ELSE queue = <<>> /\ queued = {}

IssuesAlone == task.at = "issue" => program.issues[task.of] # {}

Own(m) ==
  \/ factory[m] = m
  \/ factory[m] = NoFactory /\ \A i \in DOMAIN program.defines[m] : program.defines[m][i].for # m

MakesInv == aborted \/ (Taking /\ IssuesAlone /\ \A m \in inited \cap Modules : Own(m))

LEMMA ProgramDefines ==
  ASSUME program \in Programs, NEW m \in Modules
  PROVE  LET D == program.defines[m]
         IN /\ D \in Seq(Items)
            /\ program.issues[m] # {} => D = <<>>
            /\ \A i \in DOMAIN D : /\ D[i].for = NameIn(m, i) /\ NameIn(m, i) \in Modules
                                   /\ D[i].for \in Modules
            /\ \A i, j \in DOMAIN D : D[i].for = m /\ D[j].for = m => i = j
<1> DEFINE D == program.defines[m]
<1>1. D \in Seq(Items)
  BY ProgramType
<1>2. \A i \in DOMAIN D : D[i].for = IF D[i].name = Anonymous THEN m ELSE D[i].name
  BY LoaderAssumption
<1>3. program.issues[m] # {} => D = <<>>
  BY LoaderAssumption
<1>4. \A i, j \in DOMAIN D : D[i].for = m /\ D[j].for = m => i = j
  BY LoaderAssumption
<1>5. \A i \in DOMAIN D : D[i].for \in Modules
  <2>1. \A i \in DOMAIN D : D[i] \in Items
    BY <1>1
  <2> QED
    BY <2>1 DEF Items
<1> QED
  BY <1>1, <1>2, <1>3, <1>4, <1>5 DEF NameIn

\* A define without a name that is still in the queue is the only one that the
\* script has for its own module: it is never the second.
LEMMA TakenInOrder ==
  ASSUME TypeInv, Taking, task.at = "complete", queue # <<>>
  PROVE  LET m == task.of
             k == Taken(m) + 1
         IN /\ m \in Modules /\ k \in DOMAIN program.defines[m] /\ k \in Nat
            /\ Head(queue) = program.defines[m][k]
            /\ program.defines[m][k].for = m => ~task.found
            /\ MoreToTake
<1> DEFINE m == task.of
           D == program.defines[m]
           k == Taken(m) + 1
<1>1. m \in Modules /\ task.found \in BOOLEAN
  BY TaskType DEF TypeInv, TypeOK
<1>2. D \in Seq(Items) /\ \A i, j \in DOMAIN D : D[i].for = m /\ D[j].for = m => i = j
  BY <1>1, ProgramDefines DEF TypeInv, TypeOK
<1>3. queue \in Seq(Items) /\ Len(queue) \in Nat \ {0} /\ Len(D) \in Nat
  BY <1>2 DEF TypeInv, TypeOK
<1>4. Taken(m) \in Nat /\ Taken(m) = Len(D) - Len(queue)
  BY DEF Taking, Taken
<1>5. k \in 1 .. Len(D) /\ k \in DOMAIN D /\ k \in Nat
  BY <1>2, <1>3, <1>4
<1>6. Head(queue) = D[k]
  <2>1. Head(queue) = queue[1] /\ 1 \in 1 .. Len(queue)
    BY <1>3
  <2> QED
    BY <2>1 DEF Taking
<1>7. D[k].for = m => ~task.found
  <2> SUFFICES ASSUME D[k].for = m, task.found PROVE FALSE
    OBVIOUS
  <2>1. PICK i \in 1 .. Taken(m) : D[i].for = m
    BY DEF Taking
  <2>2. i \in DOMAIN D /\ i # k
    BY <1>2, <1>3, <1>4, <1>5
  <2> QED
    BY <1>2, <1>5, <2>1, <2>2
<1>8. D[k].name = Anonymous => D[k].for = m
  BY <1>1, <1>5, ProgramDefines DEF TypeInv, TypeOK, NameIn
<1> QED
  BY <1>1, <1>5, <1>6, <1>7, <1>8 DEF MoreToTake

LEMMA VisitFrame ==
  ASSUME NEW n, NEW got, NEW reg, NEW told, NEW calls, Visit(n, got, reg, told, calls)
  PROVE  /\ UNCHANGED <<program, inited, error, factory, queue, queued, ticks, timer, wronged>>
         /\ enabled' = enabled \cup {n}
         /\ n \in inited => UNCHANGED network
         /\ aborted' = TRUE \/ UNCHANGED <<task, checking, aborted>>
<1>1. Check(n, got, reg, told, calls)
  BY DEF Visit
<1>2. aborted' = TRUE \/ UNCHANGED <<task, checking, aborted>>
  BY <1>1 DEF Check, Run, Throw
<1>3. n \in inited => UNCHANGED network
  BY <1>1, CheckEnds
<1> QED
  BY <1>2, <1>3 DEF Visit, definitions

LEMMA InitMakes == Init => MakesInv
  BY DEF Init, MakesInv, Taking, IssuesAlone, Idle

\* What leaves queue, task and the modules alone keeps it, and so does an error.
LEMMA MakesFrame ==
  ASSUME MakesInv, UNCHANGED <<program, inited, factory, queue, queued>>,
         aborted' = TRUE \/ UNCHANGED <<task, aborted>>
  PROVE  MakesInv'
<1>1. CASE aborted' = TRUE
  BY <1>1 DEF MakesInv
<1>2. CASE UNCHANGED <<task, aborted>>
  <2>1. /\ Taking' <=> Taking
        /\ IssuesAlone' <=> IssuesAlone
        /\ \A m : Own(m)' <=> Own(m)
    BY <1>2 DEF Taking, Taken, NameIn, NamesIn, IssuesAlone, Own
  <2> QED
    BY <1>2, <2>1 DEF MakesInv
<1> QED
  BY <1>1, <1>2

\* Steps between tasks that leave the queue empty.
LEMMA MakesIdle ==
  ASSUME MakesInv, ~aborted, UNCHANGED <<program, factory>>,
         inited' \cap Modules = inited \cap Modules,
         queue' = <<>>, queued' = {}, task'.at \notin {"complete", "issue"}
  PROVE  MakesInv'
  BY DEF MakesInv, Taking, IssuesAlone, Own

LEMMA TakeDefineOwn ==
  ASSUME TypeInv, MakesInv, ~aborted, TakeDefine
  PROVE  MakesInv'
<1>0. PICK m \in Modules : m = task.of
  BY TakeDefineMakes
<1> DEFINE D == program.defines[m]
           k == Taken(m) + 1
           item == Head(queue)
           name == IF item.name = Anonymous THEN m ELSE item.name
<1>1. /\ Make(name, item.for) /\ name \in Modules /\ item.for \in Modules
      /\ queue' = Tail(queue) /\ queued' = queued
      /\ task' = [at |-> "complete", of |-> m, found |-> task.found \/ name = m]
      /\ task.found \in BOOLEAN
  BY <1>0, TakeDefineMakes
<1>2. task.at = "complete" /\ queue # <<>> /\ Taking /\ IssuesAlone
  BY DEF TakeDefine, MoreToTake, MakesInv
<1>3. m \in Modules /\ k \in DOMAIN D /\ k \in Nat /\ item = D[k]
  BY <1>0, <1>2, TakenInOrder
<1>4. name = NameIn(m, k) /\ item.for = name
  BY <1>3, ProgramDefines DEF NameIn, TypeInv, TypeOK
<1>5. UNCHANGED program
  BY <1>1 DEF Make
<1>6. inited' = inited \cup {name} /\ (\A x \in inited' \cap Modules : Own(x)')
  <2>1. UNCHANGED program
    BY <1>1 DEF Make
  <2>2. \A x \in inited \cap Modules : Own(x)
    BY DEF MakesInv
  <2>3. CallGetModule(name, item.for)
    BY <1>1 DEF Make
  <2> HIDE DEF name, item
  <2>4. CASE name \in inited /\ UNCHANGED <<registry, inited, factory, enables>>
    BY <2>1, <2>2, <2>4 DEF Own
  <2>5. CASE /\ inited' = inited \cup {name} /\ factory'[name] = item.for
             /\ \A x \in Modules \ {name} : factory'[x] = factory[x]
    BY <1>4, <2>1, <2>2, <2>5 DEF Own
  <2> QED
    BY <1>1, <2>3, <2>4, <2>5, MakeEffect
<1>7. /\ queue \in Seq(Items) /\ D \in Seq(Items) /\ Len(queue) \in Nat \ {0}
      /\ Taken(m) \in Nat /\ Taken(m) = Len(D) - Len(queue)
  BY <1>0, <1>2, <1>3, ProgramDefines DEF TypeInv, TypeOK, Taking, Taken
<1>8. /\ Len(Tail(queue)) = Len(queue) - 1
      /\ \A i \in 1 .. Len(Tail(queue)) : Tail(queue)[i] = queue[i + 1] /\ i + 1 \in 1 .. Len(queue)
  BY <1>7
<1>9. Taken(m)' = k /\ task'.at = "complete" /\ task'.of = m
      /\ task'.found = (task.found \/ name = m)
  <2>1. Taken(m)' = Len(D) - Len(Tail(queue))
    BY <1>1, <1>5 DEF Taken
  <2> QED
    BY <1>1, <1>7, <1>8, <2>1
<1>10. \A i \in 1 .. Len(queue') : queue'[i] = D[k + i]
  <2>1. \A i \in 1 .. Len(queue) : queue[i] = D[Taken(m) + i]
    BY <1>0, <1>2 DEF Taking
  <2>2. ASSUME NEW i \in 1 .. Len(Tail(queue))
        PROVE  Tail(queue)[i] = D[k + i]
    <3>1. Tail(queue)[i] = queue[i + 1] /\ i + 1 \in 1 .. Len(queue)
      BY <1>8
    <3>2. Taken(m) + (i + 1) = k + i
      <4>1. i \in Int
        OBVIOUS
      <4>2. \A t, x \in Int : t + (x + 1) = (t + 1) + x
        OBVIOUS
      <4>3. Taken(m) \in Int
        BY <1>7
      <4> QED
        BY <4>1, <4>2, <4>3
    <3>3. queue[i + 1] = D[Taken(m) + (i + 1)]
      BY <2>1, <3>1
    <3> HIDE DEF k, D
    <3> QED
      BY <3>1, <3>2, <3>3
  <2> QED
    BY <1>1, <2>2
<1>11. \A i \in 1 .. k : i \in 1 .. Taken(m) \/ i = k
  BY <1>7
<1>12. \A i \in 1 .. k : NameIn(m, i) \in inited'
  BY <1>0, <1>2, <1>4, <1>6, <1>11 DEF Taking
<1>13. task'.found <=> \E i \in 1 .. k : D[i].for = m
  <2>1. task.found <=> \E i \in 1 .. Taken(m) : D[i].for = m
    BY <1>0, <1>2 DEF Taking
  <2>2. D[k].for = name /\ k \in 1 .. k /\ 1 .. Taken(m) \subseteq 1 .. k
    BY <1>3, <1>4, <1>7
  <2> HIDE DEF name, k
  <2> QED
    BY <1>9, <1>11, <2>1, <2>2
<1>14. Taking'
  <2>1. queued' = NamesIn(m)'
    BY <1>0, <1>1, <1>2, <1>5 DEF Taking, NamesIn
  <2>2. \A i : NameIn(m, i)' = NameIn(m, i)
    BY <1>5 DEF NameIn
  <2> HIDE DEF k, name, item
  <2> QED
    BY <1>3, <1>5, <1>9, <1>10, <1>12, <1>13, <2>1, <2>2 DEF Taking
<1>15. IssuesAlone'
  BY <1>9 DEF IssuesAlone
<1> QED
  BY <1>6, <1>14, <1>15 DEF MakesInv

\* When nothing is left in the queue all defines of the script have been made.
LEMMA CompleteOwn ==
  ASSUME TypeInv, MakesInv, ~aborted, Complete
  PROVE  /\ MakesInv' /\ UNCHANGED <<aborted, enabled, script, defined>>
         /\ task.of \in Modules /\ queue = <<>>
         /\ \A x \in NamesIn(task.of) : x \in inited
         /\ task.of \in inited' \/ task.of \notin registry \cup defined
<1>0. /\ task.at = "complete" /\ task.found \in BOOLEAN /\ ~MoreToTake /\ Taking
      /\ queued' = {} /\ task' = [at |-> "check"]
      /\ UNCHANGED <<program, aborted, enabled, script, defined>>
      /\ queue' = IF queue = <<>> THEN queue ELSE Tail(queue)
      /\ IF ~task.found /\ task.of \in registry
         THEN Make(task.of, NoFactory)
         ELSE UNCHANGED <<registry, inited, factory>>
  BY CompleteMakes DEF MakesInv, Make, node, history, network
<1>1. PICK m \in Modules : m = task.of
  BY CompleteMakes
<1> DEFINE D == program.defines[m]
<1>2. queue = <<>> /\ queue' = <<>>
  BY <1>0, TakenInOrder
<1>3. D \in Seq(Items) /\ Len(D) \in Nat /\ DOMAIN D = 1 .. Len(D)
  BY ProgramDefines DEF TypeInv, TypeOK
<1>4. Taken(m) = Len(D)
  BY <1>2, <1>3 DEF Taken
<1>5. \A i \in DOMAIN D : NameIn(m, i) \in inited
  BY <1>0, <1>1, <1>3, <1>4 DEF Taking
<1>6. task.found <=> \E i \in DOMAIN D : D[i].for = m
  BY <1>0, <1>1, <1>3, <1>4 DEF Taking
<1>7. \A x \in NamesIn(m) : x \in inited
  BY <1>5 DEF NamesIn, NameIn
<1>8. task.found => m \in inited
  BY <1>5, <1>6, ProgramDefines DEF TypeInv, TypeOK
<1> HIDE DEF D
<1>9. CASE ~task.found /\ m \in registry
  <2>1. CallGetModule(m, NoFactory)
    BY <1>0, <1>1, <1>9 DEF Make
  <2>2. \A x \in inited \cap Modules : Own(x)
    BY DEF MakesInv
  <2>3. m \in inited' /\ (\A x \in inited' \cap Modules : Own(x)')
    <3>1. CASE m \in inited /\ UNCHANGED <<registry, inited, factory, enables>>
      BY <1>0, <2>2, <3>1 DEF Own
    <3>2. CASE /\ inited' = inited \cup {m} /\ factory'[m] = NoFactory
               /\ \A x \in Modules \ {m} : factory'[x] = factory[x]
      <4>1. Own(m)'
        BY <1>0, <1>6, <1>9, <3>2 DEF Own, D
      <4> QED
        BY <1>0, <2>2, <3>2, <4>1 DEF Own
    <3> QED
      BY <2>1, <3>1, <3>2, MakeEffect
  <2> QED
    BY <1>0, <1>1, <1>2, <1>7, <2>3 DEF MakesInv, Taking, IssuesAlone
<1>10. CASE ~(~task.found /\ m \in registry)
  <2>1. UNCHANGED <<registry, inited, factory>>
    BY <1>0, <1>1, <1>10
  <2>2. m \in inited \/ m \notin registry \cup defined
    BY <1>0, <1>8, <1>10 DEF TypeInv, Registered
  <2>3. MakesInv'
    BY <1>0, <1>2, <2>1, MakesIdle
  <2> QED
    BY <1>0, <1>1, <1>2, <1>7, <2>1, <2>2, <2>3
<1> QED
  BY <1>9, <1>10

\* An arrived script's defines are the queue.
LEMMA ArriveOwn ==
  ASSUME TypeInv, MakesInv, ~aborted, NEW m \in Modules, Arrive(m)
  PROVE  MakesInv'
<1>1. /\ queue = <<>> /\ queued = {} /\ task = Idle
      /\ queue' = queue \o program.defines[m] /\ queued' = queued \cup NamesIn(m)
      /\ task' = IF program.issues[m] # {} THEN [at |-> "issue", of |-> m]
                 ELSE [at |-> "complete", of |-> m, found |-> FALSE]
      /\ UNCHANGED <<program, inited, factory, aborted>>
  BY DEF Arrive, MakesInv, Taking, Idle, node, history
<1>2. /\ program.defines[m] \in Seq(Items) /\ Len(program.defines[m]) \in Nat
      /\ program.issues[m] # {} => program.defines[m] = <<>>
  BY ProgramDefines DEF TypeInv, TypeOK
<1>3. queue' = program.defines[m] /\ queued' = NamesIn(m)
  BY <1>1, <1>2
<1>4. Taken(m)' = 0
  BY <1>1, <1>2, <1>3 DEF Taken
<1>5. Taking'
  <2>1. CASE program.issues[m] # {}
    <3>1. NamesIn(m) = {}
      BY <1>2, <2>1 DEF NamesIn
    <3> QED
      BY <1>1, <1>2, <1>3, <2>1, <3>1 DEF Taking
  <2>2. CASE program.issues[m] = {}
    <3>1. task'.at = "complete" /\ task'.of = m /\ task'.found = FALSE
      BY <1>1, <2>2
    <3>2. NamesIn(m)' = NamesIn(m)
      BY <1>1 DEF NamesIn
    <3>3. \A i \in 1 .. Len(queue') : queue'[i] = program.defines[m][0 + i]
      BY <1>2, <1>3
    <3> QED
      BY <1>1, <1>3, <1>4, <3>1, <3>2, <3>3 DEF Taking
  <2> QED
    BY <2>1, <2>2
<1>6. IssuesAlone'
  BY <1>1 DEF IssuesAlone
<1> QED
  BY <1>1, <1>5, <1>6 DEF MakesInv, Own

LEMMA RequireOwn ==
  ASSUME TypeInv, MakesInv, ~aborted, Require
  PROVE  MakesInv'
<1>1. PICK m \in Modules : m = task.of
  BY TaskType DEF Require, TypeInv, TypeOK
<1>2. /\ program.issues[m] # {} /\ queue = <<>> /\ queue' = <<>> /\ queued' = {}
      /\ task'.at = "complete" /\ task'.of = m /\ task'.found = FALSE
      /\ UNCHANGED <<program, inited, factory, aborted>>
  BY <1>1 DEF Require, MakesInv, IssuesAlone, node, history
<1>3. program.defines[m] = <<>>
  BY <1>2, ProgramDefines DEF TypeInv, TypeOK
<1>4. Taken(m)' = 0 /\ NamesIn(m)' = {}
  BY <1>2, <1>3 DEF Taken, NamesIn
<1>5. Taking'
  BY <1>2, <1>3, <1>4 DEF Taking
<1> QED
  BY <1>2, <1>5 DEF MakesInv, IssuesAlone, Own

LEMMA StaysAborted == aborted /\ [Next]_vars => aborted' = TRUE \/ UNCHANGED aborted
  BY DEF Next, Work, vars, Enable, Emit, BreakCycle, Check, Run, Throw, TakeDefine, Complete,
     IntakeDefine, Mismatch, Require, InitCall, CheckLoaded, NoCycle, Arrive, ScriptError, Tick,
     TimerFires, TimePasses, history

LEMMA StepMakes == TypeInv /\ MakesInv /\ [Next]_vars => MakesInv'
<1> SUFFICES ASSUME TypeInv, MakesInv, [Next]_vars, ~aborted PROVE MakesInv'
  BY StaysAborted DEF MakesInv
<1>0. /\ Taking /\ IssuesAlone
      /\ task.at # "complete" => queue = <<>> /\ queued = {}
  BY DEF MakesInv, Taking
<1>1. ASSUME NEW n \in Nodes, Enable(n) PROVE MakesInv'
  BY <1>1, EnableVisits, VisitFrame, MakesFrame
<1>2. ASSUME NEW d \in Nodes, NEW n \in Nodes, Emit(d, n) PROVE MakesInv'
  BY <1>2, EmitVisits, VisitFrame, MakesFrame
<1>3. CASE BreakCycle
  BY <1>3, BreakVisits, VisitFrame, MakesFrame
<1>4. ~IntakeDefine
  BY <1>0 DEF IntakeDefine
<1>5. ~Mismatch
  BY <1>0 DEF Mismatch
<1>6. CASE InitCall
  <2>1. task.of \in Calls /\ Calls \cap Modules = {}
    BY <1>6, TaskType, LoaderAssumption DEF InitCall, TypeInv, TypeOK
  <2>2. /\ UNCHANGED <<program, factory>> /\ inited' \cap Modules = inited \cap Modules
        /\ queue' = <<>> /\ queued' = {} /\ task'.at \notin {"complete", "issue"}
    BY <1>6, <2>1 DEF InitCall
  <2> QED
    BY <2>2, MakesIdle
<1>7. ASSUME CheckLoaded \/ NoCycle \/ TimerFires \/ \E c \in Calls : Tick(c) PROVE MakesInv'
  <2>1. /\ UNCHANGED <<program, factory, inited, queue, queued>>
        /\ task.at # "complete" /\ task'.at \notin {"complete", "issue"}
    BY <1>7 DEF CheckLoaded, NoCycle, TimerFires, Tick, definitions, node, Idle
  <2> QED
    BY <1>0, <2>1, MakesIdle
<1>8. ASSUME \/ \E m \in Modules : ScriptError(m)
             \/ TimePasses \/ UNCHANGED vars
      PROVE  MakesInv'
  <2>1. UNCHANGED <<program, factory, inited, queue, queued, task, aborted>>
    BY <1>8 DEF ScriptError, TimePasses, vars, definitions, node, history
  <2> QED
    BY <2>1, MakesFrame
<1>9. CASE Work
  BY <1>1, <1>2, <1>3, <1>4, <1>5, <1>6, <1>7, <1>9, TakeDefineOwn, CompleteOwn, RequireOwn DEF Work
<1> QED
  BY <1>7, <1>8, <1>9, ArriveOwn DEF Next

LEMMA AlwaysMakes == Spec => []MakesInv
  BY InitMakes, AlwaysTyped, StepMakes, PTL DEF Spec

\* In every program, and whatever the order in which scripts arrive, a module
\* is made by the factory that was written for it, until an error leaves
\* defines in the queue.
THEOREM FactoriesMatch == Spec => []OwnFactory
<1>1. MakesInv => OwnFactory
  BY DEF MakesInv, OwnFactory, Own
<1> QED
  BY <1>1, AlwaysMakes, PTL

-----------------------------------------------------------------------------
\* Who runs before what it depends on.

\* What is given up has been made and depends in turn on who gives it up.
OrderInv ==
  /\ early \subseteq given
  /\ \A e \in given : e[2] \in inited /\ (aborted \/ e[1] \in Needs(e[2]))

\* As long as the factories are right, what waits is what the scripts say.
LEMMA WaitsNeeded ==
  ASSUME TypeInv, MakesInv, ~aborted
  PROVE  Waits \subseteq {e \in Nodes \X Modules : e[2] \in program.deps[e[1]]}
<1> SUFFICES ASSUME NEW e \in Waits PROVE e[2] \in program.deps[e[1]]
  BY WaitsType
<1>1. e[1] \in inited /\ e[1] \in Nodes /\ e[2] \in Deps(e[1])
  BY WaitsType
<1>2. CASE e[1] \in Calls
  BY <1>1, <1>2 DEF Deps
<1>3. CASE e[1] \in Modules \ Calls
  BY <1>1, <1>3 DEF Deps, MakesInv, Own
<1> QED
  BY <1>1, <1>2, <1>3 DEF Nodes

LEMMA OrderFrame ==
  ASSUME OrderInv, UNCHANGED <<program, early, given>>, inited \subseteq inited',
         aborted => aborted'
  PROVE  OrderInv'
  BY DEF OrderInv, Needs

LEMMA VisitOrder ==
  ASSUME TypeInv, OrderInv, NEW n, NEW got, NEW reg, NEW told, NEW calls,
         Visit(n, got, reg, told, calls), Prepared(n, got, reg, told, calls),
         \A e \in given' : e[2] \in inited /\ (aborted \/ e[1] \in Needs(e[2]))
  PROVE  OrderInv'
<1>1. UNCHANGED <<program, inited>> /\ (aborted => aborted' = TRUE \/ UNCHANGED aborted)
  BY VisitFrame
<1>2. \A m : Needs(m)' = Needs(m)
  BY <1>1 DEF Needs
<1>3. early' \subseteq given'
  <2>1. early \subseteq given'
    BY DEF OrderInv, Prepared
  <2>2. CASE UNCHANGED early
    BY <2>1, <2>2
  <2>3. CASE got = Deps(n) /\ Run(n, reg, told)
    <3>1. \A d \in Deps(n) \ defined : <<n, d>> \in given'
      BY <2>3 DEF Prepared
    <3> QED
      BY <2>1, <2>3, <3>1 DEF Run
  <2> QED
    BY <2>2, <2>3, CheckEnds DEF Visit, Throw
<1> QED
  BY <1>1, <1>2, <1>3 DEF OrderInv

LEMMA StepOrder == TypeInv /\ MakesInv /\ OrderInv /\ [Next]_vars => OrderInv'
<1> SUFFICES ASSUME TypeInv, MakesInv, OrderInv, [Next]_vars PROVE OrderInv'
  OBVIOUS
<1>0. aborted => aborted'
  BY StaysAborted
<1>1. ASSUME NEW n \in Nodes, Enable(n) PROVE OrderInv'
  BY <1>1, EnableVisits, VisitOrder DEF OrderInv
<1>2. ASSUME NEW d \in Nodes, NEW n \in Nodes, Emit(d, n) PROVE OrderInv'
  BY <1>2, EmitVisits, VisitOrder DEF OrderInv
<1>3. CASE BreakCycle
  <2>1. PICK e \in Closing :
          /\ given' = given \cup {e} /\ e[2] \in inited
          /\ Visit(e[1], matched[e[1]] \cup {e[2]}, registry, emits, enables)
          /\ Prepared(e[1], matched[e[1]] \cup {e[2]}, registry, emits, enables)
    BY <1>3, BreakVisits
  <2>2. aborted \/ e[1] \in Needs(e[2])
    <3> SUFFICES ASSUME ~aborted PROVE e[1] \in Needs(e[2])
      OBVIOUS
    <3>1. e[1] \in Reached(e[2], Waits)
      BY DEF Closing
    <3> QED
      BY <3>1, WaitsNeeded, ReachedMore DEF Needs
  <2> QED
    BY <2>1, <2>2, VisitOrder DEF OrderInv
<1>4. ASSUME \/ Mismatch \/ Require \/ CheckLoaded \/ NoCycle \/ TimerFires \/ TimePasses
             \/ UNCHANGED vars
             \/ \E m \in Modules : Arrive(m) \/ ScriptError(m)
             \/ \E c \in Calls : Tick(c)
      PROVE  OrderInv'
  <2>1. UNCHANGED <<program, early, given, inited>>
    BY <1>4 DEF Mismatch, Require, CheckLoaded, NoCycle, TimerFires, TimePasses, vars, Arrive,
       ScriptError, Tick, node, history
  <2> QED
    BY <1>0, <2>1, OrderFrame
<1>5. CASE InitCall
  BY <1>0, <1>5, OrderFrame DEF InitCall, history
<1>6. CASE TakeDefine
  <2>1. UNCHANGED <<program, early, given>>
    BY <1>6 DEF TakeDefine, history
  <2>2. inited \subseteq inited'
    BY <1>6 DEF TakeDefine, CallGetModule
  <2> QED
    BY <1>0, <2>1, <2>2, OrderFrame
<1>7. CASE IntakeDefine
  <2>1. UNCHANGED <<program, early, given>> /\ inited \subseteq inited'
    BY <1>7 DEF IntakeDefine, CallGetModule, history
  <2> QED
    BY <1>0, <2>1, OrderFrame
<1>8. CASE Complete
  <2>1. UNCHANGED <<program, early, given>> /\ inited \subseteq inited'
    BY <1>8 DEF Complete, CallGetModule, history
  <2> QED
    BY <1>0, <2>1, OrderFrame
<1> QED
  BY <1>1, <1>2, <1>3, <1>4, <1>5, <1>6, <1>7, <1>8 DEF Next, Work

\* In every program a factory runs before that of a module that it depends on
\* only if that has been given its own factory, and the two need each other:
\* never because a script is late.
THEOREM DependenciesFirst == Spec => []InOrder
<1>1. Init => OrderInv
  BY DEF Init, OrderInv
<1>2. OrderInv => InOrder
  BY DEF OrderInv, InOrder
<1> QED
  BY <1>1, <1>2, AlwaysTyped, AlwaysMakes, StepOrder, PTL DEF Spec

-----------------------------------------------------------------------------
\* Who is reported as timed out.

\* A script that has arrived has made its module, unless it is being executed.
ArrivedMade ==
  /\ \A m \in Modules : script[m] = "arrived" =>
       m \in inited \/ (task.at \in {"issue", "complete"} /\ task.of = m)
  /\ task.at \in {"issue", "complete"} => script[task.of] = "arrived"

TimeInv == aborted \/ (wronged = {} /\ ArrivedMade)

LEMMA TimeFrame ==
  ASSUME TimeInv, UNCHANGED wronged, inited \subseteq inited',
         \A m \in Modules : script'[m] = "arrived" <=> script[m] = "arrived",
         task.at \in {"issue", "complete"} => task.of \in Modules,
         \/ aborted' = TRUE
         \/ UNCHANGED <<task, aborted>>
         \/ /\ task.at \notin {"issue", "complete"} /\ task'.at \notin {"issue", "complete"}
            /\ UNCHANGED aborted
  PROVE  TimeInv'
  BY DEF TimeInv, ArrivedMade

LEMMA StepTime == TypeInv /\ MakesInv /\ TimeInv /\ [Next]_vars => TimeInv'
<1> SUFFICES ASSUME TypeInv, MakesInv, TimeInv, [Next]_vars, ~aborted PROVE TimeInv'
  BY StaysAborted DEF TimeInv
<1>0. /\ Taking /\ IssuesAlone /\ wronged = {} /\ ArrivedMade
      /\ task.at # "complete" => queue = <<>> /\ queued = {}
      /\ task.at \in {"issue", "complete"} => task.of \in Modules
      /\ script \in [Modules -> {"none", "loading", "arrived", "failed"}]
  BY TaskType DEF MakesInv, Taking, TimeInv, TypeInv, TypeOK
<1>1. ASSUME NEW n, NEW got, NEW reg, NEW told, NEW calls,
             Visit(n, got, reg, told, calls), Prepared(n, got, reg, told, calls)
      PROVE  TimeInv'
  <2>1. \A m \in Modules : script'[m] = "arrived" <=> script[m] = "arrived"
    BY <1>1, FetchedOnce DEF Visit, Prepared
  <2> QED
    BY <1>0, <1>1, <2>1, VisitFrame, TimeFrame
<1>2. ASSUME NEW n \in Nodes, Enable(n) PROVE TimeInv'
  BY <1>1, <1>2, EnableVisits
<1>3. ASSUME NEW d \in Nodes, NEW n \in Nodes, Emit(d, n) PROVE TimeInv'
  BY <1>1, <1>3, EmitVisits
<1>4. CASE BreakCycle
  BY <1>1, <1>4, BreakVisits
<1>5. ~IntakeDefine /\ ~Mismatch
  BY <1>0 DEF IntakeDefine, Mismatch
<1>6. CASE TakeDefine
  <2>1. UNCHANGED <<script, wronged, aborted>> /\ inited \subseteq inited'
    BY <1>6 DEF TakeDefine, CallGetModule, network, history
  <2>2. task.at = "complete" /\ task'.at = "complete" /\ task'.of = task.of
    BY <1>6, TakeDefineMakes DEF TakeDefine
  <2> QED
    BY <1>0, <2>1, <2>2 DEF TimeInv, ArrivedMade
<1>7. CASE Complete
  <2>1. /\ UNCHANGED <<script, wronged, aborted>> /\ inited \subseteq inited'
        /\ task'.at = "check"
    BY <1>7 DEF Complete, CallGetModule, network, history
  <2>2. task.of \in inited' \/ task.of \notin registry \cup defined
    BY <1>7, CompleteOwn
  <2> QED
    BY <1>0, <2>1, <2>2 DEF TimeInv, ArrivedMade, TypeInv, Fetched
<1>8. CASE Require
  <2>1. /\ UNCHANGED <<script, wronged, aborted, inited>> /\ task.at = "issue"
        /\ task'.at = "complete" /\ task'.of = task.of
    BY <1>8 DEF Require, node, network, history
  <2> QED
    BY <1>0, <2>1 DEF TimeInv, ArrivedMade
<1>9. ASSUME NEW m \in Modules, Arrive(m) PROVE TimeInv'
  <2>1. /\ UNCHANGED <<wronged, aborted, inited>> /\ task = Idle
        /\ script' = [script EXCEPT ![m] = "arrived"]
        /\ task'.at \in {"issue", "complete"} /\ task'.of = m
    BY <1>9 DEF Arrive, node, history
  <2> QED
    BY <1>0, <2>1 DEF TimeInv, ArrivedMade, Idle
<1>10. CASE CheckLoaded
  <2>1. /\ UNCHANGED <<script, aborted, inited>> /\ task.at = "check"
        /\ task'.at \in {"idle", "break"}
        /\ wronged' \subseteq wronged \cup {m \in Waiting : script[m] = "arrived"}
    BY <1>10 DEF CheckLoaded, Waiting, network, Idle
  <2>2. ~\E m \in Waiting : script[m] = "arrived"
    BY <1>0, <2>1, WaitingModules DEF ArrivedMade, Waiting
  <2> QED
    BY <1>0, <2>1, <2>2 DEF TimeInv, ArrivedMade
<1>11. ASSUME InitCall \/ NoCycle \/ TimerFires \/ \E c \in Calls : Tick(c) PROVE TimeInv'
  <2>1. /\ UNCHANGED <<script, wronged, aborted>> /\ inited \subseteq inited'
        /\ task.at \notin {"issue", "complete"} /\ task'.at \notin {"issue", "complete"}
    BY <1>11 DEF InitCall, NoCycle, TimerFires, Tick, Idle, node, network, history
  <2> QED
    BY <1>0, <2>1, TimeFrame
<1>12. ASSUME NEW m \in Modules, ScriptError(m) PROVE TimeInv'
  <2>1. /\ UNCHANGED <<wronged, aborted, inited, task>>
        /\ script[m] = "loading" /\ script' = [script EXCEPT ![m] = "failed"]
    BY <1>12 DEF ScriptError
  <2> QED
    BY <1>0, <2>1, TimeFrame
<1>13. CASE TimePasses \/ UNCHANGED vars
  <2>1. UNCHANGED <<script, wronged, aborted, inited, task>>
    BY <1>13 DEF TimePasses, vars, node, network, history
  <2> QED
    BY <1>0, <2>1, TimeFrame
<1> QED
  BY <1>2, <1>3, <1>4, <1>5, <1>6, <1>7, <1>8, <1>9, <1>10, <1>11, <1>12, <1>13 DEF Next, Work

LEMMA AlwaysTimely == Spec => []TimeInv
<1>1. Init => TimeInv
  BY DEF Init, TimeInv, ArrivedMade, Idle
<1> QED
  BY <1>1, AlwaysTyped, AlwaysMakes, StepTime, PTL DEF Spec

\* No module is reported as timed out whose script has arrived, however late
\* checkLoaded looks and in whatever order scripts and ticks come.
THEOREM ReportedInTime == Spec => []TimeoutsAreReal
<1>1. TimeInv => TimeoutsAreReal
  BY DEF TimeInv, TimeoutsAreReal
<1> QED
  BY <1>1, AlwaysTimely, PTL

-----------------------------------------------------------------------------
\* Each call is made once.

TickOf == IF task.at = "tick" THEN {task.of} ELSE {}

\* Where a call that is on its way or has been made comes from.
Issued(c) ==
  \/ c \in MainCalls
  \/ \E m \in Modules : /\ script[m] = "arrived" /\ c \in program.issues[m]
                        /\ ~(task.at = "issue" /\ task.of = m)

CallsMadeOnce ==
  /\ \A c \in Calls : c \in ticks \cup inited \cup TickOf => Issued(c)
  /\ ticks \cap inited = {} /\ ticks \cap TickOf = {} /\ TickOf \cap inited = {}

\* What waits in the registry has not run, and calls are enabled at once.
RegistryWaits ==
  registry \cap Calls \subseteq enabled \cup enables /\ registry \cap defined = {}

CallsInv == aborted \/ (CallsMadeOnce /\ RegistryWaits)

LEMMA CallsFrame ==
  ASSUME CallsMadeOnce, UNCHANGED <<program, ticks, task>>,
         inited' \cap Calls = inited \cap Calls, ticks \subseteq Calls,
         task.at = "tick" => task.of \in Calls,
         \A m \in Modules : script[m] = "arrived" => script'[m] = "arrived"
  PROVE  CallsMadeOnce'
<1>1. \A c : Issued(c) => Issued(c)'
  BY DEF Issued, MainCalls
<1>2. TickOf' = TickOf /\ TickOf \subseteq Calls
  BY DEF TickOf
<1> QED
  BY <1>1, <1>2 DEF CallsMadeOnce

LEMMA StepCalls == TypeInv /\ MakesInv /\ TimeInv /\ CallsInv /\ [Next]_vars => CallsInv'
<1> SUFFICES ASSUME TypeInv, MakesInv, TimeInv, CallsInv, [Next]_vars, ~aborted PROVE CallsInv'
  BY StaysAborted DEF CallsInv
<1>0. /\ Taking /\ IssuesAlone /\ ArrivedMade /\ CallsMadeOnce /\ RegistryWaits
      /\ task.at # "complete" => queue = <<>> /\ queued = {}
      /\ task.at \in {"issue", "complete"} => task.of \in Modules
      /\ task.at = "tick" => task.of \in Calls
      /\ script \in [Modules -> {"none", "loading", "arrived", "failed"}]
      /\ ticks \subseteq Calls /\ inited \subseteq Nodes /\ Modules \cap Calls = {}
      /\ defined \subseteq inited
  BY TaskType, LoaderAssumption
     DEF MakesInv, Taking, TimeInv, CallsInv, TypeInv, TypeOK, Registered
<1>1. ASSUME NEW n, NEW got, NEW reg, NEW told, NEW calls,
             Visit(n, got, reg, told, calls), Prepared(n, got, reg, told, calls)
      PROVE  CallsInv'
  <2>1. \A m \in Modules : script[m] = "arrived" => script'[m] = "arrived"
    BY <1>1, FetchedOnce DEF Visit, Prepared
  <2>2. CASE aborted' = TRUE
    BY <2>2 DEF CallsInv
  <2>3. CASE aborted' # TRUE
    <3>1. UNCHANGED <<program, ticks, task, inited>> /\ enabled' = enabled \cup {n}
      BY <1>1, <2>3, VisitFrame
    <3>2. CallsMadeOnce'
      BY <1>0, <2>1, <3>1, CallsFrame
    <3>3. RegistryWaits'
      <4>1. CASE Run(n, reg, told) /\ enables' = calls
        BY <1>0, <1>1, <3>1, <4>1 DEF RegistryWaits, Run, Prepared
      <4>2. CASE registry' = reg /\ enables' = calls /\ UNCHANGED defined
        BY <1>0, <1>1, <3>1, <4>2 DEF RegistryWaits, Prepared
      <4> QED
        BY <1>1, <2>3, <4>1, <4>2, CheckEnds DEF Visit, Throw
    <3> QED
      BY <3>2, <3>3 DEF CallsInv
  <2> QED
    BY <2>2, <2>3
<1>2. ASSUME NEW n \in Nodes, Enable(n) PROVE CallsInv'
  BY <1>1, <1>2, EnableVisits
<1>3. ASSUME NEW d \in Nodes, NEW n \in Nodes, Emit(d, n) PROVE CallsInv'
  BY <1>1, <1>3, EmitVisits
<1>4. CASE BreakCycle
  BY <1>1, <1>4, BreakVisits
<1>5. ~IntakeDefine /\ ~Mismatch
  BY <1>0 DEF IntakeDefine, Mismatch
\* Taking a definition is about a module, and so is the end of a script.
<1>6. ASSUME NEW m \in Modules, NEW for \in Modules \cup {NoFactory}, CallGetModule(m, for)
      PROVE  /\ inited' \cap Calls = inited \cap Calls
             /\ UNCHANGED <<enabled, defined>> => RegistryWaits'
  BY <1>0, <1>6, MakeEffect DEF RegistryWaits
<1>7. ASSUME NEW m, m = task.of, task.at = "complete", UNCHANGED <<program, script, ticks>>,
             inited' \cap Calls = inited \cap Calls, task'.at \in {"complete", "check"}
      PROVE  CallsMadeOnce'
  <2>1. TickOf = {} /\ TickOf' = {}
    BY <1>7 DEF TickOf
  <2>2. \A c : Issued(c) => Issued(c)'
    BY <1>7 DEF Issued, MainCalls
  <2> QED
    BY <1>0, <1>7, <2>1, <2>2 DEF CallsMadeOnce
<1>8. CASE TakeDefine
  <2>1. /\ UNCHANGED <<program, script, ticks, enabled, defined>> /\ task.at = "complete"
        /\ task'.at = "complete"
        /\ \E m \in Modules, for \in Modules : CallGetModule(m, for)
    BY <1>8, TakeDefineMakes DEF TakeDefine, Make, network
  <2> QED
    BY <1>6, <1>7, <2>1 DEF CallsInv
<1>9. CASE Complete
  <2>1. /\ UNCHANGED <<program, script, ticks, enabled, defined>> /\ task.at = "complete"
        /\ task.of \in Modules /\ task'.at = "check"
        /\ CallGetModule(task.of, NoFactory) \/ UNCHANGED <<registry, inited, enables>>
    BY <1>0, <1>9 DEF Complete, network
  <2>2. inited' \cap Calls = inited \cap Calls /\ RegistryWaits'
    BY <1>0, <1>6, <2>1 DEF RegistryWaits
  <2> QED
    BY <1>7, <2>1, <2>2 DEF CallsInv
<1>10. CASE Require
  <2>1. PICK m \in Modules : m = task.of
    BY <1>0, <1>10 DEF Require
  <2>2. /\ UNCHANGED <<program, script, registry, enabled, enables, inited, defined>>
        /\ task.at = "issue" /\ task'.at = "complete" /\ task'.of = m
        /\ ticks' = ticks \cup program.issues[m] /\ script[m] = "arrived"
    BY <1>0, <1>10, <2>1 DEF Require, node, network, pending, ArrivedMade
  <2>3. TickOf = {} /\ TickOf' = {} /\ RegistryWaits'
    BY <1>0, <2>2 DEF TickOf, RegistryWaits
  <2>4. \A c \in program.issues[m] : c \notin inited /\ c \in Calls
    <3>1. program.issues[m] \cap program.main = {}
          /\ \A l \in Modules \ {m} : program.issues[m] \cap program.issues[l] = {}
      BY LoaderAssumption DEF TypeInv, TypeOK
    <3>2. program.issues[m] \subseteq Calls
      BY ProgramType DEF TypeInv, TypeOK
    <3>3. \A c \in program.issues[m] : ~Issued(c)
      BY <2>1, <2>2, <3>1 DEF Issued, MainCalls
    <3> QED
      BY <1>0, <3>2, <3>3 DEF CallsMadeOnce
  <2>5. \A c : Issued(c) \/ c \in program.issues[m] => Issued(c)'
    BY <2>2 DEF Issued, MainCalls
  <2>6. CallsMadeOnce'
    BY <1>0, <2>2, <2>3, <2>4, <2>5 DEF CallsMadeOnce
  <2> QED
    BY <2>3, <2>6 DEF CallsInv
<1>11. ASSUME NEW m \in Modules, Arrive(m) PROVE CallsInv'
  <2>1. /\ UNCHANGED <<program, registry, enabled, enables, inited, defined, ticks>> /\ task = Idle
        /\ script[m] = "loading" /\ script' = [script EXCEPT ![m] = "arrived"]
        /\ task'.at \in {"issue", "complete"} /\ task'.of = m
    BY <1>11 DEF Arrive, node, pending
  <2>2. TickOf = {} /\ TickOf' = {} /\ RegistryWaits'
    BY <1>0, <2>1 DEF TickOf, RegistryWaits, Idle
  <2>3. \A c : Issued(c) => Issued(c)'
    BY <1>0, <2>1 DEF Issued, MainCalls
  <2> QED
    BY <1>0, <2>1, <2>2, <2>3 DEF CallsInv, CallsMadeOnce
<1>12. ASSUME NEW c \in Calls, Tick(c) PROVE CallsInv'
  <2>1. /\ UNCHANGED <<program, script, registry, enabled, enables, inited, defined>> /\ task = Idle
        /\ c \in ticks /\ ticks' = ticks \ {c}
        /\ task'.at = "tick" /\ task'.of = c
    BY <1>12 DEF Tick, node, network, pending
  <2>2. TickOf = {} /\ TickOf' = {c} /\ RegistryWaits'
    BY <1>0, <2>1 DEF TickOf, RegistryWaits, Idle
  <2>3. \A x : Issued(x) => Issued(x)'
    BY <1>0, <2>1 DEF Issued, MainCalls
  <2> QED
    BY <1>0, <2>1, <2>2, <2>3 DEF CallsInv, CallsMadeOnce
<1>13. CASE InitCall
  <2>1. PICK c \in Calls : c = task.of
    BY <1>0, <1>13 DEF InitCall
  <2>2. /\ UNCHANGED <<program, script, ticks, enabled, defined>>
        /\ enables = {} /\ enables' = {c} /\ task.at = "tick" /\ task'.at = "check"
        /\ registry' = registry \cup {c} /\ inited' = inited \cup {c}
    BY <1>13, <2>1 DEF InitCall, network, Quiet
  <2>3. TickOf = {c} /\ TickOf' = {}
    BY <2>1, <2>2 DEF TickOf
  <2>4. RegistryWaits'
    BY <1>0, <2>2, <2>3 DEF RegistryWaits, CallsMadeOnce
  <2>5. \A x : Issued(x) => Issued(x)'
    BY <2>2 DEF Issued, MainCalls
  <2> QED
    BY <1>0, <2>2, <2>3, <2>4, <2>5 DEF CallsInv, CallsMadeOnce
<1>14. ASSUME CheckLoaded \/ NoCycle \/ TimerFires PROVE CallsInv'
  <2>1. /\ UNCHANGED <<program, script, ticks, registry, enabled, enables, inited, defined>>
        /\ task.at \in {"check", "break", "idle"} /\ task'.at \in {"idle", "break", "check"}
    BY <1>14 DEF CheckLoaded, NoCycle, TimerFires, Idle, node, network, pending
  <2>2. TickOf = {} /\ TickOf' = {} /\ RegistryWaits'
    BY <1>0, <2>1 DEF TickOf, RegistryWaits
  <2>3. \A x : Issued(x) => Issued(x)'
    BY <2>1 DEF Issued, MainCalls
  <2> QED
    BY <1>0, <2>1, <2>2, <2>3 DEF CallsInv, CallsMadeOnce
<1>15. ASSUME TimePasses \/ UNCHANGED vars \/ \E m \in Modules : ScriptError(m) PROVE CallsInv'
  <2>1. /\ UNCHANGED <<program, task, ticks, registry, enabled, enables, inited, defined>>
        /\ \A m \in Modules : script[m] = "arrived" => script'[m] = "arrived"
    BY <1>0, <1>15 DEF TimePasses, ScriptError, vars, node, network, pending
  <2>2. RegistryWaits'
    BY <1>0, <2>1 DEF RegistryWaits
  <2> QED
    BY <1>0, <2>1, <2>2, CallsFrame DEF CallsInv
<1> QED
  BY <1>2, <1>3, <1>4, <1>5, <1>8, <1>9, <1>10, <1>11, <1>12, <1>13, <1>14, <1>15 DEF Next, Work

LEMMA AlwaysCalls == Spec => []CallsInv
<1>1. Init => CallsInv
  BY LoaderAssumption
     DEF Init, CallsInv, CallsMadeOnce, RegistryWaits, TickOf, Issued, Idle
<1> QED
  BY <1>1, AlwaysTyped, AlwaysMakes, AlwaysTimely, StepCalls, PTL DEF Spec

-----------------------------------------------------------------------------
\* Whoever waits is linked to what it waits for.

\* The script of an enabled module that is not made yet was asked for, or the
\* module is among those that the script brings that is executed.
Expected == \A m \in (Modules \cap enabled) \ inited : script[m] # "none" \/ m \in queued

\* A node that does not run yet has a dependency left, and those that it has
\* left are in the registry and enabled, or about to be told to it.
LinkedTo(n, d) == (d \in registry /\ d \in enabled \cup enables) \/ <<d, n>> \in emits

Linked ==
  \A n \in (inited \cap enabled) \ (enables \cup defined \cup error) :
    /\ Deps(n) # matched[n]
    /\ \A d \in Deps(n) \ matched[n] : LinkedTo(n, d)

\* breakCycle begins when nothing is waited for that is not made; when a task
\* has ended, and no timer runs, this is so and no cycle is left.
Settled ==
  /\ task.at = "break" => Waiting = {} /\ enables = {}
  /\ task = Idle /\ ~timer /\ ~checking => Waiting = {} /\ Closing = {}

LinkInv == aborted \/ (Expected /\ Linked /\ Settled)

\* A module that is checked before it is made has its script asked for.
LEMMA CheckFetches ==
  ASSUME TypeInv, NEW n \in Modules, NEW got, NEW reg, NEW told, NEW calls,
         Check(n, got, reg, told, calls)
  PROVE  n \in inited \/ n \in queued \/ script'[n] # "none"
  BY DEF Check, Fetch, network, TypeInv, TypeOK

LEMMA VisitLinks ==
  ASSUME TypeInv, RegistryWaits, Expected, Linked, ~aborted, aborted' # TRUE,
         NEW n, NEW got, NEW reg, NEW told, NEW calls,
         Visit(n, got, reg, told, calls), Prepared(n, got, reg, told, calls),
         n \in inited \ (defined \cup error) =>
           \A d \in Deps(n) \ got :
             (d \in reg /\ d \in enabled \cup {n} \cup calls) \/ <<d, n>> \in told
  PROVE  Expected' /\ Linked'
<1>0. /\ UNCHANGED <<program, inited, error, factory, queued>>
      /\ enabled' = enabled \cup {n} /\ Check(n, got, reg, told, calls)
      /\ n \in Nodes /\ matched \in [Nodes -> SUBSET Modules]
      /\ matched' = [matched EXCEPT ![n] = got]
      /\ \A x : Deps(x)' = Deps(x)
  BY DEF Visit, Prepared, definitions, TypeInv, TypeOK, Deps
<1>1. Expected'
  <2>1. \A m \in Modules : script[m] # "none" => script'[m] # "none"
    BY <1>0, FetchedOnce DEF Prepared
  <2>2. ASSUME NEW m \in (Modules \cap enabled') \ inited
        PROVE  script'[m] # "none" \/ m \in queued
    BY <1>0, <2>1, CheckFetches DEF Expected
  <2> QED
    BY <1>0, <2>2 DEF Expected
<1>2. /\ enables' = calls /\ defined \subseteq defined'
      /\ \/ defined' = defined \cup {n} /\ registry' = reg \ {n}
            /\ emits' = told \cup {<<n, l>> : l \in Listeners(n)}
         \/ /\ n \in inited => n \in error \cup defining \cup defined \/ got # Deps(n)
            /\ registry' = reg /\ emits' = told /\ defined' = defined
  <2>1. ~Throw(n, reg)
    BY DEF Throw
  <2> QED
    BY <1>0, <2>1, CheckEnds DEF Run
<1>3. ASSUME NEW x \in (inited \cap enabled') \ (calls \cup defined' \cup error)
      PROVE  /\ Deps(x) # matched'[x]
             /\ \A d \in Deps(x) \ matched'[x] : LinkedTo(x, d)'
  <2>0. x \in Nodes
    BY DEF TypeInv, TypeOK
  <2>1. CASE x = n
    <3>1. /\ defined' = defined /\ n \notin defined \cup error
          /\ n \in error \cup defining \cup defined \/ got # Deps(n)
          /\ registry' = reg /\ emits' = told
      BY <1>2, <1>3, <2>1
    <3>2. defining = {}
      BY DEF TypeInv, Errors
    <3>3. matched'[n] = got
      BY <1>0
    <3> QED
      BY <1>0, <1>2, <1>3, <2>1, <3>1, <3>2, <3>3 DEF LinkedTo
  <2>2. CASE x # n
    <3>1. x \in (inited \cap enabled) \ (enables \cup defined \cup error)
      BY <1>0, <1>2, <1>3, <2>2 DEF Prepared
    <3>2. matched'[x] = matched[x] /\ Deps(x) # matched[x]
      BY <1>0, <2>0, <2>2, <3>1 DEF Linked
    <3>3. ASSUME NEW d \in Deps(x) \ matched[x] PROVE LinkedTo(x, d)'
      <4>1. LinkedTo(x, d)
        BY <3>1 DEF Linked
      <4>2. CASE <<d, x>> \in emits
        <5>1. <<d, x>> \in told
          BY <2>2, <4>2 DEF Prepared
        <5> QED
          BY <1>2, <5>1 DEF LinkedTo
      <4>3. CASE d \in registry /\ d \in enabled \cup enables /\ d # n
        BY <1>0, <1>2, <4>3 DEF LinkedTo, Prepared
      <4>4. CASE d \in registry /\ d \in enabled \cup enables /\ d = n
        <5>1. x \in registry
          BY <3>1 DEF TypeInv, Registered
        <5>2. x \in Listeners(n)
          BY <3>1, <3>3, <4>4, <5>1 DEF Listeners
        <5> QED
          BY <1>0, <1>2, <4>4, <5>2 DEF LinkedTo, Prepared
      <4> QED
        BY <4>1, <4>2, <4>3, <4>4 DEF LinkedTo
    <3> QED
      BY <3>2, <3>3
  <2> QED
    BY <2>1, <2>2
<1> QED
  BY <1>0, <1>1, <1>2, <1>3 DEF Linked

\* Making a module links it as soon as it is enabled.
LEMMA MakeLinks ==
  ASSUME TypeInv, RegistryWaits, Expected, Linked, ~aborted,
         NEW m \in Modules, NEW for \in Modules \cup {NoFactory}, Make(m, for), Quiet,
         \A x \in Modules : x \in queued => x \in queued' \cup inited'
  PROVE  Expected' /\ Linked'
<1>1. /\ UNCHANGED <<program, enabled, defined, error, matched, script, emits>>
      /\ CallGetModule(m, for)
  BY DEF Make, network
<1>2. inited \subseteq inited' /\ registry \subseteq registry' /\ enables \subseteq enables'
  BY <1>1, MakeEffect
<1>3. Expected'
  BY <1>1, <1>2 DEF Expected
<1>4. ASSUME NEW x \in (inited' \cap enabled) \ (enables' \cup defined \cup error)
      PROVE  /\ x \in (inited \cap enabled) \ (enables \cup defined \cup error)
             /\ Deps(x)' = Deps(x)
  <2>1. x \in inited
    BY <1>1, <1>4, MakeEffect
  <2>2. x \in Modules => factory'[x] = factory[x]
    BY <1>1, <2>1, MakeEffect
  <2>3. x \in Nodes
    BY <2>1 DEF TypeInv, TypeOK
  <2> QED
    BY <1>1, <1>2, <1>4, <2>1, <2>2, <2>3 DEF Deps, Nodes
<1>5. \A x, d : LinkedTo(x, d) => LinkedTo(x, d)'
  BY <1>1, <1>2 DEF LinkedTo
<1> QED
  BY <1>1, <1>3, <1>4, <1>5 DEF Linked

LEMMA LinksFrame ==
  ASSUME Expected, Linked, error \subseteq error',
         UNCHANGED <<program, registry, enabled, inited, defined, matched, factory, enables,
                     emits>>,
         \A m \in Modules : script[m] # "none" => script'[m] # "none",
         \A m \in Modules : m \in queued => m \in queued' \cup inited
  PROVE  Expected' /\ Linked'
<1>1. \A n, d : Deps(n)' = Deps(n) /\ (LinkedTo(n, d)' <=> LinkedTo(n, d))
  BY DEF Deps, LinkedTo
<1> QED
  BY <1>1 DEF Expected, Linked

\* With fewer nodes to wait for there are no new cycles.
LEMMA ClosingShrinks ==
  ASSUME UNCHANGED <<program, registry, inited, enabled, factory, matched>>, error \subseteq error'
  PROVE  Closing' \subseteq Closing
<1>1. Waits' \subseteq Waits
  BY DEF Waits, Deps
<1>2. \A n : Reached(n, Waits') \subseteq Reached(n, Waits)
  BY <1>1, ReachedMore
<1>3. \A n : Reached(n, Waits)' = Reached(n, Waits')
  BY DEF Reached
<1> QED
  BY <1>1, <1>2, <1>3 DEF Closing

\* What is in the way of a node that is checked is what it was before.
LEMMA EnableLinks ==
  ASSUME TypeInv, NEW n \in Nodes, Enable(n)
  PROVE  n \in inited \ (defined \cup error) =>
           \A d \in Deps(n) \ GotAtEnable(n) :
             /\ d \in registry \cup WaitsAtEnable(n)
             /\ d \in enabled \cup {n} \cup CallsAtEnable(n)
  BY DEF GotAtEnable, WaitsAtEnable, CallsAtEnable, DepsAtEnable

LEMMA StepLinks == TypeInv /\ MakesInv /\ CallsInv /\ LinkInv /\ [Next]_vars => LinkInv'
<1> SUFFICES ASSUME TypeInv, MakesInv, CallsInv, LinkInv, [Next]_vars, ~aborted, aborted' # TRUE
             PROVE  LinkInv'
  BY StaysAborted DEF LinkInv
<1>0. /\ Taking /\ IssuesAlone /\ RegistryWaits /\ CallsMadeOnce
      /\ Expected /\ Linked /\ Settled
      /\ task.at # "complete" => queue = <<>> /\ queued = {}
  BY DEF MakesInv, Taking, CallsInv, LinkInv
\* A visit, by enable or of a node that is enabled already.
<1>1. ASSUME NEW n, NEW got, NEW reg, NEW told, NEW calls,
             Visit(n, got, reg, told, calls), Prepared(n, got, reg, told, calls),
             n \in inited \ (defined \cup error) =>
               \A d \in Deps(n) \ got :
                 (d \in reg /\ d \in enabled \cup {n} \cup calls) \/ <<d, n>> \in told,
             \/ task.at # "break"
             \/ n \in enabled /\ reg = registry /\ calls = {}
      PROVE  LinkInv'
  <2>1. Expected' /\ Linked'
    BY <1>0, <1>1, VisitLinks
  <2>2. /\ UNCHANGED <<task, inited, error>> /\ enabled' = enabled \cup {n} /\ task # Idle
        /\ enables' = calls /\ registry' \subseteq reg
    <3>1. ~Throw(n, reg)
      BY DEF Throw
    <3>2. enables' = calls /\ registry' \subseteq reg
      BY <1>1, <3>1, CheckEnds DEF Visit, Run
    <3> QED
      BY <1>1, <3>2, VisitFrame DEF Prepared
  <2>3. Settled'
    BY <1>0, <1>1, <2>2 DEF Settled, Waiting
  <2> QED
    BY <2>1, <2>3 DEF LinkInv
<1>2. ASSUME NEW n \in Nodes, Enable(n) PROVE LinkInv'
  <2>1. task.at # "break"
    BY <1>0, <1>2 DEF Settled, Enable
  <2> QED
    BY <1>1, <1>2, <2>1, EnableVisits, EnableLinks
<1>3. ASSUME NEW n \in (inited \cap enabled) \ enables, n \notin defined \cup error, NEW x
      PROVE  \A d \in Deps(n) \ (matched[n] \cup {x}) :
               \/ d \in registry /\ d \in enabled \cup {n} \cup enables
               \/ <<d, n>> \in emits \ {<<x, n>>}
  BY <1>0, <1>3 DEF Linked, LinkedTo
<1>4. ASSUME NEW d \in Nodes, NEW n \in Nodes, Emit(d, n) PROVE LinkInv'
  <2>1. n \in (inited \cap enabled) \ enables /\ (task.at = "break" => enables = {})
    BY <1>0, <1>4, EmitVisits DEF Settled
  <2>2. /\ Visit(n, matched[n] \cup {d}, registry, emits \ {<<d, n>>}, enables)
        /\ Prepared(n, matched[n] \cup {d}, registry, emits \ {<<d, n>>}, enables)
    BY <1>4, EmitVisits
  <2>3. n \in inited \ (defined \cup error) =>
          \A x \in Deps(n) \ (matched[n] \cup {d}) :
             \/ x \in registry /\ x \in enabled \cup {n} \cup enables
             \/ <<x, n>> \in emits \ {<<d, n>>}
    BY <1>3, <2>1
  <2> QED
    BY <1>1, <2>1, <2>2, <2>3
<1>5. CASE BreakCycle
  <2>1. PICK e \in Closing :
          /\ e[1] \in inited \cap enabled /\ enables = {} /\ emits = {}
          /\ Visit(e[1], matched[e[1]] \cup {e[2]}, registry, emits, enables)
          /\ Prepared(e[1], matched[e[1]] \cup {e[2]}, registry, emits, enables)
    BY <1>5, BreakVisits
  <2>2. e[1] \in inited \ (defined \cup error) =>
          \A d \in Deps(e[1]) \ (matched[e[1]] \cup {e[2]}) :
             \/ d \in registry /\ d \in enabled \cup {e[1]} \cup enables
             \/ <<d, e[1]>> \in emits
    BY <1>3, <2>1
  <2> QED
    BY <1>1, <2>1, <2>2
<1>6. ~IntakeDefine /\ ~Mismatch
  BY <1>0 DEF IntakeDefine, Mismatch
<1>7. CASE TakeDefine
  <2>1. PICK m \in Modules, for \in Modules : Make(m, for) /\ Quiet
    BY <1>7, TakeDefineMakes
  <2>2. queued' = queued /\ task'.at = "complete"
    BY <1>7, TakeDefineMakes
  <2>3. Expected' /\ Linked'
    BY <1>0, <2>1, <2>2, MakeLinks
  <2> QED
    BY <2>2, <2>3 DEF LinkInv, Settled, Idle
<1>8. CASE Complete
  <2>1. /\ task'.at = "check" /\ task.of \in Modules /\ Quiet /\ queued = NamesIn(task.of)
        /\ Make(task.of, NoFactory)
           \/ UNCHANGED <<program, node, network, pending>>
    BY <1>0, <1>8, CompleteMakes DEF Taking
  <2>2. \A x \in Modules : x \in queued => x \in inited
    BY <1>8, <2>1, CompleteOwn
  <2>3. inited \subseteq inited'
    BY <1>8 DEF Complete, CallGetModule
  <2>4. CASE Make(task.of, NoFactory)
    BY <1>0, <2>1, <2>2, <2>3, <2>4, MakeLinks DEF LinkInv, Settled, Idle
  <2>5. CASE UNCHANGED <<program, node, network, pending>>
    <3>1. Expected' /\ Linked'
      BY <1>0, <2>2, <2>5, LinksFrame DEF node, network, pending
    <3> QED
      BY <2>1, <3>1 DEF LinkInv, Settled, Idle
  <2> QED
    BY <2>1, <2>4, <2>5
<1>9. CASE InitCall
  <2>1. PICK c \in Calls : c = task.of
    BY <1>9, TaskType DEF InitCall, TypeInv, TypeOK
  <2>2. /\ UNCHANGED <<program, enabled, defined, error, matched, factory, script, emits>>
        /\ enables = {} /\ enables' = {c} /\ task.at = "tick" /\ task'.at = "check"
        /\ registry' = registry \cup {c} /\ inited' = inited \cup {c}
        /\ \A n : Deps(n)' = Deps(n)
    BY <1>9, <2>1 DEF InitCall, network, Quiet, Deps
  <2>3. Expected'
    BY <1>0, <2>2 DEF Expected
  <2>4. \A x, d : LinkedTo(x, d) => LinkedTo(x, d)'
    BY <2>2 DEF LinkedTo
  <2>5. Linked'
    BY <1>0, <2>2, <2>4 DEF Linked
  <2> QED
    BY <2>2, <2>3, <2>5 DEF LinkInv, Settled, Idle
<1>10. CASE CheckLoaded
  <2>1. /\ UNCHANGED <<program, registry, enabled, inited, defined, matched, factory, script,
                       queued, enables, emits>>
        /\ error \subseteq error' /\ enables = {} /\ task.at = "check"
    BY <1>10 DEF CheckLoaded, network, definitions, pending, Quiet
  <2>2. Expected' /\ Linked'
    BY <1>0, <2>1, LinksFrame
  <2>3. task'.at = "break" => Waiting = {} /\ error' = error
    <3> SUFFICES ASSUME task'.at = "break" PROVE Waiting = {} /\ error' = error
      OBVIOUS
    <3>1. /\ ~(expired /\ Waiting # {}) /\ error' = error
          /\ ~(~expired /\ \E m \in Waiting : script[m] # "none")
      BY <1>10 DEF CheckLoaded, Waiting, Idle
    <3>2. \A m \in Waiting : script[m] # "none"
      BY <1>0, <2>1, WaitingModules DEF Expected, Waiting
    <3> QED
      BY <3>1, <3>2
  <2>4. task' = Idle => checking' \/ timer'
    BY <1>10 DEF CheckLoaded, Idle
  <2>5. Settled'
    <3>1. task'.at = "break" => Waiting' = {} /\ enables' = {}
      BY <2>1, <2>3 DEF Waiting
    <3> QED
      BY <2>4, <3>1 DEF Settled
  <2> QED
    BY <2>2, <2>5 DEF LinkInv
<1>11. CASE NoCycle
  <2>1. /\ UNCHANGED <<program, registry, enabled, inited, defined, error, matched, factory, script,
                       queued, enables, emits>>
        /\ task.at = "break" /\ task' = Idle /\ Closing = {}
    BY <1>11 DEF NoCycle, node, network, definitions, pending
  <2>2. Expected' /\ Linked'
    BY <1>0, <2>1, LinksFrame
  <2>3. Waiting' = {} /\ Closing' = {}
    BY <1>0, <2>1, ClosingShrinks DEF Settled, Waiting
  <2> QED
    BY <2>1, <2>2, <2>3 DEF LinkInv, Settled, Idle
\* A task begins, or a call is put off.
<1>12. ASSUME \/ Require \/ TimerFires
              \/ \E m \in Modules : Arrive(m)
              \/ \E c \in Calls : Tick(c)
       PROVE  LinkInv'
  <2>1. UNCHANGED <<program, registry, enabled, inited, defined, error, matched, factory, enables,
                    emits>>
    BY <1>12 DEF Require, TimerFires, Arrive, Tick, node, pending
  <2>2. /\ task'.at \in {"issue", "complete", "check", "tick"}
        /\ task.at # "complete"
    BY <1>12 DEF Require, TimerFires, Arrive, Tick, Idle
  <2>3. \A m \in Modules : script[m] # "none" => script'[m] # "none"
    BY <1>12 DEF Require, TimerFires, Arrive, Tick, network, TypeInv, TypeOK
  <2>4. Expected' /\ Linked'
    BY <1>0, <2>1, <2>2, <2>3, LinksFrame
  <2> QED
    BY <2>2, <2>4 DEF LinkInv, Settled, Idle
<1>13. ASSUME TimePasses \/ UNCHANGED vars \/ \E m \in Modules : ScriptError(m)
       PROVE  LinkInv'
  <2>1. /\ UNCHANGED <<program, registry, enabled, inited, defined, matched, factory, queued,
                       enables, emits, task, timer, checking>>
        /\ error \subseteq error'
    BY <1>13 DEF TimePasses, ScriptError, vars, node, definitions, pending
  <2>2. \A m \in Modules : script[m] # "none" => script'[m] # "none"
    BY <1>13 DEF TimePasses, ScriptError, vars, network, TypeInv, TypeOK
  <2>3. Expected' /\ Linked'
    BY <1>0, <2>1, <2>2, LinksFrame
  <2>4. Waiting' \subseteq Waiting /\ Closing' \subseteq Closing
    BY <2>1, ClosingShrinks DEF Waiting
  <2>5. Settled'
    BY <1>0, <2>1, <2>4 DEF Settled
  <2> QED
    BY <2>3, <2>5 DEF LinkInv
<1> QED
  BY <1>2, <1>4, <1>5, <1>6, <1>7, <1>8, <1>9, <1>10, <1>11, <1>12, <1>13 DEF Next, Work

LEMMA AlwaysLinked == Spec => []LinkInv
<1>1. Init => LinkInv
  <2> SUFFICES ASSUME Init PROVE LinkInv
    OBVIOUS
  <2>1. Waiting = {} /\ Waits = {} /\ enabled = {}
    BY DEF Init, Waiting, Waits
  <2> QED
    BY <2>1 DEF LinkInv, Expected, Linked, Settled, Closing, Init, Idle
<1> QED
  BY <1>1, AlwaysTyped, AlwaysMakes, AlwaysCalls, StepLinks, PTL DEF Spec

\* At rest a call that has not run leads, from dependency to dependency, to one
\* that was reported: otherwise each node on the way would wait for a next one,
\* which ends in a cycle, and none is left.
LEMMA RestReported ==
  ASSUME TypeInv, MakesInv, CallsInv, LinkInv, ~aborted, ~checking, AtRest,
         NEW c \in Calls, c \in registry
  PROVE  Needs(c) \cap reported # {}
<1> SUFFICES ASSUME Needs(c) \cap reported = {} PROVE FALSE
  OBVIOUS
<1>0. /\ enables = {} /\ emits = {} /\ Waiting = {} /\ Closing = {}
      /\ RegistryWaits /\ Linked
  BY DEF AtRest, TypeInv, NothingLeft, Quiet, CallsInv, LinkInv, Settled
<1>1. Reached(c, Waits) \subseteq Needs(c)
  BY WaitsNeeded, ReachedMore DEF Needs
<1>2. \A e \in Waits : e[2] \in Modules
  BY WaitsType
<1>3. ASSUME NEW x \in Nodes, x \in registry, x \in enabled, x \notin error,
             x = c \/ x \in Reached(c, Waits)
      PROVE  \E e \in Waits : e[1] = x
  <2>1. x \in inited /\ x \notin defined
    BY <1>0, <1>3 DEF Waiting, RegistryWaits
  <2>2. PICK d \in Deps(x) \ matched[x] : LinkedTo(x, d)
    <3>1. Deps(x) # matched[x] /\ matched[x] \subseteq Deps(x)
      BY <1>0, <1>3, <2>1 DEF Linked, TypeInv, Matched
    <3> QED
      BY <1>0, <1>3, <2>1, <3>1 DEF Linked
  <2>3. d \in Needs(c)
    <3> DEFINE needs == {e \in Nodes \X Modules : e[2] \in program.deps[e[1]]}
    <3>1. d \in program.deps[x] /\ d \in Modules
      <4>1. d \in Modules
        BY <1>3, DepsType DEF TypeInv
      <4>2. CASE x \in Calls
        BY <4>1, <4>2 DEF Deps
      <4>3. CASE x \notin Calls
        BY <1>3, <2>1, <4>1, <4>3 DEF Deps, MakesInv, Own, Nodes
      <4> QED
        BY <4>2, <4>3
    <3>2. <<x, d>> \in needs
      BY <1>3, <3>1
    <3> HIDE DEF needs
    <3>3. x = c \/ x \in Reached(c, needs)
      BY <1>1, <1>3 DEF Needs, needs
    <3>4. d \in Reached(c, needs)
      BY <3>1, <3>2, <3>3, ReachedFirst, ReachedNext
    <3> QED
      BY <3>4 DEF Needs, needs
  <2>4. d \in registry /\ d \notin error
    BY <1>0, <2>2, <2>3 DEF LinkedTo, TypeInv, Errors
  <2>5. <<x, d>> \in Waits
    BY <1>3, <2>1, <2>2, <2>4 DEF Waits
  <2> QED
    BY <2>5
<1>4. ASSUME NEW x \in Reached(c, Waits)
      PROVE  x \in Nodes /\ x \in registry /\ x \in enabled /\ x \notin error
  <2> DEFINE S == {m \in Modules : \E e \in Waits : e[2] = m}
  <2>1. \A e \in Waits : e[1] \in S \cup {c} => e[2] \in S
    BY <1>2
  <2>2. x \in S
    BY <2>1, ReachedWithin
  <2>3. PICK e \in Waits : e[2] = x
    BY <2>2
  <2>4. /\ e[1] \in inited \cap enabled \cap (registry \ error) /\ x \in registry \ error
        /\ x \in Deps(e[1]) \ matched[e[1]]
    BY <2>3, WaitsType
  <2>5. LinkedTo(e[1], x)
    BY <1>0, <2>4 DEF RegistryWaits, Linked
  <2> QED
    BY <1>0, <2>2, <2>4, <2>5 DEF LinkedTo, Nodes
<1>5. \A x \in Reached(c, Waits) : \E e \in Waits : e[1] = x
  BY <1>3, <1>4
<1>6. Reached(c, Waits) # {}
  <2>1. c \in Nodes /\ c \in enabled /\ c \notin error
    BY <1>0 DEF RegistryWaits, TypeInv, Errors, Nodes
  <2>2. PICK e \in Waits : e[1] = c
    BY <1>3, <2>1
  <2> QED
    BY <1>2, <2>2, ReachedFirst
<1>7. IsFiniteSet(Modules)
  BY FS_Subset, LoaderAssumption DEF Nodes
<1>8. \E e \in Waits : e[1] \in Reached(c, Waits) /\ e[1] \in Reached(e[2], Waits)
  BY <1>2, <1>5, <1>6, <1>7, EndlessPathCloses
<1> QED
  BY <1>0, <1>8 DEF Closing

\* In every program, when the browser has nothing to do before another script
\* arrives, each call of require whose callback has not run waits for a module
\* that was reported, unless an error ended a task half-way or checkLoaded is
\* not run any more.
THEOREM NoCallForgotten == Spec => []NothingForgotten
<1>1. TypeInv /\ MakesInv /\ CallsInv /\ LinkInv => NothingForgotten
  BY RestReported DEF NothingForgotten
<1> QED
  BY <1>1, AlwaysTyped, AlwaysMakes, AlwaysCalls, AlwaysLinked, PTL

=============================================================================
