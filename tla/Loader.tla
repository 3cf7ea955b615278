------------------------------- MODULE Loader -------------------------------
(***************************************************************************)
(* How the client starts: require-2.3.6.js, as index.html and              *)
(* application.js use it.  The page names a main script; that script calls *)
(* require with the modules that the application is made of, and with the  *)
(* callback that is the application.  Modules are in scripts that arrive   *)
(* late, in any order or not at all, and name in turn what they depend on. *)
(*                                                                         *)
(* The browser runs one task at a time: a script that has arrived, a call  *)
(* that require has put off, the timer.  Within a task functions call each *)
(* other; here the calls that are still to be made are kept in sets, and   *)
(* made one by one in any order.  Nobody registers an error callback, so   *)
(* each error goes to req.onError, which throws it and ends the task.      *)
(* Plugins, shims, bundles, packages and alternative paths are not used,   *)
(* and a name stands for its url.                                          *)
(***************************************************************************)
EXTENDS Naturals, Sequences, FiniteSets

CONSTANTS
  Modules,
  Calls,       \* calls of require, which have internal names
  Anonymous,   \* the name in a define that does not give one
  NoFactory,
  Programs,    \* what the page may be made of
  MaxThrows    \* bound: how many factories or callbacks fail

Nodes == Modules \cup Calls

Items == [name : Modules \cup {Anonymous}, for : Modules]

\* A program: what a node depends on; the defines in a script, in order, with
\* the module they were written for; the calls of require in a script, which
\* has no define then; and the calls that the page makes.  A define without a
\* name is for the module of the script, and a script has one define for it at
\* most; each call is made in one place.
ASSUME LoaderAssumption ==
  /\ IsFiniteSet(Nodes)
  /\ Modules \cap Calls = {}
  /\ Anonymous \notin Nodes /\ NoFactory \notin Nodes
  /\ \A p \in Programs :
       /\ p.deps \in [Nodes -> SUBSET Modules]
       /\ p.defines \in [Modules -> Seq(Items)]
       /\ p.issues \in [Modules -> SUBSET Calls]
       /\ p.main \in SUBSET Calls
       /\ \A m \in Modules :
            LET D == p.defines[m]
            IN /\ p.issues[m] # {} => D = <<>>
               /\ \A i \in DOMAIN D : D[i].for = IF D[i].name = Anonymous THEN m ELSE D[i].name
               /\ \A i, j \in DOMAIN D : D[i].for = m /\ D[j].for = m => i = j
               /\ p.issues[m] \cap p.main = {}
               /\ \A l \in Modules \ {m} : p.issues[m] \cap p.issues[l] = {}
  /\ MaxThrows \in Nat

VARIABLES
  program,
  registry,   \* the modules that wait for something
  enabled, inited, defined,
  defining,   \* those whose factory failed
  error,      \* those that have an error
  matched,    \* the dependencies of a node whose values it has
  factory,    \* for which module the factory was written that a module has
  script,     \* where the script of a module is
  queue,      \* globalDefQueue and defQueue
  queued,     \* defQueueMap
  ticks,      \* the calls put off to the next tick
  timer,      \* checkLoadedTimeoutId
  expired,    \* whether waitSeconds have passed since startTime
  checking,   \* inCheckLoaded
  task,       \* what the browser runs
  enables,    \* calls of enable still to be made in the task
  emits,      \* who is still to be told of a definition in the task
  early,      \* (history variable) who ran before what it depends on
  given,      \* (history variable) the dependencies given up to break a cycle
  reported,   \* (history variable) the nodes with whose name an error was thrown
  wronged,    \* (history variable) those that timed out and had arrived
  aborted,    \* (history variable) whether an error ended a task half-way
  throws

node == <<registry, enabled, inited, defined, defining, error, matched, factory>>
network == <<script, expired>>
definitions == <<queue, queued>>
pending == <<enables, emits>>
history == <<early, given, reported, wronged, aborted>>
vars == <<program, node, network, definitions, ticks, timer, checking, task, pending, history,
          throws>>

Idle == [at |-> "idle"]
Tasks ==
  [at : {"idle", "check", "break"}]
    \cup [at : {"complete"}, of : Modules, found : BOOLEAN]
    \cup [at : {"issue"}, of : Modules] \cup [at : {"tick"}, of : Calls]

TypeOK ==
  /\ program \in Programs
  /\ registry \in SUBSET Nodes /\ enabled \in SUBSET Nodes /\ inited \in SUBSET Nodes
  /\ defined \in SUBSET Nodes /\ defining \in SUBSET Nodes /\ error \in SUBSET Nodes
  /\ matched \in [Nodes -> SUBSET Modules]
  /\ factory \in [Modules -> Modules \cup {NoFactory}]
  /\ script \in [Modules -> {"none", "loading", "arrived", "failed"}]
  /\ queue \in Seq(Items)
  /\ queued \in SUBSET Modules
  /\ ticks \in SUBSET Calls
  /\ timer \in BOOLEAN /\ expired \in BOOLEAN /\ checking \in BOOLEAN
  /\ task \in Tasks
  /\ enables \in SUBSET registry
  /\ emits \in SUBSET (Nodes \X Nodes)
  /\ early \in SUBSET (Nodes \X Modules) /\ given \in SUBSET (Nodes \X Modules)
  /\ reported \in SUBSET Nodes /\ wronged \in SUBSET Modules
  /\ aborted \in BOOLEAN
  /\ throws \in 0 .. MaxThrows

\* The attribute data-main of the page is a call of require, without callback.
MainCalls == program.main

Init ==
  /\ program \in Programs
  /\ registry = {} /\ enabled = {} /\ inited = {} /\ defined = {} /\ defining = {}
  /\ error = {}
  /\ matched = [n \in Nodes |-> {}]
  /\ factory = [m \in Modules |-> NoFactory]
  /\ script = [m \in Modules |-> "none"]
  /\ queue = <<>> /\ queued = {}
  /\ ticks = MainCalls
  /\ timer = FALSE /\ expired = FALSE /\ checking = FALSE
  /\ task = Idle
  /\ enables = {} /\ emits = {}
  /\ early = {} /\ given = {} /\ reported = {} /\ wronged = {} /\ aborted = FALSE
  /\ throws = 0

\* What a node depends on goes by the factory that it was given.
Deps(n) == IF n \in Calls THEN program.deps[n]
           ELSE IF factory[n] = NoFactory THEN {} ELSE program.deps[factory[n]]

\* The nodes that wait for d to be defined.
Listeners(d) == {n \in enabled \cap inited \cap registry : d \in Deps(n) \ matched[n]}

Quiet == enables = {} /\ emits = {}

HasFactory(n) == IF n \in Calls THEN n \notin MainCalls ELSE factory[n] # NoFactory

\* The modules that a path of edges leads to from n: those in every set that the
\* edges of n lead into and no edge leads out of.
Reached(n, edges) ==
  LET Shut(S) == \A e \in edges : e[1] \in S \cup {n} => e[2] \in S
  IN {m \in Modules : \A S \in SUBSET Modules : Shut(S) => m \in S}

-----------------------------------------------------------------------------
\* A module: check, enable, and the listeners of a definition.

\* fetch and load: a script is asked for once.
Fetch(m) ==
  IF script[m] = "none"
  THEN /\ script' = [script EXCEPT ![m] = "loading"]
       /\ expired' = FALSE
  ELSE UNCHANGED network

\* The factory returns; the node leaves the registry and whoever waits for it
\* is to be told.
Run(n, reg, told) ==
  /\ defined' = defined \cup {n}
  /\ registry' = reg \ {n}
  /\ emits' = told \cup {<<n, l>> : l \in Listeners(n)}
  /\ early' = early \cup {<<n, d>> : d \in Deps(n) \ defined}
  /\ UNCHANGED <<defining, checking, task, reported, aborted, throws>>

\* The factory fails: all the calls that are still to be made are lost.
Throw(n, reg) ==
  /\ throws < MaxThrows
  /\ throws' = throws + 1
  /\ defining' = defining \cup {n}
  /\ registry' = reg
  /\ emits' = {} /\ enables' = {}
  /\ task' = Idle
  /\ reported' = reported \cup {n}
  /\ aborted' = TRUE
  /\ UNCHANGED <<defined, checking, early>>

\* check, for a node that is enabled and has the values of got; reg, told and
\* calls are what the caller leaves in the registry and still to be done.
Check(n, got, reg, told, calls) ==
  LET complete == /\ n \in inited
                  /\ n \notin error \cup defining \cup defined
                  /\ got = Deps(n)
  IN /\ IF n \notin inited /\ n \notin queued THEN Fetch(n) ELSE UNCHANGED network
     /\ \/ complete /\ Run(n, reg, told) /\ enables' = calls
        \/ complete /\ HasFactory(n) /\ Throw(n, reg)
        \/ /\ ~complete
           /\ registry' = reg /\ emits' = told /\ enables' = calls
           /\ UNCHANGED <<defined, defining, checking, task, early, reported, aborted, throws>>

\* Slip: a dependency that waits is not entered in the registry.
EnableUnregistered(n) ==
  /\ n \in enables
  /\ enabled' = enabled \cup {n}
  /\ LET deps == IF n \in inited THEN Deps(n) ELSE {}
         got == matched[n] \cup (deps \cap defined)
     IN /\ matched' = [matched EXCEPT ![n] = got]
        /\ Check(n, got, registry, emits, (enables \ {n}) \cup (deps \ (defined \cup enabled)))
  /\ UNCHANGED <<program, inited, error, factory, definitions, ticks, timer, given, wronged>>

\* enable: the dependencies are entered in the registry and enabled, those
\* that are defined are matched at once, and the node is checked.
Enable(n) ==
  /\ n \in enables
  /\ enabled' = enabled \cup {n}
  /\ LET deps == IF n \in inited THEN Deps(n) ELSE {}
         waits == deps \ (defined \cup matched[n])
         got == matched[n] \cup (deps \cap defined)
     IN /\ matched' = [matched EXCEPT ![n] = got]
        /\ Check(n, got, registry \cup waits, emits,
                 (enables \ {n}) \cup (waits \ (enabled \cup {n})))
  /\ UNCHANGED <<program, inited, error, factory, definitions, ticks, timer, given, wronged>>

\* emit('defined'): a listener gets the value and is checked.
Emit(d, n) ==
  /\ <<d, n>> \in emits
  /\ matched' = [matched EXCEPT ![n] = @ \cup {d}]
  /\ Check(n, matched[n] \cup {d}, registry, emits \ {<<d, n>>}, enables)
  /\ UNCHANGED <<program, enabled, inited, error, factory, definitions, ticks, timer, given,
                 wronged>>

-----------------------------------------------------------------------------
\* Scripts, and the calls of define in them.

\* takeGlobalQueue: the names that a script defines.
NamesIn(m) == {program.defines[m][i].name : i \in DOMAIN program.defines[m]} \ {Anonymous}

\* A script was executed: what it defines is queued, until it is known which
\* script it was; a script that calls require does so.
Arrive(m) ==
  /\ task = Idle
  /\ script[m] = "loading"
  /\ script' = [script EXCEPT ![m] = "arrived"]
  /\ queue' = queue \o program.defines[m]
  /\ queued' = queued \cup NamesIn(m)
  /\ task' = IF program.issues[m] # {} THEN [at |-> "issue", of |-> m]
             ELSE [at |-> "complete", of |-> m, found |-> FALSE]
  /\ UNCHANGED <<program, node, expired, ticks, timer, checking, pending, history, throws>>

\* callGetModule and init: only the first definition of a module counts.
CallGetModule(m, for) ==
  IF m \in defined \cup inited
  THEN UNCHANGED <<registry, inited, factory, enables>>
  ELSE /\ registry' = registry \cup {m}
       /\ inited' = inited \cup {m}
       /\ factory' = [factory EXCEPT ![m] = for]
       /\ enables' = enables \cup ({m} \cap enabled)

\* Slip: only a define with a name is taken for a module.
MoreNamed == queue # <<>> /\ Head(queue).name # Anonymous

\* An anonymous definition is the module's whose script was loaded, unless that
\* was defined already; it is lost then, and ends the loop of completeLoad.
MoreToTake == queue # <<>> /\ ~(Head(queue).name = Anonymous /\ task.found)

\* completeLoad, the next item of the queue.
TakeDefine ==
  /\ task.at = "complete" /\ Quiet
  /\ MoreToTake
  /\ LET item == Head(queue)
         name == IF item.name = Anonymous THEN task.of ELSE item.name
     IN /\ CallGetModule(name, item.for)
        /\ task' = [task EXCEPT !.found = @ \/ name = task.of]
  /\ queue' = Tail(queue)
  /\ UNCHANGED <<program, enabled, defined, defining, error, matched, network, queued, ticks,
                 timer, checking, emits, history, throws>>

\* Slip: nothing stands in for a script that does not call define.
CompleteOnlyDefined ==
  /\ task.at = "complete" /\ Quiet
  /\ ~MoreToTake
  /\ queue' = IF queue = <<>> THEN queue ELSE Tail(queue)
  /\ queued' = {}
  /\ task' = [at |-> "check"]
  /\ UNCHANGED <<program, node, network, ticks, timer, checking, pending, history, throws>>

\* The end of completeLoad: a script without a define is one that was called
\* with nothing.
Complete ==
  /\ task.at = "complete" /\ Quiet
  /\ ~MoreToTake
  /\ queue' = IF queue = <<>> THEN queue ELSE Tail(queue)
  /\ queued' = {}
  /\ IF ~task.found /\ task.of \in registry
     THEN CallGetModule(task.of, NoFactory)
     ELSE UNCHANGED <<registry, inited, factory, enables>>
  /\ task' = [at |-> "check"]
  /\ UNCHANGED <<program, enabled, defined, defining, error, matched, network, ticks, timer,
                 checking, emits, history, throws>>

\* intakeDefines, when a call of require is made and when it is carried out.
IntakeDefine ==
  /\ task.at \in {"issue", "tick"} /\ Quiet
  /\ queue # <<>> /\ Head(queue).name # Anonymous
  /\ CallGetModule(Head(queue).name, Head(queue).for)
  /\ queue' = Tail(queue)
  /\ UNCHANGED <<program, enabled, defined, defining, error, matched, network, queued, ticks,
                 timer, checking, task, emits, history, throws>>

\* What is left of a script that failed is not executed, but it has loaded.
Mismatch ==
  /\ task.at \in {"issue", "tick"} /\ Quiet
  /\ queue # <<>> /\ Head(queue).name = Anonymous
  /\ queue' = Tail(queue)
  /\ task' = IF task.at = "tick" THEN Idle
             ELSE [at |-> "complete", of |-> task.of, found |-> FALSE]
  /\ aborted' = TRUE
  /\ UNCHANGED <<program, node, network, queued, ticks, timer, checking, pending, early, given,
                 reported, wronged, throws>>

-----------------------------------------------------------------------------
\* Calls of require.

\* A call is put off to the next tick.
Require ==
  /\ task.at = "issue" /\ Quiet
  /\ queue = <<>>
  /\ queued' = {}
  /\ ticks' = ticks \cup program.issues[task.of]
  /\ task' = [at |-> "complete", of |-> task.of, found |-> FALSE]
  /\ UNCHANGED <<program, node, network, queue, timer, checking, pending, history, throws>>

Tick(c) ==
  /\ task = Idle
  /\ c \in ticks
  /\ ticks' = ticks \ {c}
  /\ task' = [at |-> "tick", of |-> c]
  /\ UNCHANGED <<program, node, network, definitions, timer, checking, pending, history, throws>>

\* Slip: localRequire does not look at what is loaded.
InitCallUnchecked ==
  /\ task.at = "tick" /\ Quiet
  /\ queue = <<>>
  /\ queued' = {}
  /\ registry' = registry \cup {task.of}
  /\ inited' = inited \cup {task.of}
  /\ enables' = {task.of}
  /\ task' = Idle
  /\ UNCHANGED <<program, enabled, defined, defining, error, matched, factory, network, queue,
                 ticks, timer, checking, emits, history, throws>>

\* The call becomes a node of its own, enabled from the start.
InitCall ==
  /\ task.at = "tick" /\ Quiet
  /\ queue = <<>>
  /\ queued' = {}
  /\ registry' = registry \cup {task.of}
  /\ inited' = inited \cup {task.of}
  /\ enables' = {task.of}
  /\ task' = [at |-> "check"]
  /\ UNCHANGED <<program, enabled, defined, defining, error, matched, factory, network, queue,
                 ticks, timer, checking, emits, history, throws>>

-----------------------------------------------------------------------------
\* checkLoaded: what did not come in time is an error, what may still come is
\* waited for, and otherwise nodes wait for each other.

CheckLoaded ==
  /\ task.at = "check" /\ Quiet
  /\ LET waiting == (registry \cap enabled) \ (error \cup inited)
         late == expired /\ waiting # {}
         loading == ~expired /\ \E m \in waiting : script[m] # "none"
     IN /\ task' = IF checking \/ late \/ loading THEN Idle ELSE [at |-> "break"]
        /\ checking' = (checking \/ ~loading)
        /\ timer' = (timer \/ (~checking /\ loading))
        /\ IF late /\ ~checking
           THEN /\ error' = error \cup waiting
                /\ reported' = reported \cup waiting
                /\ wronged' = wronged \cup {m \in waiting : script[m] = "arrived"}
           ELSE UNCHANGED <<error, reported, wronged>>
  /\ UNCHANGED <<program, registry, enabled, inited, defined, defining, matched, factory, network,
                 definitions, ticks, pending, early, given, aborted, throws>>

\* Who waits for whom, among those that have no error.
Waits == {e \in (registry \ error) \X (registry \ error) :
            e[1] \in inited \cap enabled /\ e[2] \in Deps(e[1]) \ matched[e[1]]}

\* Slip: breakCycle forces every dependency that waits.
EveryWait == Waits

\* The dependencies that breakCycle may give up: those that close a cycle
\* which a call waits for.
Closing == {e \in Waits : /\ e[1] \in Reached(e[2], Waits)
                          /\ \E c \in Calls : e[1] \in Reached(c, Waits)}

\* breakCycle: a node goes on without the value of a dependency.
BreakCycle ==
  /\ task.at = "break" /\ Quiet
  /\ \E e \in Closing :
       /\ given' = given \cup {e}
       /\ matched' = [matched EXCEPT ![e[1]] = @ \cup {e[2]}]
       /\ Check(e[1], matched[e[1]] \cup {e[2]}, registry, emits, enables)
  /\ UNCHANGED <<program, enabled, inited, error, factory, definitions, ticks, timer, wronged>>

NoCycle ==
  /\ task.at = "break" /\ Quiet
  /\ Closing = {}
  /\ checking' = FALSE
  /\ task' = Idle
  /\ UNCHANGED <<program, node, network, definitions, ticks, timer, pending, history, throws>>

-----------------------------------------------------------------------------
\* The network and the clock.

\* onScriptError: the error is thrown, and nothing else is looked at.
ScriptError(m) ==
  /\ task = Idle
  /\ script[m] = "loading"
  /\ script' = [script EXCEPT ![m] = "failed"]
  /\ error' = error \cup ({m} \cap registry)
  /\ reported' = reported \cup {m}
  /\ UNCHANGED <<program, registry, enabled, inited, defined, defining, matched, factory, expired,
                 definitions, ticks, timer, checking, task, pending, early, given, wronged,
                 aborted, throws>>

\* Slip: each look at what is loaded gives the scripts the time anew.
TimerRestarts ==
  /\ task = Idle
  /\ timer
  /\ timer' = FALSE
  /\ expired' = FALSE
  /\ task' = [at |-> "check"]
  /\ UNCHANGED <<program, node, script, definitions, ticks, checking, pending, history, throws>>

TimerFires ==
  /\ task = Idle
  /\ timer
  /\ timer' = FALSE
  /\ task' = [at |-> "check"]
  /\ UNCHANGED <<program, node, network, definitions, ticks, checking, pending, history, throws>>

\* waitSeconds pass, since the last script was asked for.
TimePasses ==
  /\ ~expired
  /\ \E m \in Modules : script[m] # "none"
  /\ expired' = TRUE
  /\ UNCHANGED <<program, node, script, definitions, ticks, timer, checking, task, pending,
                 history, throws>>

\* What goes on within a task, once it has begun.
Work ==
  \/ \E n \in Nodes : Enable(n)
  \/ \E d, n \in Nodes : Emit(d, n)
  \/ TakeDefine \/ Complete \/ IntakeDefine \/ Mismatch \/ Require \/ InitCall
  \/ CheckLoaded \/ BreakCycle \/ NoCycle

Next ==
  \/ Work
  \/ \E m \in Modules : Arrive(m) \/ ScriptError(m)
  \/ \E c \in Calls : Tick(c)
  \/ TimerFires \/ TimePasses

Spec == Init /\ [][Next]_vars

\* The browser runs what is due and time passes; scripts need not come.
Fairness ==
  /\ WF_vars(Work)
  /\ \A c \in Calls : WF_vars(Tick(c))
  /\ WF_vars(TimerFires)
  /\ WF_vars(TimePasses)

FairSpec == Spec /\ Fairness

-----------------------------------------------------------------------------
\* Properties.

\* What a node depends on, directly or not, by what the scripts say.
Needs(n) == Reached(n, {e \in Nodes \X Modules : e[2] \in program.deps[e[1]]})

\* A factory runs before the factory of a module that it depends on only if
\* that has been given its own factory, so that no script is waited for, and
\* the two wait for each other by what the scripts say.  An error half-way may
\* have mixed up the factories.
InOrder ==
  \A e \in early : e \in given /\ e[2] \in inited /\ (aborted \/ e[1] \in Needs(e[2]))

\* A module is made by the factory that was written for it, whatever the order
\* in which the scripts arrived: the defines that a script leaves in the queue
\* are taken before the next one does.  An error half-way leaves them there.
OwnFactory ==
  aborted \/ \A m \in inited \cap Modules :
    \/ factory[m] = m
    \/ factory[m] = NoFactory /\ \A i \in DOMAIN program.defines[m] :
                                   program.defines[m][i].for # m

\* No module whose script has arrived is reported as one that timed out, if no
\* error half-way has lost what the script defines.
TimeoutsAreReal == aborted \/ wronged = {}

\* The browser has nothing to do before another script arrives.
AtRest == task = Idle /\ ticks = {} /\ ~timer

\* A call of require whose callback has not run at rest waits for a module
\* that was reported: none just stays silent.  After a timeout or an error in
\* a factory checkLoaded is not run any more, which is what checking says.
NothingForgotten ==
  AtRest => \/ aborted \/ checking
            \/ \A c \in Calls \cap registry : Needs(c) \cap reported # {}

\* In the end the callback of a call runs, or what it waits for is reported.
Settles ==
  \A c \in Calls :
    c \in ticks ~> \/ c \in defined \/ Needs(c) \cap reported # {}
                   \/ aborted \/ (checking /\ AtRest)

=============================================================================
