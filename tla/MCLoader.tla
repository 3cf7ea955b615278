------------------------------ MODULE MCLoader ------------------------------
(***************************************************************************)
(* Five pages: the application's own, as application.js has it; two with   *)
(* modules that depend on each other; two whose script b brings along a    *)
(* definition of c, which also has a script of its own.                    *)
(***************************************************************************)
EXTENDS Loader

CONSTANTS a, b, c, d, p, q, r

FourModules == {a, b, c, d}
ThreeCalls == {p, q, r}

Nothing == [m \in FourModules |-> <<>>]
Own(m) == <<[name |-> Anonymous, for |-> m]>>
Named(m) == <<[name |-> m, for |-> m]>>

\* The page names a, whose script calls require; that of d may do so too.
Page(deps, defines, ds) ==
  [deps |-> [n \in FourModules \cup ThreeCalls |->
               IF n = p THEN {a} ELSE IF n \in DOMAIN deps THEN deps[n] ELSE {}],
   defines |-> defines,
   issues |-> [m \in FourModules |-> IF m = a THEN {q} ELSE IF m = d THEN ds ELSE {}],
   main |-> {p}]

\* b is jquery, c jquery.cometd, d cometd.
Application ==
  Page([n \in {q, c} |-> IF n = q THEN {b, c} ELSE {b, d}],
       [Nothing EXCEPT ![b] = Named(b), ![c] = Own(c), ![d] = Own(d)], {})

Cyclic ==
  Page([n \in {q, r, b, c} |-> IF n = q THEN {b, d} ELSE IF n = b THEN {c} ELSE {b}],
       [Nothing EXCEPT ![b] = Own(b), ![c] = Own(c)], {r})

Bundled(inB) ==
  Page([n \in {q, r, b} |-> IF n = q THEN {b, c, d} ELSE IF n = r THEN {b} ELSE {c}],
       [Nothing EXCEPT ![b] = inB, ![c] = Own(c)], {r})

Ring ==
  Page([n \in {q, b, c, d} |-> IF n = q THEN {b, c} ELSE IF n = b THEN {c}
                                ELSE IF n = c THEN {d} ELSE {b}],
       [Nothing EXCEPT ![b] = Own(b), ![c] = Own(c), ![d] = Named(d)], {})

FivePages ==
  {Application, Cyclic, Ring, Bundled(Named(c) \o Own(b)), Bundled(Named(c) \o Named(b))}

=============================================================================
