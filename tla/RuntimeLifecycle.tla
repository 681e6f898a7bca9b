-------------------------- MODULE RuntimeLifecycle --------------------------
(***************************************************************************)
(* What docs/runtime-contexts.md promises of a DWhoRuntime whose launcher  *)
(* serializes its calls: a one-shot lifecycle in which extensions acquire  *)
(* resources only during initialization and release them, once each, only  *)
(* after the runtime has stopped; and once stopped they all do.  Of other  *)
(* launchers it promises nothing: their runtime is 'unspecified'.          *)
(***************************************************************************)
EXTENDS Naturals

CONSTANT Extension

VARIABLES
    phase,      \* where the runtime is in its life
    holding,    \* extensions whose cleanup is owed
    released    \* extensions whose cleanup has run

vars == <<phase, holding, released>>

Phase == <<"new", "initializing", "ready", "starting", "running">>

Init == phase \in {"new", "unspecified"} /\ holding = {} /\ released = {}

Advance ==
    /\ \E i \in 1 .. 4 : phase = Phase[i] /\ phase' = Phase[i + 1]
    /\ UNCHANGED <<holding, released>>

Acquire(e) ==
    /\ phase = "initializing"
    /\ e \notin holding \cup released
    /\ holding' = holding \cup {e}
    /\ UNCHANGED <<phase, released>>

Stop ==
    /\ phase \notin {"stopped", "unspecified"}
    /\ phase' = "stopped"
    /\ UNCHANGED <<holding, released>>

Release(e) ==
    /\ phase = "stopped"
    /\ e \in holding
    /\ holding' = holding \ {e}
    /\ released' = released \cup {e}
    /\ UNCHANGED phase

Next == Advance \/ Stop \/ \E e \in Extension : Acquire(e) \/ Release(e)

Spec == Init /\ [][Next]_vars /\ WF_vars(\E e \in Extension : Release(e))
=============================================================================
