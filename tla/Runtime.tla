------------------------------- MODULE Runtime -------------------------------
(***************************************************************************)
(* dwho.runtime.DWhoRuntime: initialize, start and stop of one runtime.    *)
(*                                                                         *)
(* The launcher thread calls initialize, start and stop in any order and   *)
(* as often as it likes; further threads call stop.  Every hook of an      *)
(* extension may raise.  The order of extensions within a registry is that *)
(* of the caller's dict, so the next one is any that was not handled yet.  *)
(*                                                                         *)
(* When serialized, no stop starts while the launcher is inside initialize *)
(* or start, as docs/runtime-contexts.md asks of the launcher; stops may   *)
(* still overlap.  Otherwise a stop may race with initialize and start.    *)
(***************************************************************************)
EXTENDS Naturals, Sequences, FiniteSets

CONSTANTS
    Module, Plugin, InoPlug,   \* the registries given to the constructor
    Watcher,                   \* what inotify_factory returns
    HasWatcher,                \* 'inotify' is in the configuration
    Launcher, Stopper,         \* the launcher and the other callers of stop
    NoThread, NoError

Extension == Module \cup Plugin \cup InoPlug \cup {Watcher}
Thread == Stopper \cup {Launcher}

ASSUME RuntimeAssumption ==
    /\ Module \cap (Plugin \cup InoPlug) = {} /\ Plugin \cap InoPlug = {}
    /\ Watcher \notin Module \cup Plugin \cup InoPlug
    /\ Launcher \notin Stopper
    /\ NoThread \notin Thread
    /\ NoError \notin Extension
    /\ HasWatcher \in BOOLEAN

VARIABLES
    serialized, \* the launcher serializes stop with initialize and start
    state,      \* self.state
    stage,      \* stage[e]: how far the launcher has brought extension e
    callbacks,  \* self._callbacks: the extensions whose at_stop (stop) is registered
    lock,       \* the thread inside stop's critical section
    pc,         \* pc[h]: where thread h is
    cause,      \* the hook whose exception the launcher will re-raise, or NoError
    taken,      \* taken[h]: callbacks that h's stop has still to run
    error,      \* error[h]: first_error of h's stop, or NoError
    begun,      \* history: extensions whose resources may have been acquired
    ran         \* history: ran[e] is how often the stop callback of e was run

launch == <<stage, cause, begun>>
vars == <<serialized, state, stage, callbacks, lock, pc, cause, taken, error, begun, ran>>

State == {"new", "initializing", "ready", "starting", "running", "stopped"}
Stage == {"fresh", "made", "configured", "initialized", "disabled", "registered",
          "up", "passive", "started"}

TypeOK ==
    /\ serialized \in BOOLEAN
    /\ state \in State
    /\ stage \in [Extension -> Stage]
    /\ callbacks \in Seq(Extension)
    /\ lock \in Thread \cup {NoThread}
    /\ pc \in [Thread -> {"idle", "claim", "initialize", "start", "cleanup",
                          "take", "callbacks"}]
    /\ cause \in Extension \cup {NoError}
    /\ taken \in [Thread -> Seq(Extension)]
    /\ error \in [Thread -> Extension \cup {NoError}]
    /\ begun \subseteq Extension
    /\ ran \in [Extension -> Nat]

Init ==
    /\ serialized \in BOOLEAN
    /\ state = "new"
    /\ stage = [e \in Extension |-> "fresh"]
    /\ callbacks = <<>>
    /\ lock = NoThread
    /\ pc = [h \in Thread |-> "idle"]
    /\ cause = NoError
    /\ taken = [h \in Thread |-> <<>>]
    /\ error = [h \in Thread |-> NoError]
    /\ begun = {}
    /\ ran = [e \in Extension |-> 0]

At(h, where) == pc[h] = where
Go(h, where) == pc' = [pc EXCEPT ![h] = where]
Reach(e, s) == stage' = [stage EXCEPT ![e] = s]

\* A hook of e raised: initialize and start clean up, then re-raise.
Raise(e) ==
    /\ cause' = e
    /\ Go(Launcher, "cleanup")
    /\ UNCHANGED stage

\* A hook of e returned, and the launcher goes on.
Succeed(e, s) ==
    /\ Reach(e, s)
    /\ UNCHANGED <<pc, cause>>

Hook(e, s) == Succeed(e, s) \/ Raise(e)

-----------------------------------------------------------------------------
(* initialize                                                              *)

\* Mutant: a stopped runtime can be initialized again.
Initialize_Again ==
    /\ At(Launcher, "idle") /\ state \in {"new", "stopped"}
    /\ Go(Launcher, "claim")
    /\ UNCHANGED <<serialized, state, callbacks, lock, taken, error, ran, launch>>

\* The one-shot test.  A second call raises, and so do a missing registrar, a
\* stale extension or a failing deepcopy: nothing has changed then.
Initialize ==
    /\ At(Launcher, "idle") /\ state = "new"
    /\ Go(Launcher, "claim")
    /\ UNCHANGED <<serialized, state, callbacks, lock, taken, error, ran, launch>>

Reject ==
    /\ At(Launcher, "claim")
    /\ Go(Launcher, "idle")
    /\ UNCHANGED <<serialized, state, callbacks, lock, taken, error, ran, launch>>

Claim ==
    /\ At(Launcher, "claim")
    /\ state' = "initializing"
    /\ Go(Launcher, "initialize")
    /\ UNCHANGED <<serialized, callbacks, lock, taken, error, ran, launch>>

\* Every extension of S was brought up or found disabled.
Settled(S) == \A e \in S : stage[e] \in {"up", "disabled"}
\* No plugin is between its init and the end of its safe_init.
NonePending == \A e \in Plugin \cup InoPlug : stage[e] \notin {"initialized", "registered"}

\* Mutant: the watcher's stop is never registered.
MakeWatcher_Unregistered ==
    /\ At(Launcher, "initialize") /\ HasWatcher /\ stage[Watcher] = "fresh"
    /\ \/ Succeed(Watcher, "made") /\ begun' = begun \cup {Watcher}
       \/ Raise(Watcher) /\ UNCHANGED begun
    /\ UNCHANGED <<serialized, state, callbacks, lock, taken, error, ran>>

\* The watcher's stop is registered before its configuration is parsed.
MakeWatcher ==
    /\ At(Launcher, "initialize") /\ HasWatcher /\ stage[Watcher] = "fresh"
    /\ \/ /\ Succeed(Watcher, "made")
          /\ callbacks' = Append(callbacks, Watcher)
          /\ begun' = begun \cup {Watcher}
       \/ Raise(Watcher) /\ UNCHANGED <<callbacks, begun>>
    /\ UNCHANGED <<serialized, state, lock, taken, error, ran>>

ConfigureWatcher ==
    /\ At(Launcher, "initialize") /\ stage[Watcher] = "made"
    /\ Hook(Watcher, "configured")
    /\ UNCHANGED <<serialized, state, callbacks, lock, taken, error, begun, ran>>

WatcherConfigured == HasWatcher => stage[Watcher] \in {"configured", "up"}

InitModule(e) ==
    /\ At(Launcher, "initialize") /\ WatcherConfigured
    /\ stage[e] = "fresh"
    /\ Hook(e, "up")
    /\ UNCHANGED <<serialized, state, callbacks, lock, taken, error, begun, ran>>

\* init of a plugin decides whether it is enabled.
InitPlugin(e) ==
    /\ At(Launcher, "initialize") /\ WatcherConfigured /\ NonePending
    /\ Settled(Module)
    /\ stage[e] = "fresh"
    /\ Hook(e, "initialized") \/ Hook(e, "disabled")
    /\ UNCHANGED <<serialized, state, callbacks, lock, taken, error, begun, ran>>

\* So does that of a watcher's plugin, once the watcher itself is initialized.
InitInoPlug(e) ==
    /\ At(Launcher, "initialize") /\ stage[Watcher] = "up" /\ NonePending
    /\ stage[e] = "fresh"
    /\ Hook(e, "initialized") \/ Hook(e, "disabled")
    /\ UNCHANGED <<serialized, state, callbacks, lock, taken, error, begun, ran>>

\* at_stop of an enabled plugin is registered before its safe_init runs.
Register(e) ==
    /\ At(Launcher, "initialize") /\ stage[e] = "initialized"
    /\ Reach(e, "registered")
    /\ callbacks' = Append(callbacks, e)
    /\ UNCHANGED <<serialized, state, lock, pc, cause, taken, error, begun, ran>>

SafeInit(e) ==
    /\ At(Launcher, "initialize") /\ stage[e] = "registered"
    /\ Hook(e, "up")
    /\ begun' = begun \cup {e}
    /\ UNCHANGED <<serialized, state, callbacks, lock, taken, error, ran>>

InitWatcher ==
    /\ At(Launcher, "initialize") /\ stage[Watcher] = "configured"
    /\ Settled(Module \cup Plugin)
    /\ Hook(Watcher, "up")
    /\ UNCHANGED <<serialized, state, callbacks, lock, taken, error, begun, ran>>

Ready ==
    /\ At(Launcher, "initialize")
    /\ Settled(Module \cup Plugin)
    /\ HasWatcher => Settled(InoPlug \cup {Watcher})
    /\ state' = "ready"
    /\ Go(Launcher, "idle")
    /\ UNCHANGED <<serialized, callbacks, lock, taken, error, ran, launch>>

-----------------------------------------------------------------------------
(* start                                                                   *)

Start ==
    /\ At(Launcher, "idle") /\ state = "ready"
    /\ state' = "starting"
    /\ Go(Launcher, "start")
    /\ UNCHANGED <<serialized, callbacks, lock, taken, error, ran, launch>>

\* at_start of an enabled plugin with autostart; without it nothing is called.
\* The watcher's plugins come after all the others, the watcher's start last.
AtStart(e) ==
    /\ At(Launcher, "start") /\ stage[e] = "up"
    /\ \/ e \in Plugin
       \/ e \in InoPlug /\ HasWatcher /\ \A p \in Plugin : stage[p] # "up"
    /\ Hook(e, "started") \/ Succeed(e, "passive")
    /\ UNCHANGED <<serialized, state, callbacks, lock, taken, error, begun, ran>>

StartWatcher ==
    /\ At(Launcher, "start") /\ HasWatcher /\ stage[Watcher] = "up"
    /\ \A p \in Plugin \cup InoPlug : stage[p] # "up"
    /\ Hook(Watcher, "started")
    /\ UNCHANGED <<serialized, state, callbacks, lock, taken, error, begun, ran>>

Running ==
    /\ At(Launcher, "start")
    /\ \A p \in Plugin \cup InoPlug \cup {Watcher} : stage[p] # "up"
    /\ state' = "running"
    /\ Go(Launcher, "idle")
    /\ UNCHANGED <<serialized, callbacks, lock, taken, error, ran, launch>>

-----------------------------------------------------------------------------
(* stop, by any thread, and by the launcher's _cleanup_after_failure       *)

MayStop(h) ==
    \/ At(h, "idle") /\ (serialized => pc[Launcher] \notin {"claim", "initialize", "start"})
    \/ At(h, "cleanup")

\* The state is already 'stopped': nothing to do.  A cleanup then re-raises.
StopAgain(h) ==
    /\ MayStop(h) /\ lock = NoThread /\ state = "stopped"
    /\ Go(h, "idle")
    /\ cause' = IF At(h, "cleanup") THEN NoError ELSE cause
    /\ UNCHANGED <<serialized, state, stage, callbacks, lock, taken, error, begun, ran>>

\* Under the lock, first the state and then the list.
StopEnter(h) ==
    /\ MayStop(h) /\ lock = NoThread /\ state # "stopped"
    /\ lock' = h
    /\ state' = "stopped"
    /\ Go(h, "take")
    /\ UNCHANGED <<serialized, callbacks, taken, error, ran, launch>>

\* Mutant: the list is kept.
StopTake_Keeps(h) ==
    /\ At(h, "take")
    /\ taken' = [taken EXCEPT ![h] = callbacks]
    /\ lock' = NoThread
    /\ Go(h, "callbacks")
    /\ UNCHANGED <<serialized, state, callbacks, error, ran, launch>>

StopTake(h) ==
    /\ At(h, "take")
    /\ taken' = [taken EXCEPT ![h] = callbacks]
    /\ callbacks' = <<>>
    /\ lock' = NoThread
    /\ Go(h, "callbacks")
    /\ UNCHANGED <<serialized, state, error, ran, launch>>

\* Mutant: an exception ends the loop.
RunCallback_Aborts(h) ==
    /\ At(h, "callbacks") /\ taken[h] # <<>>
    /\ LET e == Head(taken[h])
       IN  /\ ran' = [ran EXCEPT ![e] = @ + 1]
           /\ \/ taken' = [taken EXCEPT ![h] = Tail(@)] /\ UNCHANGED error
              \/ taken' = [taken EXCEPT ![h] = <<>>] /\ error' = [error EXCEPT ![h] = e]
    /\ UNCHANGED <<serialized, state, callbacks, lock, pc, launch>>

\* One callback, in the order of registration; the first exception is kept.
RunCallback(h) ==
    /\ At(h, "callbacks") /\ taken[h] # <<>>
    /\ LET e == Head(taken[h])
       IN  /\ ran' = [ran EXCEPT ![e] = @ + 1]
           /\ \/ UNCHANGED error
              \/ error' = [error EXCEPT ![h] = IF @ = NoError THEN e ELSE @]
    /\ taken' = [taken EXCEPT ![h] = Tail(@)]
    /\ UNCHANGED <<serialized, state, callbacks, lock, pc, launch>>

\* stop returns or raises first_error; a cleanup drops that and re-raises cause.
StopDone(h) ==
    /\ At(h, "callbacks") /\ taken[h] = <<>>
    /\ Go(h, "idle")
    /\ error' = [error EXCEPT ![h] = NoError]
    /\ cause' = IF h = Launcher THEN NoError ELSE cause
    /\ UNCHANGED <<serialized, state, stage, callbacks, lock, taken, begun, ran>>

-----------------------------------------------------------------------------
LauncherStep ==
    \/ Initialize \/ Reject \/ Claim
    \/ MakeWatcher \/ ConfigureWatcher \/ InitWatcher \/ Ready
    \/ \E e \in Module : InitModule(e)
    \/ \E e \in Plugin : InitPlugin(e)
    \/ \E e \in InoPlug : InitInoPlug(e)
    \/ \E e \in Plugin \cup InoPlug : Register(e) \/ SafeInit(e)
    \/ Start \/ StartWatcher \/ Running
    \/ \E e \in Plugin \cup InoPlug : AtStart(e)

StopStep(h) ==
    StopAgain(h) \/ StopEnter(h) \/ StopTake(h) \/ RunCallback(h) \/ StopDone(h)

Next == LauncherStep \/ \E h \in Thread : StopStep(h)

Spec == Init /\ [][Next]_vars

\* Hooks and callbacks return, as docs/runtime-contexts.md asks of them, so a call
\* that was made goes on; nobody is obliged to make one.
Fairness ==
    /\ WF_vars(~At(Launcher, "idle") /\ LauncherStep)
    /\ WF_vars(At(Launcher, "cleanup") /\ StopStep(Launcher))
    /\ \A h \in Thread : WF_vars(StopTake(h) \/ RunCallback(h) \/ StopDone(h))

FairSpec == Spec /\ Fairness

-----------------------------------------------------------------------------
\* When the runtime of a serialized launcher has stopped and no call is in
\* progress, whatever began to acquire resources was cleaned up exactly once,
\* failing hooks and callbacks and overlapping stops included ("Stop attempts
\* every callback once").
NothingLeftBehind ==
    serialized /\ (\A h \in Thread : At(h, "idle")) /\ state = "stopped" =>
        \A e \in begun : ran[e] = 1

\* No stop callback runs twice, not even when stop races with initialize or start.
RanAtMostOnce == \A e \in Extension : ran[e] <= 1

\* The lifecycle is one-shot when the launcher serializes: nothing leads out of
\* 'stopped'.
StoppedForGood == [][serialized /\ state = "stopped" => state' = "stopped"]_vars

\* With a serialized launcher a stop cleans up in the end, whoever called it and
\* however often.
EveryCleanupRuns ==
    \A e \in Extension : (serialized /\ e \in begun /\ state = "stopped") ~> (ran[e] = 1)

\* The runtime implements the lifecycle, its callbacks being the cleanups owed.
\* The lifecycle leaves unspecified what happens to a launcher that does not
\* serialize its calls.
Elements(q) == {q[i] : i \in DOMAIN q}
Owed == Elements(callbacks) \cup UNION {Elements(taken[h]) : h \in Thread}
Promised(S) == IF serialized THEN S ELSE {}

Lifecycle == INSTANCE RuntimeLifecycle
    WITH phase <- IF serialized THEN state ELSE "unspecified",
         holding <- Promised(Owed),
         released <- Promised({e \in Extension : ran[e] > 0})
ImplementsLifecycle == Lifecycle!Spec
=============================================================================
