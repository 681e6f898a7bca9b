--------------------------- MODULE GlobalLifecycle ---------------------------
(***************************************************************************)
(* The process-wide lifecycle of dwho.config, and contexts beside it.      *)
(*                                                                         *)
(* The main thread calls load_conf, which installs `stop` as the handler   *)
(* of SIGINT and SIGTERM, then start_plugins and start_inotify.  A signal  *)
(* interrupts it between any two steps, a running handler included; what a *)
(* handler raises is raised in the code that it interrupted.               *)
(*                                                                         *)
(* Contexts (dwho.runtime) on other threads may be given instances that    *)
(* are in the global registries too: the tests, the claims and the bringing *)
(* up of their `initialize` are modelled here, its cleanups in Runtime.    *)
(*                                                                         *)
(* A user of instances is the global lifecycle, which is Config, or a      *)
(* context.  Each has a configuration of its own, load_conf another one    *)
(* each time it reads its file.                                            *)
(***************************************************************************)
EXTENDS Naturals, Sequences, SequencesExt, FiniteSets

CONSTANTS
    Plugin, InoPlug,    \* the registries PLUGINS and INOPLUGS
    Shared,             \* those of their instances that every context is given
    Context,            \* the runtimes
    Config, NoOne,      \* the global lifecycle as a user of instances; nobody
    MaxLoads,           \* bound: calls of load_conf
    MaxOutside          \* bound: signals and contexts that initialize, together

Instance == Plugin \cup InoPlug
User == Context \cup {Config}
Watcher == 1..MaxLoads          \* _INOTIFY as made by the n-th load_conf
NoWatcher == 0

ASSUME GlobalAssumption ==
    /\ Plugin \cap InoPlug = {} /\ Shared \subseteq Instance /\ Shared # {}
    /\ Instance \cap Watcher = {}
    /\ NoOne \notin Instance \cup Context /\ Config \notin Context
    /\ MaxLoads \in Nat /\ MaxOutside \in Nat

VARIABLES
    step,        \* where the main thread is
    done,        \* the instances that its loop has handled
    doing, place,    \* the instance that each user's loop is at, and how far it is
    loads,       \* how often load_conf was called
    watching,    \* _INOTIFY
    threads,     \* DWHO_THREADS
    stops,       \* the frames of `stop` on the main thread's stack, innermost last
    signals,     \* how many signals were delivered
    conf,        \* the instances that each user's configuration makes enabled
    initialized, \* the instances whose `initialized` is set
    enabled,     \* the instances whose `enabled` is set
    owner,       \* _dwho_runtime of each instance
    at, left,    \* where each context's initialize is, and what it has left there
    started,     \* history: the instances and watchers that were started
    asked,       \* history: the instances that a configuration enables which their
                 \* init has read
    halfway,     \* history: the instances whose init was left, or met by another
                 \* user, after it had set `initialized` and not yet `enabled`
    crossed,     \* history: the instances whose init two users were in at once
    users,       \* history: who has brought an instance up
    known,       \* history: what was initialized when a context's tests began
    raced        \* history: the pairs of contexts whose claims overlapped

loop == <<step, done>>
inits == <<doing, place, conf>>
frames == <<stops, signals>>
flags == <<initialized, enabled>>
claims == <<owner, at, left, known, raced>>
history == <<started, asked, halfway, crossed, users>>
vars == <<loop, inits, loads, watching, threads, frames, flags, claims, history>>

Init ==
    /\ step = "rest" /\ done = {}
    /\ doing = [u \in User |-> NoOne] /\ place = [u \in User |-> "next"]
    /\ conf = [u \in User |-> {}]
    /\ loads = 0 /\ watching = NoWatcher /\ threads = <<>>
    /\ stops = <<>> /\ signals = 0
    /\ initialized = {}
    /\ enabled = Plugin             \* the defaults of the two constructors
    /\ owner = [e \in Instance |-> NoOne]
    /\ at = [r \in Context |-> "new"] /\ left = [r \in Context |-> {}]
    /\ started = {} /\ asked = {}
    /\ halfway = {} /\ crossed = {}
    /\ users = [e \in Instance |-> {}]
    /\ known = [r \in Context |-> {}] /\ raced = {}

\* What comes from outside the main thread.
Outside == signals + Cardinality({r \in Context : at[r] # "new"})

-----------------------------------------------------------------------------
(* init of an instance, by any user: it returns at once if `initialized`   *)
(* is set, else sets it and reads the configuration, `enabled` last        *)

\* User u is at e, and how far.
Turn(u, e, where) ==
    doing' = [doing EXCEPT ![u] = e] /\ place' = [place EXCEPT ![u] = where]

\* The call that u makes ends, by an exception or not, and its configuration goes.
Forget(u) == Turn(u, NoOne, "next") /\ conf' = [conf EXCEPT ![u] = {}]

\* Those whose init a user has begun and not finished.
Marked(u) == IF place[u] = "marked" THEN {doing[u]} ELSE {}
Begun(u) == IF place[u] = "init" THEN {doing[u]} ELSE Marked(u)

TestInit(u, e) ==
    /\ Turn(u, e, IF e \in initialized THEN "inited" ELSE "init")
    /\ halfway' = halfway \cup ({e} \cap UNION {Marked(v) : v \in User})
    /\ crossed' = crossed \cup ({e} \cap UNION {Begun(v) : v \in User})
    /\ UNCHANGED <<conf, flags, started, asked, users>>

Mark(u) ==
    /\ place[u] = "init"
    /\ initialized' = initialized \cup {doing[u]}
    /\ Turn(u, doing[u], "marked")
    /\ UNCHANGED <<conf, enabled, history>>

\* Mutant: the configuration can only enable.
Enabled_Kept(u, e) == {enabled \cup (conf[u] \cap {e})}
\* What init makes of `enabled`: a configuration that asks for the constructor's default
\* may do so by saying nothing of it.
Enabled(u, e) ==
    {(enabled \ {e}) \cup (conf[u] \cap {e})}
        \cup (IF e \in conf[u] <=> e \in Plugin THEN {enabled} ELSE {})

Configure(u) ==
    /\ place[u] = "marked"
    /\ enabled' \in Enabled(u, doing[u])
    /\ asked' = asked \cup (conf[u] \cap {doing[u]})
    /\ Turn(u, doing[u], "inited")
    /\ UNCHANGED <<conf, initialized, started, halfway, crossed, users>>

InitStep(u) == Mark(u) \/ Configure(u)

\* The init of an instance that overrides it may raise at any place and on every call.
InInit(u) == place[u] \in {"init", "marked", "inited"}

\* u leaves its call: what its init leaves undone stays undone.
Leave(u) ==
    /\ Forget(u)
    /\ halfway' = halfway \cup Marked(u)

\* Mutant: an instance of an earlier load_conf is left alone.
Skipped_Seen(u, e) == e \notin enabled \/ u \in users[e]
\* One that is not enabled is.
Skipped(u, e) == e \notin enabled

\* safe_init is called.
Using(u) ==
    /\ place[u] = "inited" /\ ~Skipped(u, doing[u])
    /\ users' = [users EXCEPT ![doing[u]] = @ \cup {u}]
    /\ UNCHANGED <<started, asked, crossed>>

-----------------------------------------------------------------------------
(* load_conf                                                               *)

\* The instances whose safe_init it has called.
Acquired == {e \in Instance : Config \in users[e]}

\* The main thread is there, and no handler interrupts it.
At(where) == step = where /\ stops = <<>>
Go(where) == step' = where /\ done' = {}

\* An exception leaves load_conf, start_plugins or start_inotify.  Nothing is
\* undone, and the launcher may call load_conf again.
Raise == Go("rest") /\ Leave(Config)

\* The handlers are installed before anything else.
LoadConf ==
    /\ At("rest") \/ At("loaded")
    /\ loads < MaxLoads
    /\ loads' = loads + 1
    /\ Go("parse")
    /\ UNCHANGED <<inits, watching, threads, frames, flags, claims, history>>

\* The watcher's section makes a new watcher, whose stop is registered next.
MakeWatcher ==
    /\ At("parse")
    /\ watching' = loads
    /\ Go("made")
    /\ UNCHANGED <<inits, loads, threads, frames, flags, claims, history>>

RegisterWatcher ==
    /\ At("made")
    /\ threads' = Append(threads, watching)
    /\ Go("watch")
    /\ UNCHANGED <<inits, loads, watching, frames, flags, claims, history>>

\* Reading and normalization, the watcher's section if there is one, the merge of
\* imported sections and the init of modules: what may raise before any plugin.
Prepare ==
    /\ At("parse") \/ At("watch")
    /\ \/ /\ \E c \in SUBSET Instance : conf' = [conf EXCEPT ![Config] = c]
          /\ Go("plugins")
          /\ UNCHANGED <<doing, place, halfway>>
       \/ Raise
    /\ UNCHANGED <<loads, watching, threads, frames, flags, claims, started, asked, crossed, users>>

Loading == stops = <<>> /\ step \in {"plugins", "inoplugs"}
Registry == IF step = "plugins" THEN Plugin ELSE InoPlug

InitInstance(e) ==
    /\ Loading /\ doing[Config] = NoOne /\ e \in Registry \ done
    /\ TestInit(Config, e)
    /\ UNCHANGED <<loop, loads, watching, threads, frames, claims>>

InitGoesOn ==
    /\ Loading
    /\ InitStep(Config)
    /\ UNCHANGED <<loop, loads, watching, threads, frames, claims>>

InitRaises ==
    /\ Loading /\ InInit(Config)
    /\ Raise
    /\ UNCHANGED <<loads, watching, threads, frames, flags, claims, started, asked, crossed, users>>

Skip(e) ==
    /\ Loading /\ place[Config] = "inited" /\ e = doing[Config] /\ Skipped(Config, e)
    /\ done' = done \cup {e}
    /\ Turn(Config, NoOne, "next")
    /\ UNCHANGED <<step, conf, loads, watching, threads, frames, flags, claims, history>>

\* A further load_conf calls safe_init again.
SafeInit ==
    /\ Loading
    /\ Using(Config)
    /\ \/ Turn(Config, doing[Config], "up") /\ UNCHANGED <<loop, conf, halfway>>
       \/ Raise
    /\ UNCHANGED <<loads, watching, threads, frames, flags, claims>>

\* at_stop is registered once safe_init has returned, in contrast to a context.
Register(e) ==
    /\ Loading /\ place[Config] = "up" /\ e = doing[Config]
    /\ threads' = Append(threads, e)
    /\ done' = done \cup {e}
    /\ Turn(Config, NoOne, "next")
    /\ UNCHANGED <<step, conf, loads, watching, frames, flags, claims, history>>

\* The loop is over: the watcher is initialized, which needs the inotify section
\* of this configuration, and its plugins follow, or load_conf returns.
EndOfLoop ==
    /\ Loading /\ doing[Config] = NoOne /\ Registry \subseteq done
    /\ \/ step = "plugins" /\ watching = loads /\ Go("inoplugs") /\ UNCHANGED <<inits, halfway>>
       \/ step = "plugins" /\ watching # NoWatcher /\ Raise
       \/ /\ step = "inoplugs" \/ watching = NoWatcher
          /\ Go("loaded") /\ Forget(Config) /\ UNCHANGED halfway
    /\ UNCHANGED <<loads, watching, threads, frames, flags, claims, started, asked, crossed, users>>

-----------------------------------------------------------------------------
(* start_plugins and start_inotify, when load_conf has returned            *)

StartPlugins ==
    /\ At("loaded")
    /\ Go("start")
    /\ UNCHANGED <<inits, loads, watching, threads, frames, flags, claims, history>>

\* The instances that are started, the watcher's after the others.
ToStart == enabled \cap (IF watching = NoWatcher THEN Plugin
                         ELSE IF Plugin \cap enabled \subseteq done THEN Instance
                         ELSE Plugin)

\* at_start, unless the instance has no autostart.
AtStart(e) ==
    /\ At("start") /\ e \in ToStart \ done
    /\ \/ /\ started' \in {started, started \cup {e}}
          /\ done' = done \cup {e}
          /\ UNCHANGED <<step, inits, halfway>>
       \/ started' = started \cup {e} /\ Raise
    /\ UNCHANGED <<loads, watching, threads, frames, flags, claims, asked, crossed, users>>

StartWatcher ==
    /\ At("start") /\ ToStart \subseteq done
    /\ started' = started \cup ({watching} \ {NoWatcher})
    /\ Go("serving")
    /\ UNCHANGED <<inits, loads, watching, threads, frames, flags, claims, asked, halfway, crossed, users>>

-----------------------------------------------------------------------------
(* stop.  A frame knows the position of its loop and which callbacks have    *)
(* returned since it began, under the handlers that interrupted it included. *)
(* A callback is one step: a signal inside one is as one before or after it. *)

Innermost == stops[Len(stops)]
Calling == stops # <<>> /\ Innermost.next <= Len(threads)

Signal ==
    /\ loads > 0 /\ Outside < MaxOutside /\ step # "down"
    /\ signals' = signals + 1
    /\ stops' = Append(stops, [next |-> 1, called |-> {}])
    /\ UNCHANGED <<loop, inits, loads, watching, threads, flags, claims, history>>

\* Mutant: what was called is removed from the list under the loop.
Remaining_Shrinks == RemoveAt(threads, Innermost.next)
\* The list is left as it is.
Remaining == threads

\* The loop calls the next element of the list as it is now.
CallbackReturns ==
    /\ Calling
    /\ stops' = [i \in DOMAIN stops |->
           [next |-> stops[i].next + (IF i = Len(stops) THEN 1 ELSE 0),
            called |-> stops[i].called \cup {threads[Innermost.next]}]]
    /\ threads' = Remaining
    /\ UNCHANGED <<loop, inits, loads, watching, signals, flags, claims, history>>

\* Nothing catches what a callback raises, so every frame and the call that the
\* signal interrupted are left.
CallbackRaises ==
    /\ Calling
    /\ stops' = <<>>
    /\ Go(IF step = "serving" THEN "down" ELSE "rest")
    /\ Leave(Config)
    /\ UNCHANGED <<loads, watching, threads, signals, flags, claims, started, asked, crossed, users>>

StopReturns ==
    /\ stops # <<>> /\ ~Calling
    /\ stops' = Front(stops)
    /\ UNCHANGED <<loop, inits, loads, watching, threads, signals, flags, claims, history>>

-----------------------------------------------------------------------------
(* DWhoRuntime.initialize of a context, with a configuration of its own    *)

Enter(r, where, S) == at' = [at EXCEPT ![r] = where] /\ left' = [left EXCEPT ![r] = S]

\* The loop that the context is in has handled e: it goes on or comes to its end.
Handled(r, e, then) ==
    IF left[r] = {e} THEN Enter(r, then, Shared) ELSE Enter(r, at[r], left[r] \ {e})

BeginTests(r) ==
    /\ at[r] = "new" /\ Outside < MaxOutside
    /\ Enter(r, "test", Shared)
    /\ known' = [known EXCEPT ![r] = initialized \cap Shared]
    /\ raced' = raced \cup {{r, q} : q \in {c \in Context \ {r} : at[c] \in {"test", "claim"}}}
    /\ UNCHANGED <<loop, inits, loads, watching, threads, frames, flags, owner, history>>

\* Mutant: only `initialized` is tested.
Fresh_Unclaimed(e) == e \notin initialized
\* An instance that is neither claimed nor initialized.
Fresh(e) == owner[e] = NoOne /\ e \notin initialized

\* One that is not fresh raises ValueError: nothing has changed then.
Test(r, e) ==
    /\ at[r] = "test" /\ e \in left[r]
    /\ IF Fresh(e) THEN Handled(r, e, "claim") ELSE Enter(r, "rejected", {})
    /\ UNCHANGED <<loop, inits, loads, watching, threads, frames, flags, owner, known, raced,
                   history>>

Claim(r, e) ==
    /\ at[r] = "claim" /\ e \in left[r]
    /\ owner' = [owner EXCEPT ![e] = r]
    /\ Handled(r, e, "init")
    /\ \E c \in SUBSET Shared : conf' = [conf EXCEPT ![r] = IF at'[r] = "init" THEN c ELSE {}]
    /\ UNCHANGED <<loop, doing, place, loads, watching, threads, frames, flags, known, raced,
                   history>>

ContextInit(r, e) ==
    /\ at[r] = "init" /\ doing[r] = NoOne /\ e \in left[r]
    /\ TestInit(r, e)
    /\ UNCHANGED <<loop, loads, watching, threads, frames, claims>>

ContextInitGoesOn(r) ==
    /\ at[r] = "init"
    /\ InitStep(r)
    /\ UNCHANGED <<loop, loads, watching, threads, frames, claims>>

\* An instance that is enabled is brought up, and the context goes on to the next.
BringUp(r, e) ==
    /\ at[r] = "init" /\ place[r] = "inited" /\ e = doing[r]
    /\ \/ Using(r)
       \/ Skipped(r, e) /\ UNCHANGED <<started, asked, crossed, users>>
    /\ Handled(r, e, "up")
    /\ IF left[r] = {e} THEN Forget(r) ELSE Turn(r, NoOne, "next") /\ UNCHANGED conf
    /\ UNCHANGED <<loop, loads, watching, threads, frames, flags, owner, known, raced, halfway>>

\* init, safe_init or what comes before them raises, and initialize with it.
ContextFails(r) ==
    /\ at[r] = "init"
    /\ Using(r) \/ UNCHANGED <<started, asked, crossed, users>>
    /\ Enter(r, "failed", {})
    /\ Leave(r)
    /\ UNCHANGED <<loop, loads, watching, threads, frames, flags, owner, known, raced>>

-----------------------------------------------------------------------------
LauncherStep ==
    \/ LoadConf \/ MakeWatcher \/ RegisterWatcher \/ Prepare \/ EndOfLoop
    \/ InitGoesOn \/ InitRaises \/ SafeInit
    \/ \E e \in Instance : InitInstance(e) \/ Skip(e) \/ Register(e) \/ AtStart(e)
    \/ StartPlugins \/ StartWatcher

StopStep == CallbackReturns \/ CallbackRaises \/ StopReturns

ContextStep(r) ==
    \/ BeginTests(r) \/ ContextInitGoesOn(r) \/ ContextFails(r)
    \/ \E e \in Shared : Test(r, e) \/ Claim(r, e) \/ ContextInit(r, e) \/ BringUp(r, e)

Next == LauncherStep \/ Signal \/ StopStep \/ \E r \in Context : ContextStep(r)

Spec == Init /\ [][Next]_vars

-----------------------------------------------------------------------------
(* Properties                                                              *)

\* However signals interrupt each other, a stop ends without having called some
\* registered callback only if that one is at or behind the place where a callback
\* raised: nothing isolates failures (config.py:46).
StopReaches ==
    [][\A n \in DOMAIN stops : n > Len(stops') =>
          \A i \in DOMAIN threads :
             \/ threads[i] \in stops[n].called
             \/ Calling /\ i >= stops[n].next]_vars

\* What was started can be stopped, after failed and repeated loads too, unless a
\* context was in its init at the same time, which may enable what load_conf has
\* skipped; and a call of load_conf leaves at most one instance with resources but
\* no registered at_stop, although registration comes after safe_init.
Covered ==
    /\ started \subseteq ToSet(threads) \cup crossed
    /\ Cardinality(Acquired \ ToSet(threads)) <= loads

\* An instance is brought up or started only if a configuration enables it that its
\* init has read, which is not the one in force: a later load_conf reads its file again
\* and can neither enable nor disable it, as init returns at once.  The exception is a
\* plugin whose init was left half-done, by its own exception or by that of a signal's
\* stop, or was met half-done by another user: it is then what its constructor says,
\* while an inotify plugin is not.
DisabledStaysDown ==
    \A e \in Instance :
       users[e] # {} \/ e \in started => e \in asked \cup (halfway \cap Plugin)

\* Two contexts bring up the same instance only if their claims overlapped, and
\* no context brings up what load_conf, or another, had already initialized.
OneOwner ==
    /\ \A e \in Instance : \A r, q \in users[e] \cap Context : r = q \/ {r, q} \in raced
    /\ \A e \in Instance : \A r \in users[e] \cap Context : e \notin known[r]
=============================================================================
