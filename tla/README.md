# A verification development of dwho

`dwho` is a Python library for daemons: sessions for applications, a runtime
that brings modules and plugins up and down, a file watcher, push
notifications, adapters for Redis and SQL, a plugin loader and a terminal
interface. This directory holds TLA+ modules translated from its source
(`src/dwho/`), TLC configurations that model-check them, and proofs that TLAPS
checks. `PROJECT.json` maps each definition to the lines it models, lists the
hazards of the code and pairs each property with a plausible bug that breaks it.

- [1. Inventory](#1-inventory): the parts of the system
- [2. The modules](#2-the-modules): state and actions against the code
- [3. The runs](#3-the-runs): what is checked, and the bounds
- [4. Fairness](#4-fairness)
- [5. The proofs](#5-the-proofs)
- [6. Assumptions](#6-assumptions)
- [7. What the models say of the code](#7-what-the-models-say-of-the-code)
- [8. What is not modelled](#8-what-is-not-modelled)
- [9. Plan](#9-plan)

## 1. Inventory

Paths are relative to `src/dwho/`.

**Session manager** (`sessions/__init__.py`). `SessionManager` has no state but
its TTLs and clock; `create`, `read`, `renew` and `revoke` compute expiries and
call a `SessionBackend`: `create(key, value, ttl)` if absent, `read`, `touch`
which only extends, `delete`. Request threads share one manager. Hard: an
operation is several clock readings and backend calls, and revocations,
expiries and other renewals come in between. Correct when a revoked or expired
session never comes back, a session lives as long as callers were told, never
beyond its absolute lifetime, and a collision never overwrites a session.

**Memory backend** (`sessions/memory.py`). A dictionary with a capacity under an
RLock; reads the clock itself, deletes expired entries lazily, purges when full.
Correct when it is never over its capacity and implements the same contract.

**Redis backend** (`sessions/redis.py`). One Redis command for each call, the
touch a Lua script; finite timeouts, so a command may be executed after its
caller gave up. Correct when a late or lost command breaks none of the above.

**Context runtime** (`runtime.py`, with the hooks of `classes/plugins.py`,
`classes/inoplugs.py` and `classes/modules.py`). State: `state`, `_callbacks`,
`_stop_lock`. `initialize` makes and configures the watcher, initializes
modules, plugins, the watcher's own plugins; `start` starts them; `stop` takes
the list of callbacks under the lock and runs it. Hard: every hook may raise, a
failure cleans up by the same `stop`, stops overlap, and a stop may race with
`initialize`. Correct when whatever began to acquire is released exactly once,
and a stopped runtime stays so.

**Inotify** (`classes/inotify.py`). The watcher thread takes add and remove
commands from a queue and records a configuration for each watched directory in
`cfg_paths`; the notifier thread dispatches events to a worker pool, whose
workers call a copy of a registered plugin; `stop` runs on a third thread. Hard:
these share `cfg_paths`, `scan_event`, plugins and the watch manager's own
dictionaries without locks. Correct when each call works with the configuration
governing its event, nested paths win, a removal finds its records, and the
thread stops.

**Push notifications** (`classes/notifiers.py`). `DWhoPushNotifications` loads
named configurations, and delivers legacy calls (errors logged) or strict
`send`s (errors raised) to the handlers registered for a URI scheme, under a
lock that `load` and `reset` do not take; asynchronous handlers run on a pool
that a call starts and drains. The subprocess handler spawns a child, with two
reader threads and a deadline; the Redis handler uses an adapter of its own; the
HTTP handler makes one request. Correct when a strict send that returns was
acknowledged by every handler, queued calls are made with their own variables,
nobody keeps the lock, and no child is left behind.

**Redis adapter** (`adapters/redis.py`). Connections by name to several servers;
a call loops over the selected ones with one or two commands for each, or with
the pages of a SCAN. Hard: a failure half-way, EXISTS before GET, HSET before
EXPIRE, empty and repeated pages, a disconnection by another thread. Correct
when an error is never swallowed, no server skipped and no key that was there
throughout left out of a listing.

**Plugin loader** (`classes/libloader.py`). `load_dir` executes each Python file
of a directory once and registers it in `sys.modules`. Correct when a failed
load can be retried and a complete module is returned.

**Per-thread database connections** (`classes/abstract.py`), used by the SQL
objects (`classes/objects.py`). `_db` maps thread identities to connections; the
setter closes what dead threads left. Hard: identities are used again, there is
no rollback, and a connection may drop. Correct when no thread's connection is
closed by another, none leaks, and no transaction is shared.

**SQL statements** (`classes/objects.py`). Builders that turn the arguments of a
call into a text with places and the parameters bound to them by position. Hard:
empty lists, NULL, LIKE's own characters and the order of parameters. Correct
when the statement reads or changes exactly the rows that were described.

**Global lifecycle** (`config.py`, with the hooks of `classes/plugins.py` and
`classes/inoplugs.py`). State: `DWHO_THREADS`, `_INOTIFY`, the registries and the
flags of their instances. `load_conf` installs `stop` as signal handler, makes
the watcher and brings plugins up; `start_plugins` and `start_inotify` start
them. Hard: signals interrupt all of this and each other, every hook and callback
may raise and nothing is undone, `load_conf` may be called again, and runtimes
may be given the same instances. Correct when what was started can be stopped, a
stop misses nothing but what a failure hides, an instance is used only where a
configuration that its `init` read enables it, and an instance has one owner.

**Textual dashboard** (`tui/textual/dashboard.py`, `service.py`). A table with
search, selection and details, filled by background calls; messages arrive after
the rows they speak of. Correct when details are current, the selection is kept
and the dashboard is never busy for ever.

**Others**: configuration loading and schema (only its outcome is modelled), the
parameter helper, encryption helper, prompts and widgets, the command line. See
section 8.

How they interact: the runtime owns the watcher and the registries and runs
their hooks; the watcher calls plugins on its pool; plugins and applications
call notifications, whose Redis handler uses the Redis adapter; applications
call the session manager, which calls a backend; the dashboard calls an
application's service on a worker thread. The global lifecycle and the runtimes
share the instances of the registries and the flags in them.

## 2. The modules

| module | of | composed with |
| --- | --- | --- |
| `SessionContract` | what a `SessionBackend` promises | abstract |
| `SessionManager` | `sessions/__init__.py` | EXTENDed by the backends |
| `MemorySessions` | manager over `sessions/memory.py` | implements `SessionContract` |
| `RedisSessions` | manager over `sessions/redis.py` | implements `SessionContract` |
| `RuntimeLifecycle` | what docs/runtime-contexts.md promises | abstract |
| `Runtime` | `runtime.py` | implements `RuntimeLifecycle` |
| `Inotify` | `classes/inotify.py` | |
| `PushNotifications` | the dispatcher in `classes/notifiers.py` | |
| `Subprocess` | the subprocess handler | |
| `RedisAdapter` | `adapters/redis.py` and the Redis handler | |
| `LibLoader` | `classes/libloader.py` | |
| `Statements` | the builders of `classes/objects.py` | EXTENDed by `ThreadDB` |
| `ThreadDB` | `classes/abstract.py`, the methods of `classes/objects.py` | runs `Statements` |
| `GlobalLifecycle` | `config.py` and the claim of `runtime.py` | |
| `Dashboard` | `tui/textual/dashboard.py`, `service.py` | |
| `MemorySessionsProofs`, `RedisSessionsProofs` | proofs | |
| `RuntimeProofs`, `GlobalLifecycleProofs` | proofs | |
| `LibLoaderProofs` | proofs | |
| `ThreadDBProofs` | proofs | `ThreadDB` and its `Statements` |
| `NotifierProofs` | proofs | `PushNotifications`, `Subprocess`, `RedisAdapter` |
| `EventProofs` | proofs | `Inotify`, `Dashboard` |
| `MC*` | constants of the runs | |

A definition with an underscore in its name (`TouchStore_Shortens`, say) is the
definition of the same stem with a plausible bug, which breaks the property that
`PROJECT.json` pairs it with; no specification uses it.

**Sessions.** `pc[c]` says where the call of client `c` is and `call[c]` holds
its locals: `now`, the computed `abs` expiry and `ttl`, and the number of draws.
`BeginCreate` is `create` up to its first backend call; `CreateCollides`,
`CreateFull`, `CreateCheck` and `CreateStore` are the outcomes of
`MemorySessionBackend.create`, cut in two because it reads the clock in the test
and again for the expiry, with `lock` held in between; `BackendRead` with
`renewing` false or true opens `read` and `renew`; `CheckLifetime`, `ComputeTTL`
and `ExpireSession` are the rest of them; `TouchCheck` and `TouchStore` the two
halves of `touch`. `entry` is `_values` reduced to expiries. `record`, `granted`,
`denied`, `revoked` are history. In `RedisSessions` each backend call is one
atomic command; the `...Lost` actions raise in the caller and put the command in
`inflight`, where `ExecuteLate` may execute it at any later time. A late DEL
counts as a revocation when it is executed.

**Runtime.** `stage[e]` is how far the launcher has brought an extension; each
hook is an action that succeeds or raises (`Hook`); `callbacks`, `state` and
`lock` are the fields; `taken[h]` and `error[h]` the locals of a `stop`.
`Raise` leads to `_cleanup_after_failure`, which is the same `stop` followed by
the re-raise of `cause`. `serialized`, chosen once, says whether stops wait for
the launcher's calls, as docs/runtime-contexts.md asks; both are explored.

**Inotify.** `ThreadStep` is `run`, cut at each access of shared state;
recording and forgetting go one directory at a time. `watches` is the kernel's
side, `cfgPaths` the program's. `Stop*` are the four statements of `stop`. The
watch manager answers a command, fails with the `WatchManagerError` that the
code logs (`AddWatchFails`, `RemWatchFails`), or raises something else, which
leaves `run` (`AddWatchBreaks`, `RemWatchBreaks`: `pc` is "broken"): its walk of its
dictionary of watches, which it changes itself and the notifier's thread too, may
raise RuntimeError. `pc` is "lost" after the KeyError of `ForgetFails`.

**PushNotifications.** `pc[c]` follows a call from acquiring the lock, through
`_select`, `_run`, the rendering of each entry and each handler, to the draining
of the pool; the loader thread publishes an entry field by field (`tags`, then
`notifiers`), without the lock, as the code does. Variables are objects in memory:
a call has one, in which each delivery sets `_NAME_` (`nvars[c]`, `objects`), a handler
is given a copy (`Copied`, the deepcopy of `_run_notifiers`), a queued task keeps the
reference, and a handler may write to what it is given, now or when it is called from
the pool. Without the copy, a task's object would be the call's.

**Subprocess.** `stage` follows one call: `Prepare`, the spawn, each reader, the wait, the
cleanup (SIGTERM, SIGKILL), the reaping and the joins, each of which may fail;
the child and the clock are the environment.

**RedisAdapter.** Each client makes calls of a chosen method on chosen servers;
`phase` says where its call is, `todo` is the loop. Each HSET writes a field of its own, and
`wanted` are the fields that `hget_key` and `hdel_key` name, so that a hash may be there
without the field (`Finds`, `Removed`). A command is `Answered`, `Lost` (carried out,
answer lost) or `Refused`. `ExistsCommand`, `GetCommand` and `HasKey` are the reads, `ScanCommand`
one page of `keys`: any part of the keys, empty ones included, while `Scan` says
what the cursor must have shown by its end. A send has an adapter of its own that
`Disconnect` closes; `ConnectName` and `DisconnectName` are those of the shared one.

**LibLoader.** `NextFile`, `Register`, `Executed` / `ExecutionFails`, `Forget`,
`Fetch`: the body of the loop cut at each access of `sys.modules`.

**ThreadDB.** `conn[i]` is `_db[i][name]['conn']`; `Connect` is `db_connect`,
`Query` and `Commit` the statement, `Disconnect` `db_disconnect`, and the sweep
is the setter's loop, one identity a step. `Drop` is the database's. `Query` runs
the statement of any `Request`, and `stray` records whether it did what was asked.

**Statements.** `PrepareCondition` and `PrepareCondLike` are the builders, `Select`,
`Search`, `Create`, `Update` and `Delete` the methods. What follows WHERE is a sequence
of tokens: the clauses, each with its number of places, and the words and parentheses
that the code puts between and around them (`Join`, `Braced`). The database is external.
It reads the tokens from left to right, AND before OR, and takes the next parameters
for the places of each clause (`Parse`, `Read`, `Evaluated`), with SQL's NULL and LIKE;
`Runs` says that the statement has no syntax error and a parameter for each place, and
`Effect` what it does to a row. `Asked` is what the arguments describe, said without
statements, and `AsAsked` compares the two on every row. A scalar None asks for the rows
with NULL. A list asks for the rows with one of its values, and None in it adds no row,
which is how the code passes it on (`objects.py:64`) and what IN makes of it.

**GlobalLifecycle.** `step` is where the main thread is and `done` its loop over a
registry. `doing` and `place` say which instance each user, the global lifecycle or a
context, is at, and how far: `init` tests `initialized` (`TestInit`), sets it (`Mark`)
and takes `enabled` from the configuration (`Configure`), or raises at any of these places;
then come `safe_init` (`SafeInit`) and the registration of `at_stop` (`Register`). A
signal is possible between any two, and so is another user's step. `conf` is the
configuration of each user: every `load_conf` reads its file again, and every context
has one of its own. `stops` is the stack of `stop` frames: `Signal` pushes one,
`CallbackReturns` lets the innermost go on, `CallbackRaises` unwinds them all and the
code that they interrupted, as nothing catches. Contexts test (`Test`), claim (`Claim`)
and then, one at a time, initialize and use the shared instances (`ContextInit`,
`ContextInitGoesOn`, `BringUp`), or fail (`ContextFails`).

**Dashboard.** `Render` is `_render_rows` with the messages it may post; `Search`,
`MoveCursor`, `Highlighted` are the handlers; `Perform`, `Answer`, `Failed`, `Done`
the life of a background call.

## 3. The runs

Each run's configuration has its name. Distinct states are those of a complete
search.

| run | states | checks |
| --- | --- | --- |
| `MemorySessions` | 390,214 | `GrantWithinLifetime`, `GrantHonoured`, `CapacityRespected`, `ImplementsContract` |
| `RedisSessions` | 494,140 | `GrantHonoured`, `ImplementsContract` |
| `Runtime` | 22,622 | `NothingLeftBehind`, `RanAtMostOnce`, `EveryCleanupRuns`, `ImplementsLifecycle` |
| `GlobalLifecycle` | 2,015,020 | `Covered`, `DisabledStaysDown`, `OneOwner`, `StopReaches` |
| `Inotify` | 418,835 | `CallsIsolated`, `AtMostOneLate`, `RemovalFindsRecords`, `ThreadStops`, `ScanSettles` |
| `InotifyNested` | stops at a counterexample | `NestedWins` (section 7) |
| `PushNotifications` | 201,857 | `StrictDelivers`, `OwnVariables`, `QueuedAreCalled`, `CallsReturn` |
| `Subprocess` | 2,590 | `ChildReaped`, `TrueMeansSuccess`, `CallReturns` |
| `LibLoader` | 424,129 | `FailedRemoved`, `ExecutesOnce` |
| `Dashboard` | 138,452 | `DetailsCurrent`, `SelectionKept`, `BusyEnds` |
| `ThreadDB` | 572,868 | `NoLeak`, `StatementsAsAsked`, `LiveKept`, `OwnTransaction`, `SweepComplete` |
| `RedisAdapter` | 982,704 | `HashExpires`, `ReturnedEverywhere`, `MissIsReal`, `KeysComplete` |

Each property's comment in its module says what it means and which code it is
about. The bounds, and why they are enough:

- `MemorySessions`: two clients and two tokens, enough for one renewal against
  another call and for a create against a full store of one place (`Capacity`);
  two ticks to a second, so that readings fall inside a second; seven ticks
  (`MaxClock`) take a session of 3 s from its creation past its end. Tokens are
  used once, so two are two creates. Clients and tokens are interchangeable
  (symmetry; only safety is checked). Deadlock is checked: `Tick` ends at
  `MaxClock`, but calls can always be made.
- `RedisSessions`: the same with sessions of 2 s, five ticks and one lost call
  (`MaxLost`): one late command already meets every state that the other client
  can put the key in. Half seconds matter here too: with whole ones, no renewal
  could be late enough to shorten a deadline.
- `Runtime`: one module, one plugin, a watcher with one plugin of its own, two
  further threads that stop. One of each kind takes every branch; two stoppers
  and the launcher make three overlapping stops.
- `Inotify`: a parent directory, a nested one and a sibling that the parent's
  filter excludes; three commands (`MaxCommands`: add, add, remove) and two
  events (`MaxEvents`) for two workers, so that two calls overlap.
  `InotifyNested` needs two commands.
- `PushNotifications`: two names, two schemes (one with two handlers, one with a
  legacy-only handler), one caller, a loader and a worker: the lock excludes
  other callers, so what races with a call is the loader and the worker. Two
  calls (`MaxCalls`), so that one meets what the last left behind; two entries
  and two resets (`MaxChanges`).
- `Subprocess`: two readers and one call; nothing is bounded but the codes.
- `LibLoader`: two threads, two files, two loads each (`MaxLoads`): a retry after
  a failure on either thread, in parallel with the other.
- `Dashboard`: three rows, two versions (`MaxVersion`), two calls (`MaxCalls`), and
  two messages under way (`MaxQueue`), enough for one of an earlier table.
- `ThreadDB`: three threads over two identities, so that one is used again;
  three connections (`MaxConns`) and a statement of each thread (`MaxWrites`).
  Its statements are those of 4,846 requests over two columns: lists of up to two
  values, NULL alone and in lists, and searches for every text of up to two characters (`MaxLength`)
  of an ordinary one and the three that LIKE gives a meaning (`Char`). Two columns
  tell the order of parameters apart, and two characters an escape from what it
  escapes.
- `GlobalLifecycle`: one plugin, shared with the contexts, and one plugin of the
  watcher; two calls of `load_conf` (`MaxLoads`), each with a configuration of its own,
  as what the first leaves behind is met by the second; and of what comes from outside
  the main thread two (`MaxOutside`): two signals, one of which interrupts the handler of
  the other, a signal and a context, or two contexts. The bound of `Covered`, one instance
  a load, says most at the first of them, as there are two instances; the theorem has it
  for any number. Contexts are interchangeable (symmetry; only safety).
- `RedisAdapter`: two servers, two clients, a call of each (`MaxClientCalls`): every pair
  of methods against each other, disconnections and expiries; three keys and pages
  of any size, so that a scan takes several while another client writes.

`CHECK_DEADLOCK FALSE` stands where the system may really stop, or stops at a
bound on what the environment does: a watcher that is stopped, a call that is
done, a dashboard that was closed, threads that are dead.

## 4. Fairness

Fairness is assumed of the program's own threads once they have something to
do, never of callers and almost never of the environment.

- `Runtime`: a call that was made goes on, which assumes that hooks and callbacks
  return (docs/runtime-contexts.md asks this of them). Weak fairness suffices:
  a cleanup waits for `lock` only between two steps of another stop.
- `Inotify`: weak fairness of the watcher thread: its `get` has a timeout of half
  a second. Nothing of callers, workers or the kernel.
- `PushNotifications`: a call that holds the lock goes on and the worker works,
  which assumes that handlers return.
- `Subprocess`: the caller is scheduled, deadlines pass and signals are delivered;
  that the child exits or closes its output is not assumed.
- `Dashboard`: Textual's loop handles messages, and a background call ends
  (docs/textual.md leaves its deadline to the application).

The session, loader, database, adapter and global lifecycle modules state safety
only: nothing in that code must eventually happen beyond the return of a call
that waits for nothing but a server or a lock held over straight-line code.

## 5. The proofs

TLAPS checks eight modules for all constants that satisfy the named assumptions;
TLC evaluates the assumptions on the runs. Each invariant below is inductive:
it holds initially, every step keeps it, and the theorems follow from it. Two of
the modules hold the proofs of components that work together: the notifications
with the two handlers that have a module of their own, and the two parts that
react to events.

**MemorySessionsProofs**: any finite sets of clients and tokens, any capacity,
TTLs and clock resolution (`SessionAssumption`, `MemoryAssumption`). The
inductive invariant is

    IInv == TypeOK /\ LockInv /\ CallInv /\ StoreInv

`LockInv` says that the lock is held exactly between the two halves of `create`
and `touch`; without it, that a `TouchStore` finds the entry its check saw does
not follow. `CallInv` says what the locals of a call in progress imply of the
store: the `abs` it holds is what is recorded, and `now + ttl` does not pass it
(this is where rounding down to seconds is used, `RenewalBound`). `StoreInv`
puts together the properties, which need each other: a token that was never
stored left no trace, a token seen gone is not stored, and an unrevoked grant
that is not over finds its entry. The theorems `TypeCorrect`, `NeverResurrected`,
`GrantsHonoured`, `GrantsWithinLifetime` and `GrantsOnlyLive` follow. `CapacityKept`
needs a separate invariant (`RoomStep`): a create in progress has reserved room
that no other step can take, by the lock alone. `RefinesContract` shows that each
step is one of `SessionContract` or a stutter (`StepImplementsContract`).

**RedisSessionsProofs**: any number of clients, tokens, and commands that arrive
late. Without a lock there is no counterpart of `LockInv`, and none is needed, as a
command is atomic. In its place stands `LateInv`: a SET still on its way is the
only one for its token, which was never stored. It is what keeps a late SET from
overwriting a session, and holds because a token is drawn for one create. A late
touch only extends an entry that is there, to no later than its command said.
`LocalsInv` is the counterpart of `CallInv`.
`GrantsHonoured` and `GrantsWithinLifetime` follow, and `RefinesContract`: a late
command is a step of `SessionContract` as well, its renewal or its revocation.

**RuntimeProofs**: any registries and any number of stopping threads
(`RuntimeAssumption`). The invariant is

    IInv == TypeOK /\ PlaceInv /\ AccountInv /\ StoppedInv /\ CleanupInv

`PlaceInv`: a callback is in at most one of the list, what one stop has taken,
and what was run; it needs that lists have no repetitions and that an extension
whose hook registers is in none of these yet. `AccountInv`: what has begun to
acquire is in one of them at least. `StoppedInv`: with a serialized launcher, a
stopped runtime's list is empty or about to be taken. Every step is one of four
(it moves nothing, registers, takes or runs: `LauncherEffect`, `StopEffect`), so
each part is proved over four cases. `CallbacksRunOnce`, `AllCleanedUp` and
`NeverRestarts` follow. The first does not assume a serialized launcher.

`RefinesLifecycle` is the safety half of `ImplementsLifecycle`. It needs `PhaseInv`
besides: with a serialized launcher, `state` is that of the call in progress, and
'stopped' while a stop has something to run. Each step is then one of
`RuntimeLifecycle`: `Claim`, `Ready`, `Start` and `Running` advance, a registration
acquires because `PlaceInv` has the callback nowhere yet, `StopEnter` stops,
`RunCallback` releases, and `StopTake` only moves what is owed.

**GlobalLifecycleProofs**: any registries, contexts, loads and signals. The invariant is

    IInv == TypeInv /\ InitType /\ FrameInv /\ CrossInv /\ DisabledInv /\ CoverInv
            /\ WatcherInv /\ AcquiredInv /\ ClaimInv

`FrameInv` says that a frame of `stop` has called all that its loop has passed; it needs
that the list only grows while frames are on the stack, and gives `StopReachesAll`.
`DisabledInv`: what no configuration that was read enables, and was not left or met
half-way through its `init`, is used by nobody; and such an instance has `enabled` set
only if it is a plugin whose `init` nobody has finished, as its constructor left it.
It holds through the loads however their configurations differ, because an `init` that
found `initialized` set changes nothing: `DisabledIsNotUsed`. `CoverInv` carries what
each loop has handled to the next one, through the order in which `load_conf` runs them:
an instance that was skipped stays as it is (`Quiet`, `QuietKept`) unless another user
was in its `init` at the same time (`CrossInv`), and one that is enabled was registered.
`AcquiredInv` counts what was acquired and not registered, an instance a load, where the
one that is about to be registered does not count until the load fails:
`StartedIsCovered`. `ClaimInv` says that of two contexts that have begun and did not
overlap, one is too late: all it is to be given is claimed, so that its tests will fail.
`OwnedByOne` follows.

**NotifierProofs**, the dispatcher: any callers, names, schemes and handlers.
`OneHolds`, that exactly the caller between selection and end has the lock, is
inductive with the types and gives `OneCallAtATime`. `ObjectsInv` speaks of the objects
in memory: the one of a task has its name, was written to by no other handler
(`TasksOwn`), is no other task's (`OneEach`), and is none that a delivery still to come
will refer to (`Coming`), while the one of a call was written to by no handler
(`CallsOwn`). It rests on the copy being a new object (`Copied`), and gives
`HandlersSeeOwnVariables`.
`SendsInv` speaks of calls under which neither `load` nor `reset` ran: what is
selected stays deliverable (`Selecting`, `Delivering`), and of the name at hand each
handler has acknowledged or is still in the queue (`Handling`); what the results say
(`Told`) follows when the queue and the names are used up, which is `SendsDeliver`.
Other callers cannot disturb it (`SendFrame`, `CallAlone`).

The subprocess handler: any readers and exit codes. `ChildPlace` says what the child
may be at each step, `Waited` what a call without a failure knows of it. The
theorems are `NoChildLeft` and `TrueIsSuccess`.

The Redis adapter: any servers, clients and calls of each. The invariant is

    AdapterInv == AdapterTyped /\ ServerInv /\ \A c \in Client : ClientInv(c)

A client's part says which commands it can be between (`Between`), that the call to
come has left no trace (`Answering`), and what the loop has done so far, method by
method: a write has been carried out on the servers visited and on no other
(`Writing`), a read found them without what it reads (`Reading`), and a hash written with
an expiry expires unless its second command is to come (`Expiring`). The steps of other
clients keep it (`FrameKeeps`): a client's locals are its own, and what a command of
another does to the servers the part allows for (`ServersStep`). TLC
checked this invariant with two clients of one call and with one of two before it was
proved. The theorems are `HashesExpire`, `WritesEverywhere`, `MissesAreReal` and
`KeysAreComplete`. `MissesAreReal` says what None is worth: all selected servers were
without the string or the field, or the one that had the key was, as no server is asked
after it.

**EventProofs**, the watcher: any tree of directories, workers, commands and events.
The invariant is

    WatchInv == ThreadTyped /\ WorkTyped /\ CommandInv /\ RecordsAbove /\ LateInv /\ WorkInv

`RecordsAbove`: the configuration of a directory is that of a path at or above it, for
which `CommandInv` has to say that a command only walks what lies below its path. It
also says that a removal in progress finds its records unless `stop` has emptied them:
`RecordsAreFound`. That is about the KeyError of `del` only; the exceptions of the watch
manager end the thread without a stop (section 7). `LateInv` gives `OneLateCommand`, and `WorkInv` with `RecordsAbove`
`PluginsIsolated`. TLC checked it on the run of `Inotify`. Of the tree the assumption
says only that of some directories above another the innermost exists.

The dashboard: any keys and bounds. `TableInv` puts the cursor on a row (`OnRow`), and
says that the details are of a row of this table (`Panel`) and that, where they are not
of the cursor's, the last message under way names the cursor's row (`Pending`). Which
rows match is a recursive function over the rows (`Matching`). What it returns is an
induction over data, which is reached here by the least number that fails
(`LeastNumber`, `Counting`), from the well-foundedness of the numbers: that the function
exists (`FilterExists`), and that it lists exactly the matching rows. The theorems are
`DetailsAreCurrent` and `SelectionIsKept`.

**ThreadDBProofs**: any threads, identities, connections and calls. The invariant is

    IInv == TypeInv /\ ThreadInv /\ StoreInv /\ PendingInv /\ CommitInv /\ SweepInv

`ThreadInv`: no two live threads have one identity; `StoreInv`: no connection is
recorded for two identities and none that is open for none. Together they
make a connection a live thread's own (`OwnConnection`, `OthersConnection`).
`PendingInv` places each pending statement on the connection of its thread, unless
that is dead; `CommitInv` says that a thread about to commit still has its
statement there; `SweepInv` that what a sweep has visited stays closed, because no
thread starts or ends while it holds the lock. The theorems are `NothingLost`,
`SweepsSpareTheLiving`, `TransactionsAreOwn` and `SweepsComplete`.

The second half of the module is about what the statements do. `AnyRequestAsAsked` is
free of the bounds that `Request` has for TLC: texts, values, lists and conditions are
of any length, with None or without (`RequestTyped`, `AnyRow`), and nothing is assumed
of `Null`. The argument has four parts. First, joining: how what `FlattenSeq` returns is
divided among the sequences it joins (`Joins`, `JoinsPieces`), and where `Join` puts the
clauses and the marks (`JoinIs`), so that each clause's parameters stand where its places
will take them (`JoinStands`, `ParamsStand`). Second, reading: a sequence of clauses with
one mark between them is read as their conjunction or disjunction (`JoinedSay`), the same
in parentheses as one operand (`BracedSay`), and two such with AND between as both
(`BothEnd`); the reader comes to the end with every parameter taken. Third, escaping: the
three replacements one after the other do to each character of a text by itself what
`EscapedChar` says (`EscapedIs`), as the escape is replaced first. Fourth, LIKE: from the
end of the pattern backwards, each escaped character leaves the places where the rest of
the text begins with the rest of what was searched (`RestStep`, `FromsSteps`), so that the
"%" at both ends make it a search for a part: `LikeIsPart`. Then each clause is true of
the rows that its condition describes (`ConditionIsMet`), and WHERE of those that were
asked for (`WhereIsAsked`). The induction over sequences is again that of `LeastNumber`.
`StatementsDoAsAsked` follows, as no action but `Query` runs a statement.

**LibLoaderProofs**: any finite sets of threads and files. `ObjectInv` gives each
load an object of its own; `RegisteredInv`, which holds however loads overlap, says
that a registered object is complete or executed by a thread that will complete
or remove it; `ResultInv` and `RunsInv` speak of loads that do not overlap
(`AloneInv`). The theorems are `FailuresRemoved` and `ExecutedOnce`.

Only model-checked: liveness (`EveryCleanupRuns`, `ThreadStops`, `ScanSettles`,
`QueuedAreCalled`, `CallsReturn`, `CallReturns`, `BusyEnds`, and with it the fairness
half of `ImplementsLifecycle`), which is out of this prover's reach. Every safety
property that a passing run checks is also proved.

## 6. Assumptions

- A drawn token (256 random bits) may collide with a live key, which the code
  tests for, but never repeats the token of a dead session.
- The clock never goes back. Redis counts down at the rate of the manager's clock.
- The purge of a full store reads the clock once instead of once an entry.
- The return of a grant is one step with the write it reports.
- A command that was given up by its caller is executed at most once.
- One string, one hash and one stream stand for all keys of the adapter; one
  connection name for all of `_db`; two rows and a third for all of a table.
- A signal inside a hook or a callback is as one before or after it.
- A column that is compared holds texts or NULL; LIKE distinguishes case. None in a list
  asks for no row: no document of the repository says what it should ask for.
- A watch manager that raises has done a part of what it was asked, from the path
  downwards.
- What `__init__` of an instance does is over before the lifecycle sees it.
- The order of a dictionary or a directory is arbitrary.
- What the libraries do (pyinotify, sonicprobe's pool, `sys.modules`, Textual's
  table, the Redis server, threads and processes) is modelled from their use and
  marked external in the map.

History variables record what happened and are read by properties only:
`granted`, `denied`, `revoked` (a `granted` token is also what a caller may
present), `begun`, `ran`, `added`, `late`, `called`, `disturbed`, `overlapped`,
`runs`, `failures`, `told`, `missing`, `due`, `presented`, `stray`, `started`,
`asked`, `halfway`, `crossed`, `users`, `known`, `raced`. `raced` marks contexts whose
claims overlapped, `asked` the instances that a configuration enables which their `init`
has read, `halfway` those whose `init` was left or met by another user between setting
`initialized` and reading `enabled`, `crossed` those whose `init` two users were in at
once, `disturbed` marks a call under which `load` or `reset` ran, and `overlapped`
that two calls of `load_dir` were under way; the properties that they weaken do
not hold otherwise, as their comments say.

## 7. What the models say of the code

One run ends in a counterexample, a disagreement of the code with the
repository's own words.

- `InotifyNested`: the comment at `classes/inotify.py:433` says that nested watches
  win "irrespective of order". Adding the parent after the nested path records
  the parent's configuration for the nested one (`inotify.py:457-462`).

Behaviour that the models reach and no document excludes; the properties allow it:

- The manager computes a TTL from one clock reading and `touch` adds it to a later
  one (`sessions/memory.py:51`), so an entry may outlive its session by that much.
  The expiry that is returned does not (`GrantsWithinLifetime`), and `read` refuses
  the session past its lifetime; it is a place of the capacity that stays taken.
- A callback of the global `stop` that raises hides those behind it, in the
  handlers that it interrupted too (`config.py:46`), where a runtime isolates them.
- An exception between `safe_init` and the registration of `at_stop` leaves an
  instance that no stop gives back; a further `load_conf` calls `safe_init` again.
- `init` sets `initialized` before it reads `enabled` (`classes/plugins.py:46`, `:60`). A
  plugin whose `init` raised or was unwound in between, or is met there by another user,
  is taken for initialized and is as its constructor left it, which is enabled.
- `init` returns at once if `initialized` is set (`classes/plugins.py:43`), so what a
  further `load_conf` reads of `enabled` changes nothing: an instance that the new
  configuration disables is brought up again, one that it enables stays down.
- An exception of the watch manager other than `WatchManagerError` ends the watcher's
  thread without a stop: the queue is not taken, the scan not reported over and the
  notifier not stopped (`inotify.py:447-487`, `:495-506`).
- `get_key` and `hget_key` ask no server after the first that has the key. If that one
  loses the key in between, or its hash has other fields only, they answer None though a
  later server has what is sought (`adapters/redis.py:117-126`, `:189-198`).
- A scalar None asks for the rows with NULL, but None in a list for none
  (`classes/objects.py:64-75`).
- Two contexts whose `initialize` overlap may both bring a shared instance up:
  tests and claims are two loops without a lock (`runtime.py:43`).
- A load of a directory that overlaps another may execute a file again or return
  a module whose execution has not ended (`libloader.py:32`).
- `is_scanning` may stay true after `stop` (`inotify.py:498`).

## 8. What is not modelled

- What sets hold in Redis: `sadd`, `srem` and `sort` are a loop like any other.
- Watches that pyinotify adds by itself, globbing, `plugs_flag`.
- Hooks and cleanups of several contexts at once (`Runtime` has one), software
  names, logging and directories of `config.py`.
- Notifier templates, tags and URIs; the HTTP handler beyond its outcome.
- ORDER BY, LIMIT and OFFSET, the syntax of identifiers, the preparation of columns for
  output, and of the checks of arguments all but that of columns against values.
- A clock that goes back: nothing in the code handles one.
- Navigation, notices and metrics of the dashboard; cancelled workers.
- The data of the configuration and its schema, the parameter and encryption
  helpers, prompts,
  forms, widgets and theme, the command line: sequential code on one value at a
  time, without state that outlives a call, or layout.

## 9. Plan

The order was that of importance: sessions (abstract contract, manager, memory
backend with proofs, Redis backend), runtime (lifecycle, runtime, proofs), then
the components where threads meet (inotify, notifications, subprocess), then
loader, dashboard, database and adapter, then the global lifecycle, the SQL
statements and the proofs of all of them. What is left:

1. A composition of runtime and watcher, where the watcher's `stop` is the callback
   that the runtime runs and new directories are watched by pyinotify itself.
2. Navigation and notices of the dashboard, if properties of them are found.
