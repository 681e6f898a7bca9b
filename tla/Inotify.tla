------------------------------- MODULE Inotify -------------------------------
(***************************************************************************)
(* dwho.classes.inotify: the watcher thread with its command queue, the    *)
(* watch manager, the dispatch of events to workers and the stop that a    *)
(* launcher runs.  The notifier thread, the kernel's watches and the       *)
(* worker pool are libraries, modelled from their use here.                *)
(*                                                                         *)
(* Below[d] is the set of directories at or under d.  A configured path    *)
(* has one DWhoInotifyCfgPath, so the path stands for it.                  *)
(***************************************************************************)
EXTENDS Naturals, Sequences, FiniteSets

CONSTANTS
    Dir, Below,
    Path,            \* the directories that some command adds or removes
    Excluded,        \* Excluded[p]: what the exclude filter of p rejects
    NoCfg,
    Worker,
    MaxCommands,     \* bound: commands put in a behaviour
    MaxEvents        \* bound: events dispatched in a behaviour

ASSUME InotifyAssumption ==
    /\ Path \subseteq Dir
    /\ Below \in [Dir -> SUBSET Dir]
    /\ \A d \in Dir : d \in Below[d]
    /\ \A d, e \in Dir : e \in Below[d] => Below[e] \subseteq Below[d]
    /\ \A d, e \in Dir : e \in Below[d] /\ d \in Below[e] => d = e
    /\ \A f \in Dir, S \in SUBSET Dir :     \* the innermost of some above f
          S # {} /\ (\A d \in S : f \in Below[d]) => \E d \in S : \A e \in S : d \in Below[e]
    /\ Excluded \in [Path -> SUBSET Dir]
    /\ NoCfg \notin Path
    /\ MaxCommands \in Nat /\ MaxEvents \in Nat

VARIABLES
    queue,      \* command_queue
    pc,         \* the watcher thread
    command,    \* the command it took from the queue
    todo,       \* the directories it still has to record or to forget
    killed, scanned,    \* self.killed, self.scan_event
    cfgPaths,   \* self.cfg_paths: the configuration recorded for a directory
    watches,    \* the configuration whose mask the kernel watches it with
    notifier,   \* the ThreadedNotifier
    pool,       \* self.workerpool
    stopping,   \* how far stop() has come
    tasks,      \* DWhoInotifyPlugs handed to the pool and not started
    running,    \* running[w]: the task whose plugin worker w is calling
    plugin,     \* plugin[w]: the cfg_path in the plugin object w is calling
    added,      \* history: paths added with success and not removed since
    late,       \* history: commands taken after killed was set
    puts, events    \* how many commands were put, how many events dispatched

thread == <<command, todo, cfgPaths, watches, added>>
work == <<tasks, running, plugin, events>>
vars == <<queue, pc, command, todo, killed, scanned, cfgPaths, watches, notifier, pool,
          stopping, tasks, running, plugin, added, late, puts, events>>

Command == [mode : {"add", "rem"}, path : Path]
NoTask == [cfg |-> NoCfg, dir |-> NoCfg]
Task == [cfg : Path, dir : Dir]
Recorded == Path \cup {NoCfg}

TypeOK ==
    /\ queue \in Seq(Command)
    /\ pc \in {"new", "loop", "get", "clear", "handle", "record", "forget", "done", "lost", "broken"}
    /\ command \in Command \cup {NoCfg} /\ todo \subseteq Dir
    /\ killed \in BOOLEAN /\ scanned \in BOOLEAN
    /\ cfgPaths \in [Dir -> Recorded]
    /\ watches \in [Dir -> Recorded]
    /\ notifier \in {"none", "running", "stopped"}
    /\ pool \in {"none", "open", "killed"}
    /\ stopping \in {"no", "killed", "scanned", "pooled", "done"}
    /\ tasks \subseteq Task
    /\ running \in [Worker -> Task \cup {NoTask}]
    /\ plugin \in [Worker -> Recorded]
    /\ added \subseteq Path
    /\ late \in Nat
    /\ puts \in 0 .. MaxCommands /\ events \in 0 .. MaxEvents

Init ==
    /\ queue = <<>> /\ command = NoCfg /\ todo = {}
    /\ pc = "new" /\ killed = FALSE /\ scanned = FALSE
    /\ cfgPaths = [d \in Dir |-> NoCfg]
    /\ watches = [d \in Dir |-> NoCfg]
    /\ notifier = "none" /\ pool = "none" /\ stopping = "no"
    /\ tasks = {}
    /\ running = [w \in Worker |-> NoTask]
    /\ plugin = [w \in Worker |-> NoCfg]
    /\ added = {} /\ late = 0 /\ puts = 0 /\ events = 0

-----------------------------------------------------------------------------
(* Callers: the configuration or the application puts commands; the runtime *)
(* calls init, start and stop.                                              *)

Put(mode, p) ==
    /\ puts < MaxCommands
    /\ puts' = puts + 1
    /\ queue' = Append(queue, [mode |-> mode, path |-> p])
    /\ UNCHANGED <<pc, killed, scanned, notifier, pool, stopping, late, thread, work>>

InitPool ==
    /\ pc = "new" /\ pool = "none"
    /\ pool' = "open"
    /\ UNCHANGED <<queue, pc, killed, scanned, notifier, stopping, late, puts, thread, work>>

\* start: run creates the watch manager and starts the notifier.
StartThread ==
    /\ pc = "new" /\ pool # "none"
    /\ pc' = "loop"
    /\ notifier' = "running"
    /\ UNCHANGED <<queue, killed, scanned, pool, stopping, late, puts, thread, work>>

-----------------------------------------------------------------------------
(* run                                                                     *)

\* Mutant: the thread drains its queue before it obeys killed.
TestKilled_Drains ==
    /\ pc = "loop"
    /\ IF killed /\ queue = <<>>
       THEN pc' = "done" /\ notifier' = "stopped"
       ELSE pc' = "get" /\ UNCHANGED notifier
    /\ UNCHANGED <<queue, killed, scanned, pool, stopping, late, puts, thread, work>>

\* while not self.killed
TestKilled ==
    /\ pc = "loop"
    /\ IF killed
       THEN pc' = "done" /\ notifier' = "stopped"
       ELSE pc' = "get" /\ UNCHANGED notifier
    /\ UNCHANGED <<queue, killed, scanned, pool, stopping, late, puts, thread, work>>

GetCommand ==
    /\ pc = "get" /\ queue # <<>>
    /\ command' = Head(queue)
    /\ queue' = Tail(queue)
    /\ pc' = "clear"
    /\ late' = late + (IF killed THEN 1 ELSE 0)
    /\ UNCHANGED <<killed, scanned, todo, cfgPaths, watches, added, notifier, pool,
                   stopping, puts, work>>

\* Mutant: get has no timeout: it waits for a command.
GetTimeout_Waits == pc = "get" /\ queue = <<>> /\ UNCHANGED vars

\* Mutant: the timeout does not report the scan over.
GetTimeout_Silent ==
    /\ pc = "get" /\ queue = <<>>
    /\ pc' = "loop"
    /\ UNCHANGED <<queue, killed, scanned, notifier, pool, stopping, late, puts, thread,
                   work>>

\* Nothing came within half a second: the scan is over.
GetTimeout ==
    /\ pc = "get" /\ queue = <<>>
    /\ scanned' = TRUE
    /\ pc' = "loop"
    /\ UNCHANGED <<queue, killed, notifier, pool, stopping, late, puts, thread, work>>

ClearScan ==
    /\ pc = "clear"
    /\ scanned' = FALSE
    /\ pc' = "handle"
    /\ UNCHANGED <<queue, killed, notifier, pool, stopping, late, puts, thread, work>>

\* The command leads to pc = next; the rest of the thread's state is the caller's.
Goto(next) ==
    /\ pc' = next
    /\ command' = IF next = "loop" THEN NoCfg ELSE command
    /\ UNCHANGED <<queue, killed, scanned, notifier, pool, stopping, late, puts, work>>

\* f overridden with the value v on the set S.
Overlay(f, S, v) == [d \in Dir |-> IF d \in S THEN v ELSE f[d]]

\* What a recursive walk of p watches: an excluded directory is pruned.
Watchable(p) == {d \in Below[p] : \A x \in Excluded[p] \cap Below[p] : d \notin Below[x]}

\* add_watch(rec=True) puts a watch on every directory of the walk, those already
\* watched included, and answers with all of them.
AddWatch ==
    /\ pc = "handle" /\ command.mode = "add"
    /\ watches' = Overlay(watches, Watchable(command.path), command.path)
    /\ todo' = Watchable(command.path)
    /\ UNCHANGED <<cfgPaths, added>>
    /\ Goto("record")

\* The walk stops part of the way down: the watches so far stay, and none is recorded.
WatchSome ==
    /\ pc = "handle" /\ command.mode = "add"
    /\ \E S \in SUBSET Watchable(command.path) :
          /\ \A d \in S : \A e \in Watchable(command.path) : d \in Below[e] => e \in S
          /\ watches' = Overlay(watches, S, command.path)
    /\ UNCHANGED <<todo, cfgPaths, added>>

\* WatchManagerError, for a directory that cannot be watched, is logged.
AddWatchFails == WatchSome /\ Goto("loop")

\* Any other exception, of the filter for one, leaves run: notifier.stop is not called.
AddWatchBreaks == WatchSome /\ Goto("broken")

\* The answer is recorded one directory at a time, in the order of a dictionary.
Record(d) ==
    /\ pc = "record"
    /\ cfgPaths' = [cfgPaths EXCEPT ![d] = command.path]
    /\ todo' = todo \ {d}
    /\ UNCHANGED <<watches, added>>
    /\ Goto("record")

RecordedAll ==
    /\ pc = "record" /\ todo = {}
    /\ added' = added \cup {command.path}
    /\ UNCHANGED <<todo, cfgPaths, watches>>
    /\ Goto("loop")

RemWatchUnknown ==
    /\ pc = "handle" /\ command.mode = "rem" /\ cfgPaths[command.path] = NoCfg
    /\ UNCHANGED <<todo, cfgPaths, watches, added>>
    /\ Goto("loop")

\* Mutant: a removal forgets every directory of the walk, recorded or not.
RemWatch_Unrecorded ==
    /\ pc = "handle" /\ command.mode = "rem" /\ cfgPaths[command.path] # NoCfg
    /\ LET S == Below[command.path]
       IN  /\ watches' = Overlay(watches, S, NoCfg)
           /\ todo' = S
           /\ added' = added \ S
    /\ UNCHANGED cfgPaths
    /\ Goto("forget")

\* The watches at and below the path go, if the path itself has one; then the
\* records that list(self.cfg_paths) holds now.
RemWatch ==
    /\ pc = "handle" /\ command.mode = "rem" /\ cfgPaths[command.path] # NoCfg
    /\ LET S == Below[command.path]
       IN  /\ watches' = IF watches[command.path] = NoCfg THEN watches
                         ELSE Overlay(watches, S, NoCfg)
           /\ todo' = {d \in S : cfgPaths[d] # NoCfg}
           /\ added' = added \ S
    /\ UNCHANGED cfgPaths
    /\ Goto("forget")

\* Some watches are gone, that of the path first, and every record stays.
UnwatchSome ==
    /\ pc = "handle" /\ command.mode = "rem" /\ cfgPaths[command.path] # NoCfg
    /\ \E S \in SUBSET Below[command.path] :
          /\ S # {} => command.path \in S /\ watches[command.path] # NoCfg
          /\ watches' = Overlay(watches, S, NoCfg)
    /\ UNCHANGED <<todo, cfgPaths, added>>

\* WatchManagerError is logged.
RemWatchFails == UnwatchSome /\ watches[command.path] # NoCfg /\ Goto("loop")

\* RuntimeError leaves run: the watch manager walks its dictionary of watches while the
\* removal deletes from it, or while the notifier's thread adds to it.
RemWatchBreaks == UnwatchSome /\ (\E d \in Dir : watches[d] # NoCfg) /\ Goto("broken")

Forget(d) ==
    /\ pc = "forget" /\ cfgPaths[d] # NoCfg
    /\ cfgPaths' = [cfgPaths EXCEPT ![d] = NoCfg]
    /\ todo' = todo \ {d}
    /\ UNCHANGED <<watches, added>>
    /\ Goto("forget")

\* The record is gone: KeyError leaves run.
ForgetFails(d) ==
    /\ pc = "forget" /\ cfgPaths[d] = NoCfg
    /\ UNCHANGED <<todo, cfgPaths, watches, added>>
    /\ Goto("lost")

ForgotAll ==
    /\ pc = "forget" /\ todo = {}
    /\ UNCHANGED <<todo, cfgPaths, watches, added>>
    /\ Goto("loop")

-----------------------------------------------------------------------------
(* Events                                                                  *)

\* get_cfg_path: the record of the innermost recorded directory at or above d.
Governing(d) ==
    LET above == {e \in Dir : d \in Below[e] /\ cfgPaths[e] # NoCfg}
        inner == {e \in above : \A f \in above : e \in Below[f]}
    IN  IF above = {} THEN NoCfg ELSE cfgPaths[CHOOSE e \in inner : TRUE]

\* An event in d reaches launch_plugins on the notifier thread.  Without a
\* configuration, or when its own filter excludes the file, nothing is called.
Dispatch(d) ==
    /\ notifier = "running" /\ watches[d] # NoCfg
    /\ events < MaxEvents
    /\ events' = events + 1
    /\ \/ Governing(d) # NoCfg /\ tasks' = tasks \cup {[cfg |-> Governing(d), dir |-> d]}
       \/ UNCHANGED tasks
    /\ UNCHANGED <<queue, pc, killed, scanned, notifier, pool, stopping, late, puts,
                   running, plugin, thread>>

\* Mutant: the shared plugin object is called instead of a copy of it.
CallPlugin_Shared(w, t) ==
    /\ running[w] = NoTask
    /\ tasks' = tasks \ {t}
    /\ running' = [running EXCEPT ![w] = t]
    /\ plugin' = [v \in Worker |-> t.cfg]
    /\ UNCHANGED <<queue, pc, killed, scanned, notifier, pool, stopping, late, puts,
                   events, thread>>

\* A worker calls a copy of the registered plugin, which stores its arguments.
\* A killed pool may or may not still run what was queued.
CallPlugin(w, t) ==
    /\ running[w] = NoTask
    /\ tasks' = tasks \ {t}
    /\ running' = [running EXCEPT ![w] = t]
    /\ plugin' = [plugin EXCEPT ![w] = t.cfg]
    /\ UNCHANGED <<queue, pc, killed, scanned, notifier, pool, stopping, late, puts,
                   events, thread>>

\* The plugin returns, or its exception is logged.
PluginDone(w) ==
    /\ running[w] # NoTask
    /\ running' = [running EXCEPT ![w] = NoTask]
    /\ plugin' = [plugin EXCEPT ![w] = NoCfg]
    /\ UNCHANGED <<queue, pc, killed, scanned, notifier, pool, stopping, late, puts,
                   tasks, events, thread>>

-----------------------------------------------------------------------------
(* stop, on the caller's thread                                            *)

StopFlag ==
    /\ stopping = "no"
    /\ killed' = TRUE
    /\ stopping' = "killed"
    /\ UNCHANGED <<queue, pc, scanned, notifier, pool, late, puts, thread, work>>

StopScan ==
    /\ stopping = "killed"
    /\ scanned' = TRUE
    /\ stopping' = "scanned"
    /\ UNCHANGED <<queue, pc, killed, notifier, pool, late, puts, thread, work>>

StopPool ==
    /\ stopping = "scanned"
    /\ pool' = IF pool = "open" THEN "killed" ELSE pool
    /\ stopping' = "pooled"
    /\ UNCHANGED <<queue, pc, killed, scanned, notifier, late, puts, thread, work>>

StopPaths ==
    /\ stopping = "pooled"
    /\ cfgPaths' = [d \in Dir |-> NoCfg]
    /\ added' = {}
    /\ stopping' = "done"
    /\ UNCHANGED <<queue, pc, command, todo, killed, scanned, watches, notifier, pool,
                   late, puts, work>>

-----------------------------------------------------------------------------
ThreadStep ==
    \/ TestKilled \/ GetCommand \/ GetTimeout \/ ClearScan
    \/ AddWatch \/ AddWatchFails \/ AddWatchBreaks \/ RecordedAll
    \/ RemWatchUnknown \/ RemWatch \/ RemWatchFails \/ RemWatchBreaks \/ ForgotAll
    \/ \E d \in todo : Record(d) \/ Forget(d) \/ ForgetFails(d)

StopStep == StopFlag \/ StopScan \/ StopPool \/ StopPaths

Next ==
    \/ \E m \in {"add", "rem"}, p \in Path : Put(m, p)
    \/ InitPool \/ StartThread \/ ThreadStep \/ StopStep
    \/ \E d \in Dir : Dispatch(d)
    \/ \E w \in Worker : PluginDone(w) \/ \E t \in tasks : CallPlugin(w, t)

Spec == Init /\ [][Next]_vars

\* The thread runs: its get times out after half a second, and no call it makes
\* blocks.  Nothing else is assumed, neither of callers nor of workers.
FairSpec == Spec /\ WF_vars(ThreadStep)

-----------------------------------------------------------------------------
\* Every plugin call works with the configuration its event was dispatched for,
\* though all workers share the registered plugin (copy.copy in DWhoInotifyPlugs),
\* and that configuration is one for a directory at or above the event's.
CallsIsolated ==
    \A w \in Worker : running[w] # NoTask =>
        plugin[w] = running[w].cfg /\ running[w].dir \in Below[running[w].cfg]

\* A thread told to stop takes at most one command more.
AtMostOneLate == late <= 1

\* A removal finds every record that it deletes, whatever was added, removed or failed
\* before: only a stop that empties cfg_paths under it makes del raise KeyError
\* (inotify.py:484-487).  It says nothing of the exceptions of the watch manager, which
\* end the thread without a stop.
RemovalFindsRecords == pc = "lost" => stopping = "done" /\ command.mode = "rem"

\* A started thread that was told to stop ends, and takes the notifier with it
\* unless an exception ended it.
ThreadStops ==
    (killed /\ pc # "new") ~>
        ((pc = "done" /\ notifier = "stopped") \/ pc \in {"lost", "broken"})

\* Commands are all taken and the scan is reported over, unless stop comes first or an
\* exception of the watch manager ends the thread, which then leaves both as they are.
ScanSettles ==
    (pc = "loop" /\ ~scanned) ~> ((queue = <<>> /\ scanned) \/ killed \/ pc = "broken")

\* inotify.py:433: "Nested watches must win over their parents, irrespective of
\* order": an event in an added path is governed by that path's configuration.
NestedWins ==
    (pc = "get" /\ ~killed) =>
        \A p \in added : p \in Watchable(p) => Governing(p) = p
=============================================================================
