------------------------------ MODULE EventProofs ------------------------------
(***************************************************************************)
(* The two parts that follow events: the inotify watcher, for every        *)
(* directory tree and any number of workers and commands, and the table of *)
(* the dashboard, for every set of keys and every bound.                   *)
(***************************************************************************)
EXTENDS Inotify, Dashboard, FiniteSetTheorems, SequenceTheorems, WellFoundedInduction, TLAPS

-----------------------------------------------------------------------------
(* The watcher.                                                            *)

-----------------------------------------------------------------------------
(* The invariants                                                          *)

\* The types of what the watcher thread and stop work on.
ThreadTyped ==
    /\ queue \in Seq(Command)
    /\ pc \in {"new", "loop", "get", "clear", "handle", "record", "forget", "done", "lost", "broken"}
    /\ command \in Command \cup {NoCfg} /\ todo \subseteq Dir
    /\ killed \in BOOLEAN /\ scanned \in BOOLEAN
    /\ cfgPaths \in [Dir -> Recorded] /\ watches \in [Dir -> Recorded]
    /\ notifier \in {"none", "running", "stopped"}
    /\ pool \in {"none", "open", "killed"}
    /\ stopping \in {"no", "killed", "scanned", "pooled", "done"}
    /\ added \subseteq Path
    /\ late \in Nat /\ puts \in 0 .. MaxCommands

\* The types of what the notifier and the workers do.
WorkTyped ==
    /\ tasks \subseteq Task
    /\ running \in [Worker -> Task \cup {NoTask}]
    /\ plugin \in [Worker -> Recorded]
    /\ events \in 0 .. MaxEvents

\* A command in progress is a command; what it still has to record lies below its path,
\* and what it still has to forget is recorded, unless stop has emptied the records.
CommandInv ==
    /\ pc \in {"clear", "handle", "record", "forget", "lost"} => command \in Command
    /\ pc = "record" => command.mode = "add" /\ todo \subseteq Below[command.path]
    /\ pc \in {"forget", "lost"} => command.mode = "rem"
    /\ pc = "forget" /\ stopping # "done" => \A d \in todo : cfgPaths[d] # NoCfg
    /\ pc = "lost" => stopping = "done"

\* The configuration recorded for a directory is that of a path at or above it.
RecordsAbove == \A d \in Dir : cfgPaths[d] # NoCfg => d \in Below[cfgPaths[d]]

\* A command that was taken late was the last.
LateInv ==
    /\ killed <=> stopping # "no"
    /\ late <= 1
    /\ ~killed \/ pc = "get" => late = 0

\* So is that of every task and every plugin call, which has its own.
WorkInv ==
    /\ \A t \in tasks : t.dir \in Below[t.cfg]
    /\ \A w \in Worker : running[w] # NoTask =>
          plugin[w] = running[w].cfg /\ running[w].dir \in Below[running[w].cfg]

WatchInv == ThreadTyped /\ WorkTyped /\ CommandInv /\ RecordsAbove /\ LateInv /\ WorkInv

-----------------------------------------------------------------------------
(* The operators                                                           *)

\* A part of a function is overridden.
LEMMA OverlayTyped ==
  ASSUME NEW f \in [Dir -> Recorded], NEW S, NEW v \in Recorded
  PROVE  Overlay(f, S, v) \in [Dir -> Recorded]
BY DEF Overlay

\* A walk of a path stays below it.
LEMMA WalkBelow ==
  ASSUME InotifyAssumption, NEW p \in Path
  PROVE  Watchable(p) \subseteq Below[p] /\ Watchable(p) \subseteq Dir
BY DEF Watchable, InotifyAssumption

\* The configuration that governs an event is one of a path at or above its directory.
LEMMA GoverningAbove ==
  ASSUME InotifyAssumption, cfgPaths \in [Dir -> Recorded], RecordsAbove,
         NEW d \in Dir, Governing(d) # NoCfg
  PROVE  Governing(d) \in Path /\ d \in Below[Governing(d)]
<1> DEFINE above == {e \in Dir : d \in Below[e] /\ cfgPaths[e] # NoCfg}
           inner == {e \in above : \A f \in above : e \in Below[f]}
<1>1. above # {} /\ Governing(d) = cfgPaths[CHOOSE e \in inner : TRUE]
  BY DEF Governing
<1>2. \E e \in above : \A f \in above : e \in Below[f]
  <2>1. above \in SUBSET Dir /\ \A e \in above : d \in Below[e]
    OBVIOUS
  <2>2. \A S \in SUBSET Dir : S # {} /\ (\A e \in S : d \in Below[e]) =>
                                  \E e \in S : \A f \in S : e \in Below[f]
    BY DEF InotifyAssumption
  <2>3. QED
    BY <1>1, <2>1, <2>2
<1>3. (CHOOSE e \in inner : TRUE) \in inner
  BY <1>2
<1>4. PICK e \in above : Governing(d) = cfgPaths[e]
  BY <1>1, <1>3
<1>5. cfgPaths[e] \in Path /\ e \in Below[cfgPaths[e]] /\ d \in Below[e]
  BY <1>4 DEF Recorded, RecordsAbove
<1>6. QED
  BY <1>4, <1>5 DEF InotifyAssumption

-----------------------------------------------------------------------------
(* The watcher thread                                                      *)

\* A step of the thread keeps its types, and leaves the workers alone.
LEMMA ThreadKeepsTypes ==
  ASSUME InotifyAssumption, ThreadTyped, CommandInv, ThreadStep
  PROVE  ThreadTyped' /\ UNCHANGED <<work, killed, stopping>>
<1> USE DEF thread, work
<1>1. CASE TestKilled
  BY <1>1 DEF TestKilled, ThreadTyped
<1>2. CASE GetCommand
  <2>1. Head(queue) \in Command /\ Tail(queue) \in Seq(Command)
    BY <1>2, HeadTailProperties DEF GetCommand, ThreadTyped
  <2>2. late' \in Nat
    BY <1>2 DEF GetCommand, ThreadTyped
  <2>3. QED
    BY <1>2, <2>1, <2>2 DEF GetCommand, ThreadTyped
<1>3. CASE GetTimeout \/ ClearScan
  BY <1>3 DEF GetTimeout, ClearScan, ThreadTyped
<1>4. pc \in {"handle", "record", "forget"} =>
        command \in Command /\ command.path \in Path /\ command.path \in Recorded
        /\ command.path \in Dir /\ NoCfg \in Recorded
  BY DEF CommandInv, Command, Recorded, InotifyAssumption
<1>5. ASSUME NEW next \in {"loop", "record", "forget", "lost", "broken"}, Goto(next)
      PROVE  /\ pc' = next /\ command' \in Command \cup {NoCfg}
             /\ UNCHANGED <<queue, killed, scanned, notifier, pool, stopping, late, puts, work>>
  BY <1>5 DEF Goto, ThreadTyped
<1>6. CASE AddWatch
  <2>1. Watchable(command.path) \subseteq Dir
    BY <1>4, <1>6, WalkBelow DEF AddWatch
  <2>2. watches' \in [Dir -> Recorded]
    BY <1>4, <1>6, OverlayTyped DEF AddWatch, ThreadTyped
  <2>3. QED
    BY <1>5, <1>6, <2>1, <2>2 DEF AddWatch, ThreadTyped
<1>7. CASE AddWatchFails \/ AddWatchBreaks
  <2>1. WatchSome /\ \E next \in {"loop", "broken"} : Goto(next)
    BY <1>7 DEF AddWatchFails, AddWatchBreaks
  <2>2. watches' \in [Dir -> Recorded]
    <3>1. PICK S : watches' = Overlay(watches, S, command.path)
      BY <2>1 DEF WatchSome
    <3>2. QED
      BY <1>4, <2>1, <3>1, OverlayTyped DEF WatchSome, ThreadTyped
  <2>3. QED
    BY <1>5, <2>1, <2>2 DEF WatchSome, ThreadTyped
<1>8. CASE RecordedAll
  BY <1>4, <1>5, <1>8 DEF RecordedAll, ThreadTyped
<1>9. CASE RemWatchUnknown \/ ForgotAll
  BY <1>5, <1>9 DEF RemWatchUnknown, ForgotAll, ThreadTyped
<1>10. CASE RemWatch
  <2>1. watches' \in [Dir -> Recorded]
    BY <1>4, <1>10, OverlayTyped DEF RemWatch, ThreadTyped
  <2>2. todo' \subseteq Dir /\ added' \subseteq Path
    <3>1. Below[command.path] \subseteq Dir
      BY <1>4, <1>10 DEF RemWatch, InotifyAssumption
    <3>2. QED
      BY <1>10, <3>1 DEF RemWatch, ThreadTyped
  <2>3. QED
    BY <1>5, <1>10, <2>1, <2>2 DEF RemWatch, ThreadTyped
<1>11. CASE RemWatchFails \/ RemWatchBreaks
  <2>1. UnwatchSome /\ \E next \in {"loop", "broken"} : Goto(next)
    BY <1>11 DEF RemWatchFails, RemWatchBreaks
  <2>2. watches' \in [Dir -> Recorded]
    <3>1. PICK S : watches' = Overlay(watches, S, NoCfg)
      BY <2>1 DEF UnwatchSome
    <3>2. QED
      BY <1>4, <2>1, <3>1, OverlayTyped DEF UnwatchSome, ThreadTyped
  <2>3. QED
    BY <1>5, <2>1, <2>2 DEF UnwatchSome, ThreadTyped
<1>12. ASSUME NEW d \in todo, Record(d) \/ Forget(d)
       PROVE  ThreadTyped' /\ UNCHANGED <<work, killed, stopping>>
  <2>1. cfgPaths' \in [Dir -> Recorded] /\ todo' \subseteq Dir
    <3>1. PICK v \in Recorded : cfgPaths' = [cfgPaths EXCEPT ![d] = v]
      BY <1>4, <1>12 DEF Record, Forget
    <3>2. todo' = todo \ {d}
      BY <1>12 DEF Record, Forget
    <3>3. QED
      BY <3>1, <3>2 DEF ThreadTyped
  <2>2. QED
    BY <1>5, <1>12, <2>1 DEF Record, Forget, ThreadTyped
<1>13. ASSUME NEW d \in todo, ForgetFails(d)
       PROVE  ThreadTyped' /\ UNCHANGED <<work, killed, stopping>>
  BY <1>5, <1>13 DEF ForgetFails, ThreadTyped
<1>14. QED
  BY <1>1, <1>2, <1>3, <1>6, <1>7, <1>8, <1>9, <1>10, <1>11, <1>12, <1>13 DEF ThreadStep

\* It keeps the command in progress consistent, and takes one command late at most.
LEMMA ThreadKeeps ==
  ASSUME InotifyAssumption, ThreadTyped, CommandInv, RecordsAbove, LateInv, ThreadStep
  PROVE  CommandInv' /\ RecordsAbove' /\ LateInv'
<1>1. UNCHANGED <<killed, stopping>>
  BY ThreadKeepsTypes
<1>2. ASSUME cfgPaths' = cfgPaths PROVE RecordsAbove'
  BY <1>2 DEF RecordsAbove
<1>3. ASSUME late' = late, pc' # "get" PROVE LateInv'
  BY <1>1, <1>3 DEF LateInv
<1>4. CASE TestKilled
  <2>1. pc' \in {"done", "get"} /\ (pc' = "get" => ~killed) /\ late' = late /\ cfgPaths' = cfgPaths
    BY <1>4 DEF TestKilled, thread
  <2>2. CommandInv' /\ LateInv'
    BY <1>1, <2>1 DEF CommandInv, LateInv
  <2>3. QED
    BY <1>2, <2>1, <2>2
<1>5. CASE GetCommand
  <2>1. command' \in Command
    BY <1>5, HeadTailProperties DEF GetCommand, ThreadTyped
  <2>2. CommandInv'
    BY <1>5, <2>1 DEF GetCommand, CommandInv
  <2>3. pc = "get" /\ pc' = "clear" /\ late' = late + (IF killed THEN 1 ELSE 0)
    BY <1>5 DEF GetCommand
  <2>4. LateInv'
    BY <1>1, <2>3 DEF LateInv
  <2>5. QED
    BY <1>2, <1>5, <2>2, <2>4 DEF GetCommand
<1>6. CASE GetTimeout \/ ClearScan
  <2>1. /\ UNCHANGED <<command, todo, cfgPaths, late>>
        /\ pc' = "loop" \/ (pc = "clear" /\ pc' = "handle")
    BY <1>6 DEF GetTimeout, ClearScan, thread
  <2>2. CommandInv'
    BY <1>1, <2>1 DEF CommandInv
  <2>3. QED
    BY <1>2, <1>3, <2>1, <2>2
<1>7. ASSUME NEW next \in {"loop", "record", "forget", "lost", "broken"}, Goto(next)
      PROVE  /\ pc' = next /\ late' = late /\ LateInv'
             /\ next # "loop" => command' = command
  BY <1>3, <1>7 DEF Goto
<1>8. ASSUME Goto("loop") \/ Goto("broken") PROVE CommandInv'
  BY <1>8 DEF Goto, CommandInv
<1>9. CASE AddWatch
  <2>1. Watchable(command.path) \subseteq Below[command.path]
    BY <1>9, WalkBelow DEF AddWatch, CommandInv, Command
  <2>2. CommandInv'
    BY <1>7, <1>9, <2>1 DEF AddWatch, CommandInv
  <2>3. QED
    BY <1>2, <1>7, <1>9, <2>2 DEF AddWatch
<1>10. CASE \/ AddWatchFails \/ AddWatchBreaks \/ RecordedAll
            \/ RemWatchUnknown \/ RemWatchFails \/ RemWatchBreaks \/ ForgotAll
  <2>1. cfgPaths' = cfgPaths /\ (Goto("loop") \/ Goto("broken"))
    BY <1>10 DEF AddWatchFails, AddWatchBreaks, WatchSome, RecordedAll, RemWatchUnknown,
                 RemWatchFails, RemWatchBreaks, UnwatchSome, ForgotAll
  <2>2. QED
    BY <1>2, <1>7, <1>8, <2>1
<1>11. CASE RemWatch
  <2>1. CommandInv'
    BY <1>7, <1>11 DEF RemWatch, CommandInv
  <2>2. QED
    BY <1>2, <1>7, <1>11, <2>1 DEF RemWatch
<1>12. ASSUME NEW d \in todo, Record(d) PROVE CommandInv' /\ RecordsAbove' /\ LateInv'
  <2>1. /\ pc = "record" /\ cfgPaths' = [cfgPaths EXCEPT ![d] = command.path]
        /\ todo' = todo \ {d} /\ Goto("record")
    BY <1>12 DEF Record
  <2>2. d \in Below[command.path] /\ d \in Dir
    BY <2>1 DEF CommandInv, ThreadTyped
  <2>3. RecordsAbove'
    BY <2>1, <2>2 DEF RecordsAbove, ThreadTyped
  <2>4. CommandInv'
    BY <1>7, <2>1 DEF CommandInv
  <2>5. QED
    BY <1>7, <2>1, <2>3, <2>4
<1>13. ASSUME NEW d \in todo, Forget(d) PROVE CommandInv' /\ RecordsAbove' /\ LateInv'
  <2>1. /\ pc = "forget" /\ cfgPaths' = [cfgPaths EXCEPT ![d] = NoCfg]
        /\ todo' = todo \ {d} /\ Goto("forget")
    BY <1>13 DEF Forget
  <2>2. RecordsAbove'
    BY <2>1 DEF RecordsAbove, ThreadTyped
  <2>3. CommandInv'
    BY <1>1, <1>7, <2>1 DEF CommandInv, ThreadTyped
  <2>4. QED
    BY <1>7, <2>1, <2>2, <2>3
<1>14. ASSUME NEW d \in todo, ForgetFails(d) PROVE CommandInv' /\ RecordsAbove' /\ LateInv'
  <2>1. pc = "forget" /\ cfgPaths[d] = NoCfg /\ cfgPaths' = cfgPaths /\ Goto("lost")
    BY <1>14 DEF ForgetFails
  <2>2. stopping = "done"
    BY <2>1 DEF CommandInv
  <2>3. CommandInv'
    BY <1>1, <1>7, <2>1, <2>2 DEF CommandInv
  <2>4. QED
    BY <1>2, <1>7, <2>1, <2>3
<1>15. QED
  BY <1>4, <1>5, <1>6, <1>9, <1>10, <1>11, <1>12, <1>13, <1>14 DEF ThreadStep

-----------------------------------------------------------------------------
(* Callers, stop, events and workers                                       *)

\* A step of a caller or of stop.
CallerStep ==
    \/ \E m \in {"add", "rem"}, p \in Path : Put(m, p)
    \/ InitPool \/ StartThread \/ StopStep

\* It keeps the types, the command in progress and the count of late commands; stop
\* empties the records under a removal.
LEMMA CallersKeep ==
  ASSUME InotifyAssumption, ThreadTyped, CommandInv, RecordsAbove, LateInv, CallerStep
  PROVE  /\ ThreadTyped' /\ CommandInv' /\ RecordsAbove' /\ LateInv'
         /\ UNCHANGED work
<1> USE DEF thread, work
<1>1. ASSUME NEW m \in {"add", "rem"}, NEW p \in Path, Put(m, p)
      PROVE  /\ ThreadTyped' /\ CommandInv' /\ RecordsAbove' /\ LateInv'
             /\ UNCHANGED work
  <2>1. queue' \in Seq(Command)
    <3>1. [mode |-> m, path |-> p] \in Command
      BY DEF Command
    <3>2. QED
      BY <1>1, <3>1, AppendProperties DEF Put, ThreadTyped
  <2>2. puts' \in 0 .. MaxCommands
    BY <1>1 DEF Put, ThreadTyped, InotifyAssumption
  <2>3. UNCHANGED <<pc, killed, scanned, notifier, pool, stopping, late, thread, work>>
    BY <1>1 DEF Put
  <2>4. ThreadTyped'
    BY <2>1, <2>2, <2>3 DEF ThreadTyped
  <2>5. QED
    BY <2>3, <2>4 DEF CommandInv, RecordsAbove, LateInv
<1>2. CASE InitPool
  BY <1>2 DEF InitPool, ThreadTyped, CommandInv, RecordsAbove, LateInv
<1>3. CASE StartThread
  BY <1>3 DEF StartThread, ThreadTyped, CommandInv, RecordsAbove, LateInv
<1>4. CASE StopFlag
  BY <1>4 DEF StopFlag, ThreadTyped, CommandInv, RecordsAbove, LateInv
<1>5. CASE StopScan
  BY <1>5 DEF StopScan, ThreadTyped, CommandInv, RecordsAbove, LateInv
<1>6. CASE StopPool
  BY <1>6 DEF StopPool, ThreadTyped, CommandInv, RecordsAbove, LateInv
<1>7. CASE StopPaths
  <2>1. /\ stopping = "pooled" /\ stopping' = "done"
        /\ cfgPaths' = [d \in Dir |-> NoCfg] /\ added' = {}
        /\ UNCHANGED <<queue, pc, command, todo, killed, scanned, watches, notifier, pool,
                       late, puts, work>>
    BY <1>7 DEF StopPaths
  <2>2. ThreadTyped'
    BY <2>1 DEF ThreadTyped, Recorded
  <2>3. CommandInv' /\ RecordsAbove' /\ LateInv'
    BY <2>1 DEF CommandInv, RecordsAbove, LateInv
  <2>4. QED
    BY <2>1, <2>2, <2>3
<1>8. QED
  BY <1>1, <1>2, <1>3, <1>4, <1>5, <1>6, <1>7 DEF CallerStep, StopStep

\* A step of the notifier thread or of a worker.
EventStep ==
    \/ \E d \in Dir : Dispatch(d)
    \/ \E w \in Worker : PluginDone(w) \/ \E t \in tasks : CallPlugin(w, t)

\* It keeps the plugin calls apart, and leaves the watcher thread alone.
LEMMA EventsKeep ==
  ASSUME InotifyAssumption, ThreadTyped, WorkTyped, RecordsAbove, WorkInv, EventStep
  PROVE  /\ WorkTyped' /\ WorkInv'
         /\ UNCHANGED <<queue, pc, command, todo, killed, scanned, cfgPaths, watches,
                        notifier, pool, stopping, added, late, puts>>
<1> USE DEF thread
<1>1. ASSUME NEW d \in Dir, Dispatch(d)
      PROVE  /\ WorkTyped' /\ WorkInv'
             /\ UNCHANGED <<queue, pc, killed, scanned, notifier, pool, stopping, late,
                            puts, thread>>
  <2>1. /\ events' \in 0 .. MaxEvents
        /\ UNCHANGED <<queue, pc, killed, scanned, notifier, pool, stopping, late, puts,
                       running, plugin, thread>>
    BY <1>1 DEF Dispatch, WorkTyped, InotifyAssumption
  <2>2. ASSUME NEW t \in tasks' PROVE t \in Task /\ t.dir \in Below[t.cfg]
    <3>1. CASE t \in tasks
      BY <3>1 DEF WorkTyped, WorkInv
    <3>2. CASE t \notin tasks
      <4>1. Governing(d) # NoCfg /\ t = [cfg |-> Governing(d), dir |-> d]
        BY <1>1, <2>2, <3>2 DEF Dispatch
      <4>2. Governing(d) \in Path /\ d \in Below[Governing(d)]
        BY <4>1, GoverningAbove DEF ThreadTyped
      <4>3. QED
        BY <4>1, <4>2 DEF Task
    <3>3. QED
      BY <3>1, <3>2
  <2>3. QED
    BY <2>1, <2>2 DEF WorkTyped, WorkInv
<1>2. ASSUME NEW w \in Worker, PluginDone(w)
      PROVE  /\ WorkTyped' /\ WorkInv'
             /\ UNCHANGED <<queue, pc, killed, scanned, notifier, pool, stopping, late,
                            puts, thread>>
  <2>1. /\ running' = [running EXCEPT ![w] = NoTask]
        /\ plugin' = [plugin EXCEPT ![w] = NoCfg]
        /\ UNCHANGED <<queue, pc, killed, scanned, notifier, pool, stopping, late, puts,
                       tasks, events, thread>>
    BY <1>2 DEF PluginDone
  <2>2. WorkTyped'
    BY <2>1 DEF WorkTyped, Recorded
  <2>3. WorkInv'
    BY <2>1 DEF WorkInv, WorkTyped
  <2>4. QED
    BY <2>1, <2>2, <2>3
<1>3. ASSUME NEW w \in Worker, NEW t \in tasks, CallPlugin(w, t)
      PROVE  /\ WorkTyped' /\ WorkInv'
             /\ UNCHANGED <<queue, pc, killed, scanned, notifier, pool, stopping, late,
                            puts, thread>>
  <2>1. /\ tasks' = tasks \ {t}
        /\ running' = [running EXCEPT ![w] = t]
        /\ plugin' = [plugin EXCEPT ![w] = t.cfg]
        /\ UNCHANGED <<queue, pc, killed, scanned, notifier, pool, stopping, late, puts,
                       events, thread>>
    BY <1>3 DEF CallPlugin
  <2>2. t \in Task /\ t.cfg \in Recorded /\ t.dir \in Below[t.cfg]
    BY DEF WorkTyped, WorkInv, Task, Recorded
  <2>3. WorkTyped'
    BY <2>1, <2>2 DEF WorkTyped
  <2>4. WorkInv'
    BY <2>1, <2>2 DEF WorkInv, WorkTyped
  <2>5. QED
    BY <2>1, <2>3, <2>4
<1>4. QED
  BY <1>1, <1>2, <1>3 DEF EventStep

-----------------------------------------------------------------------------
(* What always holds                                                       *)

\* Before the watcher is started.
LEMMA WatchStarts == InotifyAssumption /\ Init => WatchInv
<1> SUFFICES ASSUME InotifyAssumption, Init PROVE WatchInv
  OBVIOUS
<1>1. ThreadTyped
  <2>1. queue \in Seq(Command) /\ added \subseteq Path /\ todo \subseteq Dir
    BY EmptySeq DEF Init
  <2>2. cfgPaths \in [Dir -> Recorded] /\ watches \in [Dir -> Recorded]
    BY DEF Init, Recorded
  <2>3. /\ pc = "new" /\ command = NoCfg /\ notifier = "none" /\ pool = "none"
        /\ stopping = "no" /\ late = 0 /\ puts = 0 /\ MaxCommands \in Nat
    BY DEF Init, InotifyAssumption
  <2>4. killed \in BOOLEAN /\ scanned \in BOOLEAN
    BY Zenon DEF Init
  <2>5. QED
    BY <2>1, <2>2, <2>3, <2>4 DEF ThreadTyped
<1>2. WorkTyped
  BY DEF Init, WorkTyped, InotifyAssumption, Recorded
<1>3. CommandInv /\ RecordsAbove /\ LateInv /\ WorkInv
  BY DEF Init, CommandInv, RecordsAbove, LateInv, WorkInv
<1>4. QED
  BY <1>1, <1>2, <1>3 DEF WatchInv

\* After every step.
LEMMA WatchAlways == Spec => []WatchInv
<1>1. InotifyAssumption /\ WatchInv /\ [Next]_vars => WatchInv'
  <2> SUFFICES ASSUME InotifyAssumption, WatchInv, [Next]_vars PROVE WatchInv'
    OBVIOUS
  <2> USE DEF WatchInv
  <2>1. ASSUME UNCHANGED work PROVE WorkTyped' /\ WorkInv'
    BY <2>1 DEF work, WorkTyped, WorkInv
  <2>2. CASE ThreadStep
    BY <2>1, <2>2, ThreadKeepsTypes, ThreadKeeps
  <2>3. CASE CallerStep
    BY <2>1, <2>3, CallersKeep
  <2>4. CASE EventStep
    <3>1. UNCHANGED <<queue, pc, command, todo, killed, scanned, cfgPaths, watches,
                      notifier, pool, stopping, added, late, puts>>
      BY <2>4, EventsKeep
    <3>2. ThreadTyped' /\ CommandInv' /\ RecordsAbove' /\ LateInv'
      BY <3>1 DEF ThreadTyped, CommandInv, RecordsAbove, LateInv
    <3>3. QED
      BY <2>4, <3>2, EventsKeep
  <2>5. CASE UNCHANGED vars
    BY <2>5 DEF vars, ThreadTyped, WorkTyped, CommandInv, RecordsAbove, LateInv, WorkInv
  <2>6. QED
    BY <2>2, <2>3, <2>4, <2>5 DEF Next, CallerStep, EventStep
<1>2. InotifyAssumption
  BY InotifyAssumption
<1>3. QED
  BY WatchStarts, <1>1, <1>2, PTL DEF Spec

\* Every variable of the watcher keeps its type.
THEOREM WatcherTypes == Spec => []TypeOK
<1>1. WatchInv => TypeOK
  BY DEF WatchInv, ThreadTyped, WorkTyped, TypeOK
<1>2. QED
  BY WatchAlways, <1>1, PTL

\* CallsIsolated: a plugin call works with the configuration of its own event, which is
\* one for a directory at or above the event's, whatever is recorded, forgotten or
\* dispatched meanwhile (inotify.py:430-438, 518-548).
THEOREM PluginsIsolated == Spec => []CallsIsolated
<1>1. WatchInv => CallsIsolated
  BY DEF WatchInv, WorkInv, CallsIsolated
<1>2. QED
  BY WatchAlways, <1>1, PTL

\* AtMostOneLate: however many commands are queued, a thread that was told to stop takes
\* one more at most (inotify.py:495-508).
THEOREM OneLateCommand == Spec => []AtMostOneLate
<1>1. WatchInv => AtMostOneLate
  BY DEF WatchInv, LateInv, AtMostOneLate
<1>2. QED
  BY WatchAlways, <1>1, PTL

\* RemovalFindsRecords: no sequence of commands, of failures and of exceptions makes a
\* removal meet a record that is gone, only a stop under it does (inotify.py:484-487).
THEOREM RecordsAreFound == Spec => []RemovalFindsRecords
<1>1. WatchInv => RemovalFindsRecords
  BY DEF WatchInv, CommandInv, RemovalFindsRecords
<1>2. QED
  BY WatchAlways, <1>1, PTL

-----------------------------------------------------------------------------
(* The dashboard.                                                          *)

-----------------------------------------------------------------------------
(* The rows that match                                                     *)

\* A set of numbers that is not empty has a least one.
LEMMA LeastNumber ==
  ASSUME NEW T \in SUBSET Nat, T # {}
  PROVE  \E x \in T : \A y \in T : x <= y
<1>1. PICK x \in T : \A y \in T : ~ (<<y, x>> \in OpToRel(<, Nat))
  BY NatLessThanWellFounded, WFMin
<1>2. ASSUME NEW y \in T PROVE x <= y
  <2>1. ~(y < x)
    BY <1>1 DEF OpToRel
  <2>2. QED
    BY <2>1
<1>3. QED
  BY <1>2

\* What holds of 0, and of a number after each it holds of, holds of all up to n.
LEMMA Counting ==
  ASSUME NEW n \in Nat, NEW Good \in SUBSET Nat, 0 \in Good,
         \A i \in 0 .. n - 1 : i \in Good => i + 1 \in Good
  PROVE  \A i \in 0 .. n : i \in Good
<1> DEFINE Bad == {i \in 0 .. n : i \notin Good}
<1>1. SUFFICES ASSUME Bad # {} PROVE FALSE
  OBVIOUS
<1>2. PICK x \in Bad : \A y \in Bad : x <= y
  <2>1. Bad \in SUBSET Nat
    OBVIOUS
  <2> HIDE DEF Bad
  <2>2. QED
    BY <1>1, <2>1, LeastNumber
<1>3. x \in 1 .. n /\ x - 1 \in 0 .. n - 1
  BY <1>2
<1>4. x - 1 \in Good
  BY <1>2, <1>3
<1>5. QED
  BY <1>2, <1>3, <1>4

\* The recursion of Matching, cut off after n rows.
Filter(n, keys, t, f) ==
    f = [i \in 0 .. n |->
            IF i = 0 THEN <<>>
            ELSE IF keys[i] \in t THEN Append(f[i - 1], keys[i]) ELSE f[i - 1]]

\* There is a function that it defines.
LEMMA FilterExists ==
  ASSUME NEW n \in Nat, NEW keys, NEW t
  PROVE  \E f : Filter(n, keys, t, f)
<1> DEFINE Good == {m \in Nat : \E f : Filter(m, keys, t, f)}
<1>1. 0 \in Good
  <2> DEFINE f == [i \in 0 .. 0 |-> <<>>]
  <2>1. Filter(0, keys, t, f)
    BY DEF Filter
  <2>2. QED
    BY <2>1
<1>2. ASSUME NEW m \in 0 .. n - 1, m \in Good PROVE m + 1 \in Good
  <2>1. PICK f : Filter(m, keys, t, f)
    BY <1>2
  <2> DEFINE g == [i \in 0 .. m + 1 |->
                      IF i <= m THEN f[i]
                      ELSE IF keys[i] \in t THEN Append(f[i - 1], keys[i]) ELSE f[i - 1]]
  <2>2. \A i \in 0 .. m : g[i] = f[i]
    OBVIOUS
  <2>3. \A i \in 0 .. m : f[i] = IF i = 0 THEN <<>>
                                 ELSE IF keys[i] \in t THEN Append(f[i - 1], keys[i]) ELSE f[i - 1]
    BY <2>1 DEF Filter
  <2>4. ASSUME NEW i \in 0 .. m + 1
        PROVE  g[i] = IF i = 0 THEN <<>>
                      ELSE IF keys[i] \in t THEN Append(g[i - 1], keys[i]) ELSE g[i - 1]
    <3>1. CASE i = 0
      BY <2>2, <2>3, <3>1
    <3>2. CASE i \in 1 .. m
      <4>1. i - 1 \in 0 .. m /\ i \in 0 .. m
        BY <3>2
      <4>2. QED
        BY <2>2, <2>3, <3>2, <4>1
    <3>3. CASE i = m + 1
      <4>1. i - 1 \in 0 .. m /\ i # 0 /\ ~(i <= m)
        BY <3>3
      <4>2. QED
        BY <2>2, <4>1
    <3>4. QED
      BY <3>1, <3>2, <3>3
  <2>5. Filter(m + 1, keys, t, g)
    BY <2>4 DEF Filter
  <2> HIDE DEF g
  <2>6. QED
    BY <2>5
<1>3. n \in Good
  <2>1. Good \in SUBSET Nat
    OBVIOUS
  <2> HIDE DEF Good
  <2>2. QED
    BY <1>1, <1>2, <2>1, Counting
<1>4. QED
  BY <1>3

\* What matches is a sequence of keys.
LEMMA MatchingType ==
  ASSUME NEW S, NEW keys \in Seq(S), NEW t
  PROVE  Matching(keys, t) \in Seq(S)
<1> DEFINE n == Len(keys)
           f == CHOOSE g : Filter(n, keys, t, g)
           Good == {i \in Nat : i <= n => f[i] \in Seq(S)}
<1>1. n \in Nat
  OBVIOUS
<1>2. Filter(n, keys, t, f)
  BY <1>1, FilterExists
<1>3. Matching(keys, t) = f[n]
  BY DEF Matching, Filter
<1> HIDE DEF f
<1>4. \A i \in 0 .. n : f[i] = IF i = 0 THEN <<>>
                               ELSE IF keys[i] \in t THEN Append(f[i - 1], keys[i]) ELSE f[i - 1]
  BY <1>2 DEF Filter
<1>5. 0 \in Good
  <2>1. f[0] = <<>> /\ <<>> \in Seq(S)
    BY <1>1, <1>4
  <2>2. QED
    BY <2>1
<1>6. ASSUME NEW i \in 0 .. n - 1, i \in Good PROVE i + 1 \in Good
  <2>1. f[i] \in Seq(S) /\ i + 1 \in 0 .. n /\ (i + 1) - 1 = i /\ keys[i + 1] \in S /\ i + 1 # 0
    BY <1>1, <1>6
  <2>2. f[i + 1] = IF keys[i + 1] \in t THEN Append(f[i], keys[i + 1]) ELSE f[i]
    BY <1>4, <2>1
  <2>3. Append(f[i], keys[i + 1]) \in Seq(S)
    BY <2>1
  <2>4. i + 1 \in Nat /\ f[i + 1] \in Seq(S)
    BY <2>1, <2>2, <2>3
  <2>5. QED
    BY <2>4
<1>7. n \in Good
  <2>1. Good \in SUBSET Nat
    OBVIOUS
  <2> HIDE DEF Good, n
  <2>2. \A i \in 0 .. n : i \in Good
    BY <1>1, <1>5, <1>6, <2>1, Counting
  <2>3. QED
    BY <1>1, <2>2
<1>8. QED
  BY <1>1, <1>3, <1>7

-----------------------------------------------------------------------------
(* The table                                                               *)

\* A snapshot is a sequence of keys.
LEMMA SnapshotType ==
  ASSUME NEW S \in SUBSET Key, IsFiniteSet(S), NEW order \in SetToSeqs(S)
  PROVE  order \in Seq(Key)
<1>1. Cardinality(S) \in Nat
  BY FS_CardinalityType
<1>2. order \in [1 .. Cardinality(S) -> Key]
  BY DEF SetToSeqs
<1>3. QED
  BY <1>1, <1>2

\* The messages that filling the table posts are about its rows.
LEMMA PostedType ==
  ASSUME messages \in Seq(Key), NEW j, NEW k, NEW posted \in {<<>>, <<j>>, <<k, j>>},
         posted # <<>> => j \in Key /\ k \in Key
  PROVE  messages \o posted \in Seq(Key)
<1>1. posted \in Seq(Key)
  <2>1. CASE posted = <<>>
    BY <2>1
  <2>2. CASE posted = <<j>>
    BY <2>2
  <2>3. CASE posted = <<k, j>>
    BY <2>3
  <2>4. QED
    BY <2>1, <2>2, <2>3
<1>2. QED
  BY <1>1, ConcatProperties

\* Filling the table puts the cursor and the details on the same row, and the cursor
\* on the row that it was on if that one is still there.
LEMMA RenderEffect ==
  ASSUME DashboardTypeOK, NEW newRows, newRows.keys \in Seq(Key), newRows.version \in 0 .. MaxVersion,
         NEW newTerm \in SUBSET Key, Render(newRows, newTerm)
  PROVE  /\ rows' = newRows /\ term' = newTerm
         /\ visible' \in Seq(Key) /\ cursor' \in Nat \ {0} /\ messages' \in Seq(Key)
         /\ visible' # <<>> => cursor' \in DOMAIN visible'
         /\ details' = IF visible' = <<>> THEN NoDetails
                       ELSE [key |-> visible'[cursor'], version |-> newRows.version]
         /\ cursor \in DOMAIN visible /\ Contains(visible', visible[cursor])
               => visible'[cursor'] = visible[cursor]
<1> DEFINE keys == Matching(newRows.keys, newTerm)
<1>1. keys \in Seq(Key)
  BY MatchingType
<1>2. rows' = newRows /\ term' = newTerm /\ visible' = keys /\ cursor' = CursorFor(keys)
  BY DEF Render
<1>3. details' = IF keys = <<>> THEN NoDetails
                 ELSE [key |-> keys[CursorFor(keys)], version |-> newRows.version]
  BY DEF Render, ShowCursor
<1>4. PICK posted \in {<<>>} \cup
           (IF keys = <<>> THEN {}
            ELSE {<<keys[CursorFor(keys)]>>, <<keys[1], keys[CursorFor(keys)]>>}) :
         messages' = messages \o posted
  BY DEF Render
<1> HIDE DEF keys
<1>5. DOMAIN visible = 1 .. Len(visible) /\ Len(visible) \in Nat /\ cursor \in Nat \ {0}
      /\ messages \in Seq(Key) /\ DOMAIN keys = 1 .. Len(keys) /\ Len(keys) \in Nat
  BY <1>1 DEF DashboardTypeOK
<1>6. CASE cursor <= Len(visible) /\ Contains(keys, visible[cursor])
  <2>1. CursorFor(keys) \in DOMAIN keys /\ keys[CursorFor(keys)] = visible[cursor]
    <3>1. \E i \in DOMAIN keys : keys[i] = visible[cursor]
      BY <1>5, <1>6 DEF Contains
    <3>2. QED
      BY <1>6, <3>1 DEF CursorFor
  <2>2. keys # <<>> /\ CursorFor(keys) \in Nat \ {0}
    BY <1>5, <2>1
  <2>3. keys[1] \in Key /\ keys[CursorFor(keys)] \in Key
    BY <1>1, <1>5, <2>1, <2>2
  <2>4. messages' \in Seq(Key)
    <3>1. posted \in {<<>>, <<keys[CursorFor(keys)]>>, <<keys[1], keys[CursorFor(keys)]>>}
      BY <1>4
    <3>2. QED
      BY <1>4, <1>5, <2>3, <3>1, PostedType
  <2>5. QED
    BY <1>1, <1>2, <1>3, <2>1, <2>2, <2>4
<1>7. CASE ~(cursor <= Len(visible) /\ Contains(keys, visible[cursor]))
  <2>1. CursorFor(keys) = 1
    BY <1>7 DEF CursorFor
  <2>2. keys # <<>> => 1 \in DOMAIN keys
    BY <1>1, <1>5, EmptySeq
  <2>3. keys # <<>> => keys[1] \in Key
    BY <1>1, <1>5, <2>2
  <2>4. messages' \in Seq(Key)
    <3>1. /\ posted \in {<<>>, <<keys[CursorFor(keys)]>>, <<keys[1], keys[CursorFor(keys)]>>}
          /\ posted # <<>> => keys # <<>>
      BY <1>4
    <3>2. posted # <<>> => keys[CursorFor(keys)] \in Key /\ keys[1] \in Key
      BY <2>1, <2>3, <3>1
    <3>3. QED
      BY <1>4, <1>5, <3>1, <3>2, PostedType
  <2>5. QED
    BY <1>1, <1>2, <1>3, <1>5, <1>7, <2>1, <2>2, <2>4
<1>8. QED
  BY <1>6, <1>7

-----------------------------------------------------------------------------
(* The invariant                                                           *)

\* The cursor is on a row, if there is one.
OnRow == visible # <<>> => cursor \in DOMAIN visible

\* The details are those of a row of the table.
Panel ==
    IF details = NoDetails THEN visible = <<>>
    ELSE Contains(visible, details.key) /\ details.version = rows.version

\* If they are not those of the row of the cursor, the last message will say so.
Pending ==
    visible # <<>> =>
        \/ details.key = visible[cursor]
        \/ messages # <<>> /\ messages[Len(messages)] = visible[cursor]

TableInv == DashboardTypeOK /\ OnRow /\ Panel /\ Pending

\* It holds of the empty table.
LEMMA InitTable == DashboardAssumption /\ DashboardInit => TableInv
<1> SUFFICES ASSUME DashboardAssumption, DashboardInit PROVE TableInv
  OBVIOUS
<1>1. <<>> \in Seq(Key) /\ <<>> \in Seq(Call) /\ Len(<<>>) = 0
  BY EmptySeq
<1>2. details \in [key : Key \cup {NoKey}, version : 0 .. MaxVersion]
  BY DEF DashboardAssumption, DashboardInit, NoDetails
<1>3. DashboardTypeOK
  <2>1. rows.keys \in Seq(Key) /\ rows.version \in 0 .. MaxVersion
    <3>1. rows.keys = <<>> /\ rows.version = 0
      BY DEF DashboardInit
    <3>2. QED
      BY <1>1, <3>1 DEF DashboardAssumption
  <2>2. version \in 0 .. MaxVersion
    BY DEF DashboardAssumption, DashboardInit
  <2>3. calls \in Seq(Call) /\ Len(calls) <= MaxCalls
    BY <1>1 DEF DashboardAssumption, DashboardInit
  <2>4. visible \in Seq(Key) /\ messages \in Seq(Key)
    BY <1>1 DEF DashboardInit
  <2>5. term \subseteq Key /\ cursor \in Nat \ {0}
    BY DEF DashboardInit
  <2>6. busy \in BOOLEAN /\ open \in BOOLEAN
    BY Zenon DEF DashboardInit
  <2>7. QED
    BY <1>2, <2>1, <2>2, <2>3, <2>4, <2>5, <2>6 DEF DashboardTypeOK
<1>4. QED
  BY <1>3 DEF DashboardInit, TableInv, OnRow, Panel, Pending

\* A table that was just filled is consistent.
LEMMA RenderKeeps ==
  ASSUME DashboardAssumption, DashboardTypeOK, NEW newRows, newRows.keys \in Seq(Key),
         newRows.version \in 0 .. MaxVersion, NEW newTerm \in SUBSET Key,
         Render(newRows, newTerm),
         version' \in 0 .. MaxVersion, calls' \in Seq(Call), Len(calls') <= MaxCalls,
         busy' \in BOOLEAN, open' \in BOOLEAN
  PROVE  TableInv'
<1>1. /\ rows' = newRows /\ term' = newTerm
      /\ visible' \in Seq(Key) /\ cursor' \in Nat \ {0} /\ messages' \in Seq(Key)
      /\ visible' # <<>> => cursor' \in DOMAIN visible'
      /\ details' = IF visible' = <<>> THEN NoDetails
                    ELSE [key |-> visible'[cursor'], version |-> newRows.version]
  BY RenderEffect
<1>2. CASE visible' = <<>>
  <2>1. details' = NoDetails
    BY <1>1, <1>2
  <2>2. details' \in [key : Key \cup {NoKey}, version : 0 .. MaxVersion]
    BY <2>1 DEF NoDetails, DashboardAssumption
  <2>3. QED
    BY <1>1, <1>2, <2>1, <2>2 DEF TableInv, DashboardTypeOK, OnRow, Panel, Pending
<1>3. CASE visible' # <<>>
  <2>1. visible'[cursor'] \in Key /\ cursor' \in 1 .. Len(visible')
    BY <1>1, <1>3
  <2>2. /\ details'.key = visible'[cursor'] /\ details'.version = newRows.version
        /\ details' \in [key : Key \cup {NoKey}, version : 0 .. MaxVersion]
    BY <1>1, <1>3, <2>1
  <2>3. details' # NoDetails
    BY <2>1, <2>2 DEF NoDetails, DashboardAssumption
  <2>4. QED
    BY <1>1, <1>3, <2>1, <2>2, <2>3 DEF TableInv, DashboardTypeOK, OnRow, Panel, Pending, Contains
<1>4. QED
  BY <1>2, <1>3

\* What keeps the table keeps the invariant.
LEMMA TableFrame ==
  ASSUME TableInv, UNCHANGED table, version' \in 0 .. MaxVersion, calls' \in Seq(Call),
         Len(calls') <= MaxCalls, busy' \in BOOLEAN, open' \in BOOLEAN
  PROVE  TableInv'
  BY DEF TableInv, table, DashboardTypeOK, OnRow, Panel, Pending

\* What a step does: it fills the table, moves the cursor, handles a message, or
\* leaves the table alone.
TableStep ==
    \/ UNCHANGED table
    \/ \E newRows : \E newTerm \in SUBSET Key :
          /\ newRows.keys \in Seq(Key) /\ newRows.version \in 0 .. MaxVersion
          /\ Render(newRows, newTerm)
    \/ Highlighted
    \/ \E at \in DOMAIN visible : MoveCursor(at)

\* The calls of the service stay typed.
LEMMA StepEffect ==
  ASSUME DashboardAssumption, DashboardTypeOK, [DashboardNext]_dashboardVars
  PROVE  /\ TableStep
         /\ version' \in 0 .. MaxVersion /\ calls' \in Seq(Call) /\ Len(calls') <= MaxCalls
         /\ busy' \in BOOLEAN /\ open' \in BOOLEAN
<1> DEFINE Typed == /\ version' \in 0 .. MaxVersion /\ calls' \in Seq(Call)
                    /\ Len(calls') <= MaxCalls /\ busy' \in BOOLEAN /\ open' \in BOOLEAN
<1>1. MaxVersion \in Nat /\ MaxCalls \in Nat /\ version \in 0 .. MaxVersion
      /\ calls \in Seq(Call) /\ Len(calls) <= MaxCalls /\ Len(calls) \in Nat
      /\ busy \in BOOLEAN /\ open \in BOOLEAN
      /\ rows.keys \in Seq(Key) /\ rows.version \in 0 .. MaxVersion /\ term \in SUBSET Key
  BY DEF DashboardAssumption, DashboardTypeOK
<1>2. CASE Change
  BY <1>1, <1>2 DEF Change, TableStep
<1>3. CASE Perform
  <2>1. [at |-> "started", version |-> 0] \in Call
    BY <1>1 DEF Call
  <2>2. QED
    BY <1>1, <1>3, <2>1 DEF Perform, TableStep
<1>4. ASSUME NEW i \in DOMAIN calls, Answer(i) PROVE TableStep /\ Typed
  <2>1. PICK a \in {"answered", "failed"} : calls' = [calls EXCEPT ![i] = [at |-> a, version |-> version]]
    BY <1>4 DEF Answer
  <2>2. [at |-> a, version |-> version] \in Call /\ i \in 1 .. Len(calls)
    BY <1>1 DEF Call
  <2>3. calls' \in Seq(Call) /\ Len(calls') = Len(calls)
    BY <1>1, <2>1, <2>2, ExceptSeq
  <2>4. QED
    BY <1>1, <1>4, <2>3 DEF Answer, TableStep
<1>5. ASSUME NEW i \in DOMAIN calls, Settle(i)
      PROVE  calls' \in Seq(Call) /\ Len(calls') = Len(calls) /\ UNCHANGED <<version, open>>
  <2>1. i \in 1 .. Len(calls) /\ calls[i] \in Call
    BY <1>1
  <2>2. [calls[i] EXCEPT !.at = "done"] \in Call
    BY <2>1 DEF Call
  <2>3. calls' = [calls EXCEPT ![i] = [calls[i] EXCEPT !.at = "done"]]
    BY <1>5 DEF Settle
  <2>4. QED
    BY <1>1, <1>5, <2>1, <2>2, <2>3, ExceptSeq DEF Settle
<1>6. ASSUME NEW i \in DOMAIN calls, Failed(i) PROVE TableStep /\ Typed
  BY <1>1, <1>5, <1>6 DEF Failed, TableStep
<1>7. ASSUME NEW i \in DOMAIN calls, Done(i) PROVE TableStep /\ Typed
  <2>1. Typed
    BY <1>1, <1>5, <1>7 DEF Done
  <2>2. CASE UNCHANGED table
    BY <2>1, <2>2 DEF TableStep
  <2>3. CASE ~UNCHANGED table
    <3>1. PICK S \in {T \in SUBSET Key : IsFiniteSet(T)} : \E order \in SetToSeqs(S) :
             Render([keys |-> order, version |-> calls[i].version], term)
      BY <1>7, <2>3 DEF Done
    <3>2. PICK order \in SetToSeqs(S) :
             Render([keys |-> order, version |-> calls[i].version], term)
      BY <3>1
    <3>3. order \in Seq(Key)
      BY SnapshotType
    <3>4. calls[i] \in Call /\ calls[i].version \in 0 .. MaxVersion
      <4>1. calls[i] \in Call
        BY <1>1
      <4>2. QED
        BY <4>1 DEF Call
    <3> DEFINE new == [keys |-> order, version |-> calls[i].version]
    <3>5. new.keys \in Seq(Key) /\ new.version \in 0 .. MaxVersion /\ Render(new, term)
      BY <3>2, <3>3, <3>4
    <3> HIDE DEF new
    <3>6. QED
      BY <1>1, <2>1, <3>5 DEF TableStep
  <2>4. QED
    BY <2>2, <2>3
<1>8. CASE Quit
  BY <1>1, <1>8 DEF Quit, TableStep
<1>9. CASE Highlighted
  BY <1>1, <1>9 DEF Highlighted, TableStep
<1>10. ASSUME NEW t \in SUBSET Key, Search(t) PROVE TableStep /\ Typed
  BY <1>1, <1>10 DEF Search, TableStep
<1>11. ASSUME NEW at \in DOMAIN visible, MoveCursor(at) PROVE TableStep /\ Typed
  BY <1>1, <1>11 DEF MoveCursor, TableStep
<1>12. CASE UNCHANGED dashboardVars
  BY <1>1, <1>12 DEF dashboardVars, TableStep
<1>13. QED
  BY <1>2, <1>3, <1>4, <1>6, <1>7, <1>8, <1>9, <1>10, <1>11, <1>12 DEF DashboardNext, CallStep

\* A message about the row of the cursor is obeyed, another one is dropped.
LEMMA HighlightKeeps ==
  ASSUME DashboardAssumption, TableInv, Highlighted
  PROVE  TableInv'
<1> DEFINE k == Head(messages)
<1>1. /\ messages # <<>> /\ messages \in Seq(Key) /\ visible \in Seq(Key)
      /\ UNCHANGED <<version, calls, busy, open, rows, term, visible, cursor>>
      /\ messages' = Tail(messages)
      /\ details' = IF Matches(k) /\ Contains(visible, k)
                    THEN [key |-> k, version |-> rows.version] ELSE details
  BY DEF Highlighted, TableInv, DashboardTypeOK
<1>2. /\ Len(messages) \in Nat \ {0} /\ k = messages[1] /\ k \in Key
      /\ messages' \in Seq(Key) /\ Len(messages') = Len(messages) - 1
      /\ \A i \in 1 .. Len(messages') : messages'[i] = messages[i + 1]
  BY <1>1, EmptySeq
<1> HIDE DEF k
<1>3. CASE Matches(k) /\ Contains(visible, k)
  <2>1. details'.key = k /\ details'.version = rows.version /\ visible[cursor] = k
        /\ details' \in [key : Key \cup {NoKey}, version : 0 .. MaxVersion]
    BY <1>1, <1>2, <1>3 DEF Matches, TableInv, DashboardTypeOK
  <2>2. details' # NoDetails
    BY <1>2, <2>1 DEF NoDetails, DashboardAssumption
  <2>3. QED
    BY <1>1, <1>2, <1>3, <2>1, <2>2 DEF TableInv, DashboardTypeOK, OnRow, Panel, Pending
<1>4. CASE ~(Matches(k) /\ Contains(visible, k))
  <2>1. details' = details
    BY <1>1, <1>4
  <2>2. CASE visible # <<>>
    <3>1. cursor \in 1 .. Len(visible)
      BY <1>1, <2>2 DEF TableInv, OnRow
    <3>2. k # visible[cursor]
      BY <1>1, <1>4, <3>1 DEF Matches, Contains
    <3>3. CASE details.key = visible[cursor]
      BY <1>1, <1>2, <2>1, <3>3 DEF TableInv, DashboardTypeOK, OnRow, Panel, Pending
    <3>4. CASE details.key # visible[cursor]
      <4>1. messages[Len(messages)] = visible[cursor]
        BY <2>2, <3>4 DEF TableInv, Pending
      <4>2. Len(messages) # 1
        BY <1>2, <3>2, <4>1
      <4>3. Len(messages') \in 1 .. Len(messages') /\ messages'[Len(messages')] = visible[cursor]
        BY <1>2, <4>1, <4>2
      <4>4. messages' # <<>>
        BY <1>2, <4>3, EmptySeq
      <4>5. QED
        BY <1>1, <1>2, <2>1, <4>3, <4>4 DEF TableInv, DashboardTypeOK, OnRow, Panel, Pending
    <3>5. QED
      BY <3>3, <3>4
  <2>3. CASE visible = <<>>
    BY <1>1, <1>2, <2>1, <2>3 DEF TableInv, DashboardTypeOK, OnRow, Panel, Pending
  <2>4. QED
    BY <2>2, <2>3
<1>5. QED
  BY <1>3, <1>4

\* The cursor moves, and its message comes last.
LEMMA MoveKeeps ==
  ASSUME DashboardAssumption, TableInv, NEW at \in DOMAIN visible, MoveCursor(at)
  PROVE  TableInv'
<1>1. /\ visible \in Seq(Key) /\ messages \in Seq(Key) /\ at \in 1 .. Len(visible)
      /\ Len(visible) \in Nat
  BY DEF TableInv, DashboardTypeOK
<1>2. visible[at] \in Key
  BY <1>1
<1>3. /\ messages' = Append(messages, visible[at]) /\ cursor' = at
      /\ UNCHANGED <<version, calls, busy, open, rows, term, visible, details>>
  BY DEF MoveCursor
<1>4. messages' \in Seq(Key) /\ messages' # <<>> /\ messages'[Len(messages')] = visible[at]
  BY <1>1, <1>2, <1>3, AppendProperties
<1>5. QED
  BY <1>1, <1>3, <1>4 DEF TableInv, DashboardTypeOK, OnRow, Panel, Pending

\* The invariant holds in every state.
LEMMA TableAlways == DashboardSpec => []TableInv
<1>1. DashboardAssumption /\ TableInv /\ [DashboardNext]_dashboardVars => TableInv'
  <2> SUFFICES ASSUME DashboardAssumption, TableInv, [DashboardNext]_dashboardVars PROVE TableInv'
    OBVIOUS
  <2>1. /\ TableStep
        /\ version' \in 0 .. MaxVersion /\ calls' \in Seq(Call) /\ Len(calls') <= MaxCalls
        /\ busy' \in BOOLEAN /\ open' \in BOOLEAN
    BY StepEffect DEF TableInv
  <2>2. ASSUME NEW newRows, NEW newTerm \in SUBSET Key, newRows.keys \in Seq(Key),
               newRows.version \in 0 .. MaxVersion, Render(newRows, newTerm)
        PROVE  TableInv'
    BY <2>1, <2>2, RenderKeeps DEF TableInv
  <2>3. QED
    BY <2>1, <2>2, TableFrame, HighlightKeeps, MoveKeeps DEF TableStep
<1>2. DashboardAssumption
  BY DashboardAssumption
<1>3. QED
  BY InitTable, <1>1, <1>2, PTL DEF DashboardSpec

\* DetailsCurrent: the detail panel never shows a row that the table does not, nor an
\* old version of it, and with no message under way it shows the row of the cursor,
\* however messages of earlier tables and of moves interleave with refreshes
\* (dashboard.py:144-155).
THEOREM DetailsAreCurrent == DashboardSpec => []DetailsCurrent
<1>1. TableInv => DetailsCurrent
  <2> SUFFICES ASSUME TableInv PROVE DetailsCurrent
    OBVIOUS
  <2>1. CASE details = NoDetails
    BY <2>1 DEF TableInv, Panel, DetailsCurrent
  <2>2. CASE details # NoDetails
    <3>1. Contains(visible, details.key) /\ details.version = rows.version
      BY <2>2 DEF TableInv, Panel
    <3>2. visible # <<>>
      BY <3>1, EmptySeq DEF Contains, TableInv, DashboardTypeOK
    <3>3. QED
      BY <2>2, <3>1, <3>2 DEF TableInv, Pending, DetailsCurrent
  <2>3. QED
    BY <2>1, <2>2
<1>2. QED
  BY TableAlways, <1>1, PTL

\* SelectionKept: a refresh or a search leaves the cursor on the key that it was on,
\* wherever its row is now, as long as the table still has it (dashboard.py:124-135).
THEOREM SelectionIsKept == DashboardSpec => SelectionKept
<1>1. DashboardAssumption /\ TableInv /\ [DashboardNext]_dashboardVars =>
        (\A k \in Key : /\ cursor \in DOMAIN visible /\ visible[cursor] = k
                        /\ visible' # visible /\ Contains(visible', k)
                        => visible'[cursor'] = k)
  <2> SUFFICES ASSUME DashboardAssumption, TableInv, [DashboardNext]_dashboardVars, NEW k \in Key,
                      cursor \in DOMAIN visible, visible[cursor] = k,
                      visible' # visible, Contains(visible', k)
               PROVE  visible'[cursor'] = k
    OBVIOUS
  <2>1. ASSUME NEW newRows, NEW newTerm \in SUBSET Key, newRows.keys \in Seq(Key),
               newRows.version \in 0 .. MaxVersion, Render(newRows, newTerm)
        PROVE  visible'[cursor'] = k
    BY <2>1, RenderEffect DEF TableInv
  <2>2. TableStep
    BY StepEffect DEF TableInv
  <2>3. QED
    BY <2>1, <2>2 DEF TableStep, table, Highlighted, MoveCursor
<1>2. DashboardAssumption
  BY DashboardAssumption
<1>3. QED
  BY <1>1, <1>2, TableAlways, PTL DEF DashboardSpec, SelectionKept
================================================================================
