---------------------------- MODULE RuntimeProofs ----------------------------
(***************************************************************************)
(* Proofs about Runtime, for all registries and every number of threads    *)
(* that call stop: a stop callback runs at most once, also when stop races *)
(* with initialize; with a serialized launcher nothing acquired is left    *)
(* behind and a stopped runtime stays stopped, and the runtime takes the   *)
(* steps of RuntimeLifecycle only.                                         *)
(***************************************************************************)
EXTENDS Runtime, TLAPS

-----------------------------------------------------------------------------
(* The inductive invariant, in named parts.                                *)

In(e, q) == \E i \in 1 .. Len(q) : q[i] = e
Distinct(q) == \A i, j \in 1 .. Len(q) : q[i] = q[j] => i = j

\* The callback of e is not registered yet.
Unregistered(e) == stage[e] \in {"fresh", "initialized"}

\* A callback is in one place only: in the list, in what one stop has taken, or
\* among those that were run.
PlaceInv ==
    /\ Distinct(callbacks)
    /\ \A h \in Thread : Distinct(taken[h])
    /\ \A h \in Thread : pc[h] # "callbacks" => taken[h] = <<>>
    /\ \A e \in Extension : In(e, callbacks) =>
           ran[e] = 0 /\ \A h \in Thread : ~In(e, taken[h])
    /\ \A e \in Extension, h \in Thread : In(e, taken[h]) =>
           ran[e] = 0 /\ \A g \in Thread \ {h} : ~In(e, taken[g])
    /\ \A e \in Extension : Unregistered(e) =>
           /\ ran[e] = 0 /\ ~In(e, callbacks)
           /\ \A h \in Thread : ~In(e, taken[h])
    /\ RanAtMostOnce

\* The cleanup of e was run, or a stop that was called or is to come will run it.
Accounted(e) ==
    ran[e] # 0 \/ In(e, callbacks) \/ \E h \in Thread : In(e, taken[h])

\* Nothing is acquired before its cleanup is registered.
AccountInv ==
    \A e \in Extension : e \in begun \/ stage[e] = "registered" => Accounted(e)

\* The launcher's position, in the calls that a serialized stop waits for.
Inside == pc[Launcher] \in {"claim", "initialize", "start"}

\* With a serialized launcher the list of a stopped runtime is empty, or about to
\* be taken.
StoppedInv ==
    serialized /\ state = "stopped" =>
        /\ ~Inside
        /\ callbacks = <<>> \/ \E h \in Thread : pc[h] = "take"

\* Only the launcher cleans up after a failed hook.
CleanupInv == \A h \in Stopper : pc[h] # "cleanup"

IInv == TypeOK /\ PlaceInv /\ AccountInv /\ StoppedInv /\ CleanupInv

-----------------------------------------------------------------------------
(* Sequences as the runtime uses them.                                     *)

\* What a registration adds to the list.
LEMMA InAppend ==
  ASSUME NEW S, NEW q \in Seq(S), NEW x \in S
  PROVE  \A e : In(e, Append(q, x)) <=> In(e, q) \/ e = x
<1> SUFFICES ASSUME NEW e PROVE In(e, Append(q, x)) <=> In(e, q) \/ e = x
  OBVIOUS
<1>1. /\ Len(Append(q, x)) = Len(q) + 1 /\ Len(q) \in Nat
      /\ \A i \in 1 .. Len(q) : Append(q, x)[i] = q[i]
      /\ Append(q, x)[Len(q) + 1] = x
  OBVIOUS
<1> QED BY <1>1 DEF In

\* A registration of something new keeps the list free of repetitions.
LEMMA DistinctAppend ==
  ASSUME NEW S, NEW q \in Seq(S), NEW x \in S, Distinct(q), ~In(x, q)
  PROVE  Distinct(Append(q, x))
<1>1. /\ Len(Append(q, x)) = Len(q) + 1 /\ Len(q) \in Nat
      /\ \A i \in 1 .. Len(q) : Append(q, x)[i] = q[i]
      /\ Append(q, x)[Len(q) + 1] = x
  OBVIOUS
<1> QED BY <1>1 DEF In, Distinct

\* What the loop over the callbacks leaves for its next round.
LEMMA InTail ==
  ASSUME NEW S, NEW q \in Seq(S), q # <<>>
  PROVE  /\ Head(q) \in S /\ Tail(q) \in Seq(S) /\ In(Head(q), q)
         /\ \A e : In(e, q) <=> e = Head(q) \/ In(e, Tail(q))
         /\ Distinct(q) => Distinct(Tail(q)) /\ ~In(Head(q), Tail(q))
<1>1. /\ Len(q) \in Nat \ {0} /\ Head(q) = q[1]
      /\ Tail(q) \in Seq(S) /\ Len(Tail(q)) = Len(q) - 1
      /\ \A i \in 1 .. Len(q) - 1 : Tail(q)[i] = q[i + 1]
      /\ \A i \in 1 .. Len(q) : q[i] \in S
  OBVIOUS
<1>2. \A e : In(e, q) <=> e = Head(q) \/ In(e, Tail(q))
  <2> SUFFICES ASSUME NEW e PROVE In(e, q) <=> e = Head(q) \/ In(e, Tail(q))
    OBVIOUS
  <2>1. ASSUME In(e, q), e # Head(q) PROVE In(e, Tail(q))
    <3>1. PICK i \in 1 .. Len(q) : q[i] = e
      BY <2>1 DEF In
    <3>2. i - 1 \in 1 .. Len(q) - 1 /\ Tail(q)[i - 1] = e
      BY <1>1, <2>1, <3>1
    <3> QED BY <1>1, <3>2 DEF In
  <2>2. ASSUME In(e, Tail(q)) PROVE In(e, q)
    <3>1. PICK i \in 1 .. Len(q) - 1 : Tail(q)[i] = e
      BY <1>1, <2>2 DEF In
    <3>2. i + 1 \in 1 .. Len(q) /\ q[i + 1] = e
      BY <1>1, <3>1
    <3> QED BY <3>2 DEF In
  <2>3. In(Head(q), q)
    BY <1>1 DEF In
  <2> QED BY <2>1, <2>2, <2>3
<1>3. Distinct(q) => Distinct(Tail(q)) /\ ~In(Head(q), Tail(q))
  BY <1>1 DEF Distinct, In
<1> QED BY <1>1, <1>2, <1>3 DEF In

\* The empty list holds nothing.
LEMMA InEmpty == Distinct(<<>>) /\ \A e : ~In(e, <<>>)
  BY DEF In, Distinct

-----------------------------------------------------------------------------
(* Type correctness.                                                       *)

\* The types hold at first.
LEMMA TypeInit == ASSUME RuntimeAssumption, Init PROVE TypeOK
  BY DEF RuntimeAssumption, Init, TypeOK, State, Stage, Thread

\* What a hook of e does, returning or raising, keeps the types.
LEMMA HookType ==
  ASSUME RuntimeAssumption, TypeOK, NEW e \in Extension, NEW s \in Stage,
         Hook(e, s)
  PROVE  /\ stage' \in [Extension -> Stage]
         /\ pc' \in [Thread -> {"idle", "claim", "initialize", "start", "cleanup",
                                "take", "callbacks"}]
         /\ cause' \in Extension \cup {NoError}
<1>1. CASE Succeed(e, s)
  BY <1>1 DEF TypeOK, Succeed, Reach
<1>2. CASE Raise(e)
  BY <1>2 DEF TypeOK, Raise, Go, Thread
<1>3. QED
  BY <1>1, <1>2 DEF Hook

\* Every step of the launcher keeps the types.
LEMMA LauncherType ==
  ASSUME RuntimeAssumption, TypeOK, LauncherStep PROVE TypeOK'
<1> USE RuntimeAssumption DEF TypeOK, launch
<1>0. /\ Watcher \in Extension
      /\ Module \subseteq Extension /\ Plugin \subseteq Extension
      /\ InoPlug \subseteq Extension
  BY DEF Extension
<1>1. CASE Initialize \/ Reject \/ Claim \/ Ready \/ Start \/ Running
  BY <1>1 DEF Initialize, Reject, Claim, Ready, Start, Running, Go, State
<1>2. CASE MakeWatcher
  <2>1. Hook(Watcher, "made")
    BY <1>2 DEF MakeWatcher, Hook
  <2>2. callbacks' \in Seq(Extension) /\ begun' \subseteq Extension
    <3>1. CASE UNCHANGED <<callbacks, begun>>
      BY <3>1
    <3>2. CASE callbacks' = Append(callbacks, Watcher) /\ begun' = begun \cup {Watcher}
      BY <1>0, <3>2
    <3> QED BY <1>2, <3>1, <3>2 DEF MakeWatcher, Succeed, Raise
  <2>3. "made" \in Stage
    BY DEF Stage
  <2>4. UNCHANGED <<serialized, state, lock, taken, error, ran>>
    BY <1>2 DEF MakeWatcher
  <2> HIDE DEF TypeOK
  <2>5. /\ stage' \in [Extension -> Stage]
        /\ pc' \in [Thread -> {"idle", "claim", "initialize", "start", "cleanup",
                               "take", "callbacks"}]
        /\ cause' \in Extension \cup {NoError}
    BY <1>0, <2>1, <2>3, HookType
  <2> QED BY <2>2, <2>4, <2>5 DEF TypeOK
<1>3. CASE ConfigureWatcher
  BY <1>0, <1>3, HookType DEF ConfigureWatcher, Stage
<1>4. CASE InitWatcher
  BY <1>0, <1>4, HookType DEF InitWatcher, Stage
<1>5. CASE StartWatcher
  BY <1>0, <1>5, HookType DEF StartWatcher, Stage
<1>6. ASSUME NEW e \in Module, InitModule(e) PROVE TypeOK'
  BY <1>0, <1>6, HookType DEF InitModule, Stage
<1>7. ASSUME NEW e \in Plugin, InitPlugin(e) PROVE TypeOK'
  BY <1>0, <1>7, HookType DEF InitPlugin, Stage
<1>8. ASSUME NEW e \in InoPlug, InitInoPlug(e) PROVE TypeOK'
  BY <1>0, <1>8, HookType DEF InitInoPlug, Stage
<1>9. ASSUME NEW e \in Plugin \cup InoPlug, Register(e) PROVE TypeOK'
  BY <1>0, <1>9 DEF Register, Reach, Stage
<1>10. ASSUME NEW e \in Plugin \cup InoPlug, SafeInit(e) PROVE TypeOK'
  BY <1>0, <1>10, HookType DEF SafeInit, Stage
<1>11. ASSUME NEW e \in Plugin \cup InoPlug, AtStart(e) PROVE TypeOK'
  <2>1. e \in Extension
    BY <1>0
  <2>2. Hook(e, "started") \/ Hook(e, "passive")
    BY <1>11 DEF AtStart, Hook
  <2> QED BY <1>11, <2>1, <2>2, HookType DEF AtStart, Stage
<1> QED
  BY <1>1, <1>2, <1>3, <1>4, <1>5, <1>6, <1>7, <1>8, <1>9, <1>10, <1>11
     DEF LauncherStep

\* Every step of a stop keeps the types.
LEMMA StopType ==
  ASSUME RuntimeAssumption, TypeOK, NEW h \in Thread, StopStep(h) PROVE TypeOK'
<1> USE RuntimeAssumption DEF TypeOK, launch
<1>1. CASE StopAgain(h)
  BY <1>1 DEF StopAgain, Go
<1>2. CASE StopEnter(h)
  BY <1>2 DEF StopEnter, Go, State
<1>3. CASE StopTake(h)
  BY <1>3 DEF StopTake, Go
<1>4. CASE RunCallback(h)
  <2>1. /\ taken[h] \in Seq(Extension) /\ taken[h] # <<>>
    BY <1>4 DEF RunCallback
  <2>2. Head(taken[h]) \in Extension /\ Tail(taken[h]) \in Seq(Extension)
    BY <2>1, InTail
  <2>3. taken' \in [Thread -> Seq(Extension)]
    BY <1>4, <2>2 DEF RunCallback
  <2>4. ran' \in [Extension -> Nat]
    BY <1>4, <2>2 DEF RunCallback
  <2>5. error' \in [Thread -> Extension \cup {NoError}]
    BY <1>4, <2>2 DEF RunCallback
  <2> QED BY <1>4, <2>3, <2>4, <2>5 DEF RunCallback
<1>5. CASE StopDone(h)
  BY <1>5 DEF StopDone, Go
<1> QED BY <1>1, <1>2, <1>3, <1>4, <1>5 DEF StopStep

\* Every step keeps the types.
LEMMA TypeStep ==
  ASSUME RuntimeAssumption, TypeOK, [Next]_vars PROVE TypeOK'
<1>1. CASE UNCHANGED vars
  BY <1>1 DEF vars, launch, TypeOK
<1> QED BY <1>1, LauncherType, StopType DEF Next

-----------------------------------------------------------------------------
(* What a step may do to the callbacks.                                    *)

\* The callbacks stay where they are.
Quiet ==
    /\ UNCHANGED <<callbacks, taken, ran>>
    /\ \A h \in Thread : pc'[h] # "callbacks" => taken[h] = <<>>
    /\ \A e \in Extension : Unregistered(e)' => Unregistered(e)

\* The callback of e is registered.
Registers(e) ==
    /\ Unregistered(e) /\ ~Unregistered(e)'
    /\ \A x \in Extension \ {e} : stage'[x] = stage[x]
    /\ callbacks' = Append(callbacks, e)
    /\ UNCHANGED <<taken, ran, pc>>

\* Steps that move no callback leave each in its place.
LEMMA PlaceQuiet == ASSUME PlaceInv, Quiet PROVE PlaceInv'
  BY DEF PlaceInv, Quiet, RanAtMostOnce, Unregistered

\* A callback is registered where none of that extension was.
LEMMA PlaceRegisters ==
  ASSUME TypeOK, PlaceInv, NEW e \in Extension, Registers(e) PROVE PlaceInv'
<1>1. Distinct(callbacks') /\ \A x : In(x, callbacks') <=> In(x, callbacks) \/ x = e
  BY InAppend, DistinctAppend DEF TypeOK, PlaceInv, Registers
<1>2. \A x \in Extension : Unregistered(x)' => Unregistered(x) /\ x # e
  BY DEF Registers, Unregistered
<1> QED BY <1>1, <1>2 DEF PlaceInv, Registers, RanAtMostOnce

\* A stop takes the whole list.
LEMMA PlaceTakes ==
  ASSUME TypeOK, PlaceInv, NEW h \in Thread, StopTake(h) PROVE PlaceInv'
<1>1. /\ callbacks' = <<>> /\ taken[h] = <<>> /\ taken'[h] = callbacks
      /\ \A g \in Thread \ {h} : taken'[g] = taken[g] /\ pc'[g] = pc[g]
      /\ pc'[h] = "callbacks"
      /\ ran' = ran /\ stage' = stage
  BY DEF TypeOK, PlaceInv, StopTake, At, Go, launch
<1>2. \A e \in Extension, g \in Thread :
          In(e, taken'[g]) <=> IF g = h THEN In(e, callbacks) ELSE In(e, taken[g])
  BY <1>1
<1>3. \A g \in Thread : Distinct(taken'[g])
  BY <1>1 DEF PlaceInv
<1>4. \A g \in Thread : pc'[g] # "callbacks" => taken'[g] = <<>>
  BY <1>1 DEF PlaceInv
<1>5. \A e \in Extension, g \in Thread : In(e, taken'[g]) =>
          ran[e] = 0 /\ \A k \in Thread \ {g} : ~In(e, taken'[k])
  BY <1>2 DEF PlaceInv
<1>6. \A e \in Extension : Unregistered(e) =>
          ran[e] = 0 /\ \A g \in Thread : ~In(e, taken'[g])
  BY <1>2 DEF PlaceInv
<1> QED BY <1>1, <1>3, <1>4, <1>5, <1>6, InEmpty
        DEF PlaceInv, RanAtMostOnce, Unregistered

\* A stop runs the next callback that it has taken.
LEMMA PlaceRuns ==
  ASSUME TypeOK, PlaceInv, NEW h \in Thread, RunCallback(h) PROVE PlaceInv'
<1> DEFINE x == Head(taken[h])
<1>0. taken[h] \in Seq(Extension) /\ taken[h] # <<>>
  BY DEF TypeOK, RunCallback
<1>1. /\ x \in Extension /\ In(x, taken[h]) /\ Distinct(Tail(taken[h]))
      /\ ~In(x, Tail(taken[h]))
      /\ \A e : In(e, taken[h]) <=> e = x \/ In(e, Tail(taken[h]))
  BY <1>0, InTail DEF PlaceInv
<1>2. /\ taken'[h] = Tail(taken[h])
      /\ \A g \in Thread \ {h} : taken'[g] = taken[g]
      /\ pc[h] = "callbacks"
      /\ UNCHANGED <<callbacks, stage, pc>>
  BY DEF TypeOK, RunCallback, At, launch
<1>3. /\ ran[x] = 0 /\ ran'[x] = 1
      /\ \A e \in Extension \ {x} : ran'[e] = ran[e]
  BY <1>1 DEF TypeOK, PlaceInv, RunCallback
<1>4. /\ ~In(x, callbacks) /\ ~Unregistered(x)
      /\ \A g \in Thread : ~In(x, taken'[g])
  BY <1>1, <1>2 DEF PlaceInv
<1>5. \A e \in Extension, g \in Thread :
          In(e, taken'[g]) => In(e, taken[g]) /\ e # x
  BY <1>1, <1>2, <1>4
<1>6. \A g \in Thread : Distinct(taken'[g])
  BY <1>1, <1>2 DEF PlaceInv
<1>7. \A g \in Thread : pc'[g] # "callbacks" => taken'[g] = <<>>
  BY <1>2 DEF PlaceInv
<1>8. \A e \in Extension : In(e, callbacks') =>
          ran'[e] = 0 /\ \A g \in Thread : ~In(e, taken'[g])
  BY <1>2, <1>3, <1>4, <1>5 DEF PlaceInv
<1>9. \A e \in Extension, g \in Thread : In(e, taken'[g]) =>
          ran'[e] = 0 /\ \A k \in Thread \ {g} : ~In(e, taken'[k])
  BY <1>3, <1>5 DEF PlaceInv
<1>10. \A e \in Extension : Unregistered(e)' =>
          /\ ran'[e] = 0 /\ ~In(e, callbacks')
          /\ \A g \in Thread : ~In(e, taken'[g])
  BY <1>2, <1>3, <1>4, <1>5 DEF PlaceInv, Unregistered
<1>11. RanAtMostOnce'
  BY <1>3 DEF PlaceInv, RanAtMostOnce
<1> QED BY <1>2, <1>6, <1>7, <1>8, <1>9, <1>10, <1>11 DEF PlaceInv

-----------------------------------------------------------------------------
(* The launcher's steps, by what they do to the callbacks.                 *)

\* A hook of e moves no callback, if it does not lead back before registration.
LEMMA HookQuiet ==
  ASSUME RuntimeAssumption, TypeOK, PlaceInv, NEW e \in Extension,
         NEW s \in Stage \ {"fresh", "initialized"},
         Hook(e, s), UNCHANGED <<callbacks, taken, ran>>,
         pc[Launcher] # "callbacks"
  PROVE  Quiet
<1>1. \A x \in Extension : Unregistered(x)' => Unregistered(x)
  BY DEF Hook, Succeed, Raise, Reach, TypeOK, Unregistered
<1>2. \A h \in Thread : pc'[h] # "callbacks" => pc[h] # "callbacks"
  BY DEF Hook, Succeed, Raise, Go, TypeOK, Thread
<1> QED BY <1>1, <1>2 DEF Quiet, PlaceInv

\* Every step of the launcher leaves the callbacks alone or registers one.
LEMMA LauncherEffect ==
  ASSUME RuntimeAssumption, TypeOK, PlaceInv, LauncherStep
  PROVE  Quiet \/ \E e \in Extension : Registers(e)
<1>0. /\ Watcher \in Extension /\ Launcher \in Thread
      /\ Module \subseteq Extension /\ Plugin \subseteq Extension
      /\ InoPlug \subseteq Extension
      /\ {"made", "configured", "disabled", "registered", "up", "started", "passive"}
             \subseteq Stage \ {"fresh", "initialized"}
  BY DEF Extension, Thread, Stage
<1>1. CASE Initialize \/ Reject \/ Claim \/ Ready \/ Start \/ Running
  <2>1. UNCHANGED <<callbacks, taken, ran, stage>>
    BY <1>1 DEF Initialize, Reject, Claim, Ready, Start, Running, launch
  <2>2. \A h \in Thread : pc'[h] # "callbacks" => pc[h] # "callbacks"
    BY <1>0, <1>1 DEF Initialize, Reject, Claim, Ready, Start, Running, Go, At, TypeOK
  <2> QED BY <2>1, <2>2 DEF Quiet, PlaceInv, Unregistered
<1>2. CASE MakeWatcher
  <2>1. CASE Raise(Watcher) /\ UNCHANGED <<callbacks, begun>>
    <3>1. Hook(Watcher, "made") /\ UNCHANGED <<callbacks, taken, ran>>
      BY <1>2, <2>1 DEF MakeWatcher, Hook
    <3>2. pc[Launcher] # "callbacks"
      BY <1>2 DEF MakeWatcher, At
    <3> QED BY <1>0, <3>1, <3>2, HookQuiet
  <2>2. CASE Succeed(Watcher, "made") /\ callbacks' = Append(callbacks, Watcher)
    <3>1. Registers(Watcher)
      BY <1>0, <1>2, <2>2
         DEF MakeWatcher, Registers, Succeed, Reach, TypeOK, Unregistered
    <3> QED BY <1>0, <3>1
  <2> QED BY <1>2, <2>1, <2>2 DEF MakeWatcher
<1>3. CASE ConfigureWatcher
  BY <1>0, <1>3, HookQuiet DEF ConfigureWatcher, At
<1>4. CASE InitWatcher
  BY <1>0, <1>4, HookQuiet DEF InitWatcher, At
<1>5. CASE StartWatcher
  BY <1>0, <1>5, HookQuiet DEF StartWatcher, At
<1>6. ASSUME NEW e \in Module, InitModule(e) PROVE Quiet
  BY <1>0, <1>6, HookQuiet DEF InitModule, At
<1>7. ASSUME NEW e \in Plugin \cup InoPlug, InitPlugin(e) \/ InitInoPlug(e) PROVE Quiet
  <2>0. /\ e \in Extension /\ stage[e] = "fresh" /\ pc[Launcher] # "callbacks"
        /\ UNCHANGED <<callbacks, taken, ran>>
        /\ Hook(e, "initialized") \/ Hook(e, "disabled")
    BY <1>0, <1>7 DEF InitPlugin, InitInoPlug, At
  <2>1. \A x \in Extension : Unregistered(x)' => Unregistered(x)
    BY <2>0 DEF Hook, Succeed, Raise, Reach, TypeOK, Unregistered
  <2>2. \A h \in Thread : pc'[h] # "callbacks" => pc[h] # "callbacks"
    BY <1>0, <2>0 DEF Hook, Succeed, Raise, Go, TypeOK
  <2> QED BY <2>0, <2>1, <2>2 DEF Quiet, PlaceInv
<1>8. ASSUME NEW e \in Plugin \cup InoPlug, Register(e) PROVE Registers(e)
  BY <1>0, <1>8 DEF Register, Registers, Reach, TypeOK, Unregistered
<1>9. ASSUME NEW e \in Plugin \cup InoPlug, SafeInit(e) PROVE Quiet
  BY <1>0, <1>9, HookQuiet DEF SafeInit, At
<1>10. ASSUME NEW e \in Plugin \cup InoPlug, AtStart(e) PROVE Quiet
  <2>1. Hook(e, "started") \/ Hook(e, "passive")
    BY <1>10 DEF AtStart, Hook
  <2> QED BY <1>0, <1>10, <2>1, HookQuiet DEF AtStart, At
<1> QED
  BY <1>0, <1>1, <1>2, <1>3, <1>4, <1>5, <1>6, <1>7, <1>8, <1>9, <1>10
     DEF LauncherStep

\* Every other step of a stop leaves the callbacks alone.
LEMMA StopEffect ==
  ASSUME TypeOK, PlaceInv, NEW h \in Thread, StopStep(h)
  PROVE  Quiet \/ StopTake(h) \/ RunCallback(h)
<1>1. ASSUME StopAgain(h) \/ StopEnter(h) \/ StopDone(h) PROVE Quiet
  <2>1. UNCHANGED <<callbacks, taken, ran, stage>>
    BY <1>1 DEF StopAgain, StopEnter, StopDone, launch
  <2>2. \A g \in Thread : pc'[g] # "callbacks" => taken[g] = <<>>
    BY <1>1 DEF StopAgain, StopEnter, StopDone, MayStop, At, Go, TypeOK, PlaceInv
  <2> QED BY <2>1, <2>2 DEF Quiet, Unregistered
<1> QED BY <1>1 DEF StopStep

\* Each callback stays in one place at most.
LEMMA PlaceStep ==
  ASSUME RuntimeAssumption, TypeOK, PlaceInv, [Next]_vars PROVE PlaceInv'
<1>1. CASE UNCHANGED vars
  BY <1>1 DEF vars, launch, PlaceInv, RanAtMostOnce, Unregistered
<1>2. CASE LauncherStep
  BY <1>2, LauncherEffect, PlaceQuiet, PlaceRegisters
<1>3. ASSUME NEW h \in Thread, StopStep(h) PROVE PlaceInv'
  BY <1>3, StopEffect, PlaceQuiet, PlaceTakes, PlaceRuns
<1> QED BY <1>1, <1>2, <1>3 DEF Next

-----------------------------------------------------------------------------
(* No cleanup is forgotten.                                                *)

\* A cleanup that was accounted for stays so, wherever its callback moves.
LEMMA AccountKept ==
  ASSUME RuntimeAssumption, TypeOK, PlaceInv, [Next]_vars,
         NEW e \in Extension, Accounted(e)
  PROVE  Accounted(e)'
<1>1. CASE UNCHANGED <<callbacks, taken, ran>>
  BY <1>1 DEF Accounted
<1>2. ASSUME NEW x \in Extension, Registers(x) PROVE Accounted(e)'
  <2>1. In(e, callbacks) => In(e, callbacks')
    BY <1>2, InAppend DEF TypeOK, Registers
  <2> QED BY <1>2, <2>1 DEF Accounted, Registers
<1>3. ASSUME NEW h \in Thread, StopTake(h) PROVE Accounted(e)'
  <2>1. /\ taken[h] = <<>> /\ taken'[h] = callbacks /\ ran' = ran
        /\ \A g \in Thread \ {h} : taken'[g] = taken[g]
    BY <1>3 DEF TypeOK, PlaceInv, StopTake, At
  <2> QED BY <2>1, InEmpty DEF Accounted
<1>4. ASSUME NEW h \in Thread, RunCallback(h) PROVE Accounted(e)'
  <2>1. taken[h] \in Seq(Extension) /\ taken[h] # <<>>
    BY <1>4 DEF TypeOK, RunCallback
  <2>2. /\ Head(taken[h]) \in Extension
        /\ In(e, taken[h]) => e = Head(taken[h]) \/ In(e, Tail(taken[h]))
    BY <2>1, InTail
  <2>3. /\ taken'[h] = Tail(taken[h]) /\ callbacks' = callbacks
        /\ \A g \in Thread \ {h} : taken'[g] = taken[g]
        /\ ran'[Head(taken[h])] # 0
        /\ \A x \in Extension : ran[x] # 0 => ran'[x] # 0
    BY <1>4, <2>2 DEF TypeOK, RunCallback
  <2> QED BY <2>2, <2>3 DEF Accounted
<1>5. CASE UNCHANGED vars
  BY <1>1, <1>5 DEF vars
<1> QED
  BY <1>1, <1>2, <1>3, <1>4, <1>5, LauncherEffect, StopEffect DEF Next, Quiet

\* Only Register leads to the stage "registered".
LEMMA HookRegisters ==
  ASSUME TypeOK, NEW x \in Extension, NEW s \in Stage \ {"registered"}, Hook(x, s)
  PROVE  \A e \in Extension : stage'[e] = "registered" => stage[e] = "registered"
  BY DEF Hook, Succeed, Raise, Reach, TypeOK

\* What newly acquires has its callback in the list.
LEMMA Acquired ==
  ASSUME RuntimeAssumption, TypeOK, [Next]_vars, NEW e \in Extension,
         e \in begun' \/ stage'[e] = "registered"
  PROVE  e \in begun \/ stage[e] = "registered" \/ In(e, callbacks')
<1> DEFINE Before == e \in begun \/ stage[e] = "registered"
<1>0. /\ Watcher \in Extension
      /\ Module \subseteq Extension /\ Plugin \subseteq Extension
      /\ InoPlug \subseteq Extension
  BY DEF Extension
<1>1. {"made", "configured", "initialized", "disabled", "up", "started", "passive"}
          \subseteq Stage \ {"registered"}
  BY DEF Stage
<1>2. CASE MakeWatcher
  <2>1. In(Watcher, Append(callbacks, Watcher))
    BY <1>0, InAppend DEF TypeOK
  <2> QED BY <1>0, <1>2, <2>1 DEF MakeWatcher, Succeed, Raise, Reach, TypeOK
<1>3. ASSUME NEW x \in Plugin \cup InoPlug, Register(x)
      PROVE  Before \/ In(e, callbacks')
  <2>1. In(x, Append(callbacks, x))
    BY <1>0, InAppend DEF TypeOK
  <2> QED BY <1>0, <1>3, <2>1 DEF Register, Reach, TypeOK
<1>4. CASE Initialize \/ Reject \/ Claim \/ Ready \/ Start \/ Running
  BY <1>4 DEF Initialize, Reject, Claim, Ready, Start, Running, launch
<1>5. CASE ConfigureWatcher \/ InitWatcher \/ StartWatcher
  <2>1. begun' = begun
    BY <1>5 DEF ConfigureWatcher, InitWatcher, StartWatcher
  <2>2. Hook(Watcher, "configured") \/ Hook(Watcher, "up") \/ Hook(Watcher, "started")
    BY <1>5 DEF ConfigureWatcher, InitWatcher, StartWatcher
  <2> QED BY <1>0, <1>1, <2>1, <2>2, HookRegisters
<1>6. ASSUME NEW x \in Module, InitModule(x) PROVE Before
  <2>1. begun' = begun /\ Hook(x, "up")
    BY <1>6 DEF InitModule
  <2> QED BY <1>0, <1>1, <2>1, HookRegisters
<1>7. ASSUME NEW x \in Plugin \cup InoPlug,
             InitPlugin(x) \/ InitInoPlug(x) \/ SafeInit(x)
      PROVE  Before
  <2>1. \/ begun' = begun
        \/ begun' = begun \cup {x} /\ stage[x] = "registered"
    <3>1. ASSUME InitPlugin(x) \/ InitInoPlug(x) PROVE begun' = begun
      BY <3>1 DEF InitPlugin, InitInoPlug
    <3>2. CASE SafeInit(x)
      BY <3>2 DEF SafeInit
    <3> QED BY <1>7, <3>1, <3>2
  <2>2. Hook(x, "initialized") \/ Hook(x, "disabled") \/ Hook(x, "up")
    BY <1>7 DEF InitPlugin, InitInoPlug, SafeInit
  <2>3. stage'[e] = "registered" => stage[e] = "registered"
    BY <1>0, <1>1, <2>2, HookRegisters
  <2> QED BY <2>1, <2>3
<1>8. ASSUME NEW x \in Plugin \cup InoPlug, AtStart(x) PROVE Before
  <2>1. begun' = begun
    BY <1>8 DEF AtStart
  <2>2. Hook(x, "started") \/ Hook(x, "passive")
    BY <1>8 DEF AtStart, Hook
  <2> QED BY <1>0, <1>1, <2>1, <2>2, HookRegisters
<1>9. ASSUME NEW h \in Thread, StopStep(h) PROVE Before
  BY <1>9 DEF StopStep, StopAgain, StopEnter, StopTake, RunCallback, StopDone, launch
<1>10. CASE UNCHANGED vars
  BY <1>10 DEF vars, launch
<1> QED
  BY <1>2, <1>3, <1>4, <1>5, <1>6, <1>7, <1>8, <1>9, <1>10 DEF Next, LauncherStep

\* AccountInv is kept by every step.
LEMMA AccountStep ==
  ASSUME RuntimeAssumption, TypeOK, PlaceInv, AccountInv, [Next]_vars
  PROVE  AccountInv'
<1> SUFFICES ASSUME NEW e \in Extension, e \in begun' \/ stage'[e] = "registered"
             PROVE  Accounted(e)'
  BY DEF AccountInv
<1>1. CASE In(e, callbacks')
  BY <1>1 DEF Accounted
<1>2. CASE e \in begun \/ stage[e] = "registered"
  BY <1>2, AccountKept DEF AccountInv
<1> QED BY <1>1, <1>2, Acquired

-----------------------------------------------------------------------------
(* Stopped for good.                                                       *)

\* Nothing that a launcher does leads into, or takes place in, a stopped runtime,
\* if it serializes its calls.
LEMMA LauncherLive ==
  ASSUME TypeOK, StoppedInv, LauncherStep, serialized
  PROVE  state # "stopped" /\ state' # "stopped"
<1>1. CASE Initialize \/ Start
  BY <1>1 DEF Initialize, Start
<1>2. CASE Reject \/ Claim \/ Ready \/ Running
  BY <1>2 DEF Reject, Claim, Ready, Running, At, StoppedInv, Inside
<1>3. ASSUME At(Launcher, "initialize") \/ At(Launcher, "start"), state' = state
      PROVE  state # "stopped" /\ state' # "stopped"
  BY <1>3 DEF At, StoppedInv, Inside
<1>4. CASE MakeWatcher \/ ConfigureWatcher \/ InitWatcher \/ StartWatcher
  BY <1>3, <1>4 DEF MakeWatcher, ConfigureWatcher, InitWatcher, StartWatcher
<1>5. ASSUME NEW e \in Extension,
             \/ InitModule(e) \/ InitPlugin(e) \/ InitInoPlug(e)
             \/ Register(e) \/ SafeInit(e) \/ AtStart(e)
      PROVE  state # "stopped" /\ state' # "stopped"
  BY <1>3, <1>5 DEF InitModule, InitPlugin, InitInoPlug, Register, SafeInit, AtStart
<1> QED BY <1>1, <1>2, <1>4, <1>5 DEF LauncherStep, Extension

\* A step of the launcher moves the launcher alone.
LEMMA LauncherMoves ==
  ASSUME RuntimeAssumption, TypeOK, LauncherStep
  PROVE  \A h \in Stopper : pc'[h] = pc[h]
<1> USE RuntimeAssumption DEF TypeOK, RuntimeAssumption, Thread
<1>1. CASE Initialize \/ Reject \/ Claim \/ Ready \/ Start \/ Running
  BY <1>1 DEF Initialize, Reject, Claim, Ready, Start, Running, Go
<1>2. ASSUME NEW e, NEW s, Succeed(e, s) \/ Raise(e) \/ Hook(e, s)
      PROVE  \A h \in Stopper : pc'[h] = pc[h]
  BY <1>2 DEF Hook, Succeed, Raise, Go
<1>3. CASE MakeWatcher
  BY <1>2, <1>3 DEF MakeWatcher
<1>4. CASE ConfigureWatcher
  BY <1>2, <1>4 DEF ConfigureWatcher
<1>5. CASE InitWatcher \/ StartWatcher
  BY <1>2, <1>5 DEF InitWatcher, StartWatcher
<1>6. ASSUME NEW e \in Extension,
             \/ InitModule(e) \/ InitPlugin(e) \/ InitInoPlug(e)
             \/ SafeInit(e) \/ AtStart(e)
      PROVE  \A h \in Stopper : pc'[h] = pc[h]
  BY <1>2, <1>6 DEF InitModule, InitPlugin, InitInoPlug, SafeInit, AtStart
<1>7. ASSUME NEW e \in Extension, Register(e) PROVE \A h \in Stopper : pc'[h] = pc[h]
  BY <1>7 DEF Register
<1> QED BY <1>1, <1>3, <1>4, <1>5, <1>6, <1>7 DEF LauncherStep, Extension

\* StoppedInv and CleanupInv are kept by every step.
LEMMA StoppedStep ==
  ASSUME RuntimeAssumption, TypeOK, StoppedInv, CleanupInv, [Next]_vars
  PROVE  StoppedInv' /\ CleanupInv'
<1>1. CASE UNCHANGED vars
  BY <1>1 DEF vars, StoppedInv, CleanupInv, Inside
<1>2. CASE LauncherStep
  <2>1. serialized' = serialized
    BY <1>2 DEF LauncherStep, Initialize, Reject, Claim, MakeWatcher, ConfigureWatcher,
                InitWatcher, Ready, InitModule, InitPlugin, InitInoPlug, Register,
                SafeInit, Start, StartWatcher, Running, AtStart
  <2>2. \A h \in Stopper : pc'[h] = pc[h]
    BY <1>2, LauncherMoves
  <2> QED BY <1>2, <2>1, <2>2, LauncherLive DEF StoppedInv, CleanupInv
<1>3. ASSUME NEW h \in Thread, StopStep(h) PROVE StoppedInv' /\ CleanupInv'
  <2> USE DEF StoppedInv, CleanupInv, Inside, TypeOK, At, Go, Thread
  <2>1. CASE StopAgain(h)
    BY <1>3, <2>1 DEF StopAgain, MayStop
  <2>2. CASE StopEnter(h)
    <3>1. serialized => ~Inside'
      BY <2>2, RuntimeAssumption DEF StopEnter, MayStop, RuntimeAssumption
    <3>2. pc'[h] = "take" /\ serialized' = serialized
      BY <2>2 DEF StopEnter
    <3>3. CleanupInv'
      BY <2>2 DEF StopEnter
    <3> QED BY <3>1, <3>2, <3>3
  <2>3. CASE StopTake(h)
    BY <2>3 DEF StopTake
  <2>4. CASE RunCallback(h)
    BY <2>4 DEF RunCallback
  <2>5. CASE StopDone(h)
    BY <2>5 DEF StopDone
  <2> QED BY <1>3, <2>1, <2>2, <2>3, <2>4, <2>5 DEF StopStep
<1> QED BY <1>1, <1>2, <1>3 DEF Next

-----------------------------------------------------------------------------
(* The theorems.                                                           *)

\* Init establishes the invariant.
LEMMA InvInit == ASSUME RuntimeAssumption, Init PROVE IInv
<1>1. TypeOK
  BY TypeInit
<1>2. PlaceInv
  BY InEmpty DEF Init, PlaceInv, RanAtMostOnce
<1>3. AccountInv /\ StoppedInv /\ CleanupInv
  BY DEF Init, AccountInv, StoppedInv, CleanupInv, Thread
<1> QED BY <1>1, <1>2, <1>3 DEF IInv

\* IInv holds of every reachable state.
LEMMA Invariance == ASSUME RuntimeAssumption PROVE Spec => []IInv
<1>1. Init => IInv
  BY InvInit
<1>2. IInv /\ [Next]_vars => IInv'
  BY TypeStep, PlaceStep, AccountStep, StoppedStep DEF IInv
<1> QED BY <1>1, <1>2, PTL DEF Spec

\* Every variable keeps its type: in particular what is taken is always a list of
\* extensions, and the exception that a stop raises is that of one of them.
THEOREM TypeCorrect == Spec => []TypeOK
<1>1. IInv => TypeOK
  BY DEF IInv
<1> QED BY <1>1, Invariance, RuntimeAssumption, PTL

\* No stop callback runs twice, however many stops overlap with each other and with
\* initialize or start.
THEOREM CallbacksRunOnce == Spec => []RanAtMostOnce
<1>1. IInv => RanAtMostOnce
  BY DEF IInv, PlaceInv
<1> QED BY <1>1, Invariance, RuntimeAssumption, PTL

\* Once a serialized launcher's runtime is stopped and all calls have returned, each
\* extension that began to acquire resources was cleaned up exactly once.
THEOREM AllCleanedUp == Spec => []NothingLeftBehind
<1>1. ASSUME IInv PROVE NothingLeftBehind
  <2> SUFFICES ASSUME serialized, \A h \in Thread : At(h, "idle"), state = "stopped",
                      NEW e \in begun
               PROVE  ran[e] = 1
    BY DEF NothingLeftBehind
  <2>1. e \in Extension /\ ran[e] \in Nat /\ ran[e] <= 1
    BY <1>1 DEF IInv, TypeOK, PlaceInv, RanAtMostOnce
  <2>2. callbacks = <<>> /\ \A h \in Thread : taken[h] = <<>>
    BY <1>1 DEF IInv, StoppedInv, PlaceInv, At
  <2>3. ran[e] # 0
    BY <1>1, <2>1, <2>2, InEmpty DEF IInv, AccountInv, Accounted
  <2> QED BY <2>1, <2>3
<1> QED BY <1>1, Invariance, RuntimeAssumption, PTL

\* The lifecycle is one-shot: no call leads a serialized launcher's runtime out of
\* 'stopped'.
THEOREM NeverRestarts == Spec => StoppedForGood
<1>1. ASSUME IInv, [Next]_vars PROVE [serialized /\ state = "stopped" => state' = "stopped"]_vars
  <2>1. CASE UNCHANGED vars
    BY <2>1
  <2>2. CASE LauncherStep
    BY <1>1, <2>2, LauncherLive DEF IInv
  <2>3. ASSUME NEW h \in Thread, StopStep(h) PROVE state = "stopped" => state' = "stopped"
    BY <2>3 DEF StopStep, StopAgain, StopEnter, StopTake, RunCallback, StopDone
  <2> QED BY <1>1, <2>1, <2>2, <2>3 DEF Next
<1> QED BY <1>1, Invariance, RuntimeAssumption, PTL DEF Spec, StoppedForGood

-----------------------------------------------------------------------------
(* The refinement of RuntimeLifecycle, its fairness apart.                 *)

\* With a serialized launcher the state is that of the call in progress.
CallPhase ==
    /\ pc[Launcher] = "claim" => state = "new"
    /\ pc[Launcher] = "initialize" => state = "initializing"
    /\ pc[Launcher] = "start" => state = "starting"
StopPhase == \A h \in Thread : pc[h] \in {"take", "callbacks"} => state = "stopped"
PhaseInv == serialized => CallPhase /\ StopPhase

\* The runtime advances to the next phase, its callbacks as they are.
Advances ==
    /\ \/ state = "new" /\ state' = "initializing"
       \/ state = "initializing" /\ state' = "ready"
       \/ state = "ready" /\ state' = "starting"
       \/ state = "starting" /\ state' = "running"
    /\ UNCHANGED <<callbacks, taken, ran>>

\* A hook keeps the launcher in its call, or has it clean up.
LEMMA HookPhase ==
  ASSUME RuntimeAssumption, TypeOK, CallPhase, NEW e, NEW s, Succeed(e, s) \/ Raise(e),
         state' = state
  PROVE  CallPhase' /\ pc'[Launcher] \in {pc[Launcher], "cleanup"}
  BY DEF Succeed, Raise, Go, TypeOK, Thread, CallPhase

\* A serialized launcher advances the runtime by calls that have their turn, and
\* registers callbacks during initialize alone.
LEMMA LauncherPhase ==
  ASSUME RuntimeAssumption, TypeOK, CallPhase, LauncherStep
  PROVE  /\ CallPhase' /\ UNCHANGED serialized
         /\ pc[Launcher] \notin {"take", "callbacks"}
         /\ pc'[Launcher] \notin {"take", "callbacks"}
         /\ state' = state \/ Advances
         /\ callbacks' # callbacks => state = "initializing" /\ state' = state
<1> DEFINE Goal == /\ CallPhase' /\ UNCHANGED serialized
                   /\ pc[Launcher] \notin {"take", "callbacks"}
                   /\ pc'[Launcher] \notin {"take", "callbacks"}
                   /\ state' = state \/ Advances
                   /\ callbacks' # callbacks => state = "initializing" /\ state' = state
<1> SUFFICES Goal
  OBVIOUS
<1>0. Launcher \in Thread
  BY DEF Thread
<1>1. CASE Initialize \/ Reject \/ Claim \/ Ready \/ Start \/ Running
  BY <1>0, <1>1 DEF Initialize, Reject, Claim, Ready, Start, Running, Go, At, launch,
                    TypeOK, CallPhase, Advances
<1>2. ASSUME NEW e, NEW s, Succeed(e, s) \/ Raise(e),
             UNCHANGED <<serialized, state>>, pc[Launcher] \in {"initialize", "start"},
             callbacks' # callbacks => pc[Launcher] = "initialize"
      PROVE  Goal
  <2>1. CallPhase' /\ pc'[Launcher] \in {pc[Launcher], "cleanup"}
    BY <1>2, HookPhase
  <2>2. QED
    BY <1>2, <2>1 DEF CallPhase
<1>3. CASE MakeWatcher
  <2>1. \E s : Succeed(Watcher, s) \/ Raise(Watcher)
    BY <1>3 DEF MakeWatcher
  <2>2. UNCHANGED <<serialized, state>> /\ pc[Launcher] = "initialize"
    BY <1>3 DEF MakeWatcher, At
  <2>3. QED
    BY <1>2, <2>1, <2>2
<1>4. CASE ConfigureWatcher \/ InitWatcher \/ StartWatcher
  <2>1. \E s : Succeed(Watcher, s) \/ Raise(Watcher)
    BY <1>4 DEF ConfigureWatcher, InitWatcher, StartWatcher, Hook
  <2>2. UNCHANGED <<serialized, state, callbacks>> /\ pc[Launcher] \in {"initialize", "start"}
    BY <1>4 DEF ConfigureWatcher, InitWatcher, StartWatcher, At
  <2>3. QED
    BY <1>2, <2>1, <2>2
<1>5. ASSUME NEW e, \/ InitModule(e) \/ InitPlugin(e) \/ InitInoPlug(e)
                    \/ SafeInit(e) \/ AtStart(e)
      PROVE  Goal
  <2>1. \E s : Succeed(e, s) \/ Raise(e)
    BY <1>5 DEF InitModule, InitPlugin, InitInoPlug, SafeInit, AtStart, Hook
  <2>2. UNCHANGED <<serialized, state, callbacks>> /\ pc[Launcher] \in {"initialize", "start"}
    BY <1>5 DEF InitModule, InitPlugin, InitInoPlug, SafeInit, AtStart, At
  <2>3. QED
    BY <1>2, <2>1, <2>2
<1>6. ASSUME NEW e, Register(e) PROVE Goal
  BY <1>6 DEF Register, At, CallPhase
<1> HIDE DEF Goal
<1>7. /\ \A e : InitModule(e) => Goal
      /\ \A e : InitPlugin(e) \/ InitInoPlug(e) => Goal
      /\ \A e : Register(e) \/ SafeInit(e) \/ AtStart(e) => Goal
  BY <1>5, <1>6
<1> QED BY <1>1, <1>3, <1>4, <1>7 DEF LauncherStep

\* A stop sets the state under the lock, outside the launcher's calls, and keeps it.
LEMMA StopKeepsPhase ==
  ASSUME RuntimeAssumption, TypeOK, CleanupInv, serialized, CallPhase, StopPhase,
         NEW h \in Thread, StopStep(h)
  PROVE  CallPhase' /\ StopPhase' /\ UNCHANGED serialized
<1> USE RuntimeAssumption DEF TypeOK, CallPhase, StopPhase, At, Go, Thread
<1>1. CASE StopAgain(h)
  BY <1>1 DEF StopAgain
<1>2. CASE StopEnter(h)
  <2>1. pc'[Launcher] \notin {"claim", "initialize", "start"}
    BY <1>2 DEF StopEnter, MayStop, CleanupInv, RuntimeAssumption
  <2>2. QED
    BY <1>2, <2>1 DEF StopEnter
<1>3. CASE StopTake(h)
  BY <1>3 DEF StopTake
<1>4. CASE RunCallback(h)
  BY <1>4 DEF RunCallback, launch
<1>5. CASE StopDone(h)
  BY <1>5 DEF StopDone
<1>6. QED
  BY <1>1, <1>2, <1>3, <1>4, <1>5 DEF StopStep

\* Every step keeps the state in step with the calls.
LEMMA PhaseStep ==
  ASSUME RuntimeAssumption, IInv, PhaseInv, [Next]_vars
  PROVE  PhaseInv'
<1> USE DEF IInv
<1>1. CASE UNCHANGED vars
  BY <1>1 DEF vars, PhaseInv, CallPhase, StopPhase
<1>2. CASE LauncherStep
  <2>1. serialized' = serialized
    BY <1>2 DEF LauncherStep, Initialize, Reject, Claim, MakeWatcher, ConfigureWatcher,
                InitWatcher, Ready, InitModule, InitPlugin, InitInoPlug, Register,
                SafeInit, Start, StartWatcher, Running, AtStart
  <2>2. SUFFICES ASSUME serialized PROVE CallPhase' /\ StopPhase'
    BY <2>1 DEF PhaseInv
  <2>3. CallPhase' /\ pc'[Launcher] \notin {"take", "callbacks"}
    BY <1>2, <2>2, LauncherPhase DEF PhaseInv
  <2>4. \A h \in Thread : pc'[h] \in {"take", "callbacks"} => pc'[h] = pc[h]
    BY <1>2, <2>3, LauncherMoves DEF Thread
  <2>5. state # "stopped"
    BY <1>2, <2>2, LauncherLive
  <2>6. QED
    BY <2>2, <2>3, <2>4, <2>5 DEF PhaseInv, StopPhase
<1>3. ASSUME NEW h \in Thread, StopStep(h) PROVE PhaseInv'
  <2>1. serialized' = serialized
    BY <1>3 DEF StopStep, StopAgain, StopEnter, StopTake, RunCallback, StopDone
  <2>2. QED
    BY <1>3, <2>1, StopKeepsPhase DEF PhaseInv
<1>4. QED
  BY <1>1, <1>2, <1>3 DEF Next

\* What is owed is what is registered and what a stop has taken, in whatever lists.
LEMMA OwedIn ==
  ASSUME NEW list \in Seq(Extension), NEW lists \in [Thread -> Seq(Extension)]
  PROVE  \A e : e \in Elements(list) \cup UNION {Elements(lists[h]) : h \in Thread}
                 <=> In(e, list) \/ \E h \in Thread : In(e, lists[h])
<1>1. ASSUME NEW q \in Seq(Extension), NEW e PROVE e \in Elements(q) <=> In(e, q)
  <2>1. DOMAIN q = 1 .. Len(q)
    OBVIOUS
  <2>2. QED
    BY <2>1 DEF Elements, In
<1>2. QED
  BY <1>1

\* So it is before a step and after it.
LEMMA OwedIs ==
  ASSUME TypeOK
  PROVE  \A e : e \in Owed <=> In(e, callbacks) \/ \E h \in Thread : In(e, taken[h])
  BY OwedIn DEF TypeOK, Owed
\* The same, of what a step leads to.
LEMMA OwedWillBe ==
  ASSUME TypeOK'
  PROVE  \A e : e \in Owed' <=> In(e, callbacks') \/ \E h \in Thread : In(e, taken'[h])
  BY OwedIn DEF TypeOK, Owed

\* A step that moves no callback.
LEMMA SameOwed ==
  ASSUME UNCHANGED <<callbacks, taken, ran>>
  PROVE  Owed' = Owed /\ {e \in Extension : ran[e] > 0}' = {e \in Extension : ran[e] > 0}
  BY DEF Owed, Elements

\* Of a launcher that does not serialize nothing is specified.
LEMMA UnspecifiedStep ==
  ASSUME ~serialized, UNCHANGED serialized
  PROVE  [Lifecycle!Next]_Lifecycle!vars
  BY DEF Lifecycle!vars, Promised

\* The calls of the launcher advance the phase or acquire.
LEMMA LauncherImplements ==
  ASSUME RuntimeAssumption, IInv, PhaseInv, serialized, LauncherStep
  PROVE  [Lifecycle!Next]_Lifecycle!vars
<1>1. /\ serialized' /\ (state' = state \/ Advances)
      /\ callbacks' # callbacks => state = "initializing" /\ state' = state
  BY LauncherPhase DEF IInv, PhaseInv
<1>2. ASSUME UNCHANGED <<callbacks, taken, ran>> PROVE [Lifecycle!Next]_Lifecycle!vars
  <2>1. /\ Promised(Owed)' = Promised(Owed)
        /\ Promised({e \in Extension : ran[e] > 0})' = Promised({e \in Extension : ran[e] > 0})
    BY <1>1, <1>2, SameOwed DEF Promised
  <2>2. CASE state' = state
    BY <1>1, <2>1, <2>2 DEF Lifecycle!vars
  <2>3. CASE Advances
    <3>1. \E i \in 1 .. 4 : state = Lifecycle!Phase[i] /\ state' = Lifecycle!Phase[i + 1]
      BY <2>3 DEF Advances, Lifecycle!Phase
    <3>2. Lifecycle!Advance
      BY <1>1, <2>1, <3>1 DEF Lifecycle!Advance
    <3>3. QED
      BY <3>2 DEF Lifecycle!Next
  <2>4. QED
    BY <1>1, <2>2, <2>3
<1>3. ASSUME NEW x \in Extension, Registers(x) PROVE Lifecycle!Next
  <2>1. /\ callbacks \in Seq(Extension) /\ callbacks' = Append(callbacks, x)
        /\ UNCHANGED <<taken, ran>> /\ TypeOK'
    BY <1>3, LauncherType DEF Registers, IInv, TypeOK
  <2>2. \A e : In(e, callbacks') <=> In(e, callbacks) \/ e = x
    BY <2>1, InAppend
  <2>3. x \notin Owed /\ ran[x] = 0
    BY <1>3, OwedIs DEF IInv, PlaceInv, Registers
  <2>4. \A e : e \in Owed' <=> In(e, callbacks') \/ \E h \in Thread : In(e, taken'[h])
    BY <2>1, OwedWillBe
  <2>5. Owed' = Owed \cup {x}
    BY <2>1, <2>2, <2>4, OwedIs DEF IInv
  <2>6. callbacks' # callbacks
    BY <2>1
  <2>7. Lifecycle!Acquire(x)
    BY <1>1, <2>1, <2>3, <2>5, <2>6 DEF Lifecycle!Acquire, Promised
  <2>8. QED
    BY <2>7 DEF Lifecycle!Next
<1>4. CASE Quiet
  BY <1>2, <1>4 DEF Quiet
<1>5. QED
  BY <1>3, <1>4, LauncherEffect DEF IInv

\* The steps of a stop stop the runtime or release what one callback owes.
LEMMA StopImplements ==
  ASSUME RuntimeAssumption, IInv, PhaseInv, serialized, NEW h \in Thread, StopStep(h)
  PROVE  [Lifecycle!Next]_Lifecycle!vars
<1>0. serialized' = serialized /\ TypeOK'
  BY StopType DEF IInv, StopStep, StopAgain, StopEnter, StopTake, RunCallback, StopDone
<1>1. CASE StopAgain(h) \/ StopDone(h)
  <2>1. UNCHANGED <<state, callbacks, taken, ran>>
    BY <1>1 DEF StopAgain, StopDone
  <2>2. QED
    BY <1>0, <2>1, SameOwed DEF Lifecycle!vars, Promised
<1>2. CASE StopEnter(h)
  <2>1. UNCHANGED <<callbacks, taken, ran>> /\ state # "stopped" /\ state' = "stopped"
    BY <1>2 DEF StopEnter
  <2>2. state # "unspecified"
    BY DEF IInv, TypeOK, State
  <2>3. Lifecycle!Stop
    BY <1>0, <2>1, <2>2, SameOwed DEF Lifecycle!Stop, Promised
  <2>4. QED
    BY <2>3 DEF Lifecycle!Next
<1>3. CASE StopTake(h)
  <2>1. /\ callbacks' = <<>> /\ taken[h] = <<>> /\ taken'[h] = callbacks
        /\ \A g \in Thread \ {h} : taken'[g] = taken[g]
        /\ UNCHANGED <<state, ran>>
    BY <1>3 DEF IInv, TypeOK, PlaceInv, StopTake, At
  <2>2. \A e : e \in Owed' <=> In(e, callbacks') \/ \E g \in Thread : In(e, taken'[g])
    BY <1>0, OwedWillBe
  <2>3. Owed' = Owed
    BY <2>1, <2>2, OwedIs, InEmpty DEF IInv
  <2>4. QED
    BY <1>0, <2>1, <2>3 DEF Lifecycle!vars, Promised
<1>4. CASE RunCallback(h)
  <2> DEFINE x == Head(taken[h])
  <2>0. /\ taken[h] \in Seq(Extension) /\ taken[h] # <<>> /\ state = "stopped"
        /\ state' = state /\ callbacks' = callbacks
    BY <1>4 DEF IInv, TypeOK, RunCallback, At, PhaseInv, StopPhase
  <2>1. /\ x \in Extension /\ In(x, taken[h]) /\ (Distinct(taken[h]) => ~In(x, Tail(taken[h])))
        /\ \A e : In(e, taken[h]) <=> e = x \/ In(e, Tail(taken[h]))
    BY <2>0, InTail
  <2>2. /\ taken'[h] = Tail(taken[h])
        /\ \A g \in Thread \ {h} : taken'[g] = taken[g]
        /\ ran' = [ran EXCEPT ![x] = @ + 1]
    BY <1>4 DEF IInv, TypeOK, RunCallback
  <2> HIDE DEF x
  <2>3. /\ ~In(x, callbacks) /\ ~In(x, Tail(taken[h]))
        /\ \A g \in Thread \ {h} : ~In(x, taken[g])
    BY <2>1 DEF IInv, PlaceInv
  <2>4. \A e : e \in Owed' <=> In(e, callbacks') \/ \E g \in Thread : In(e, taken'[g])
    BY <1>0, OwedWillBe
  <2>5. \A e : e \in Owed <=> In(e, callbacks) \/ \E g \in Thread : In(e, taken[g])
    BY OwedIs DEF IInv
  <2>6. x \in Owed /\ Owed' = Owed \ {x}
    <3>1. x \in Owed /\ x \notin Owed'
      BY <2>0, <2>1, <2>2, <2>3, <2>4, <2>5
    <3>2. \A e : e # x => (e \in Owed' <=> e \in Owed)
      BY <2>0, <2>1, <2>2, <2>4, <2>5
    <3>3. QED
      BY <3>1, <3>2
  <2>7. {e \in Extension : ran'[e] > 0} = {e \in Extension : ran[e] > 0} \cup {x}
    <3>1. ran \in [Extension -> Nat]
      BY DEF IInv, TypeOK
    <3>2. ran'[x] > 0 /\ \A e \in Extension \ {x} : ran'[e] = ran[e]
      BY <2>1, <2>2, <3>1
    <3>3. QED
      BY <2>1, <3>2
  <2>8. Lifecycle!Release(x)
    BY <1>0, <2>0, <2>6, <2>7 DEF Lifecycle!Release, Promised
  <2>9. QED
    BY <2>1, <2>8 DEF Lifecycle!Next
<1>5. QED
  BY <1>1, <1>2, <1>3, <1>4 DEF StopStep

\* The safety part of ImplementsLifecycle: every step of initialize, start, stop and
\* of a failed hook's cleanup is a step of the lifecycle or changes nothing of it.
THEOREM RefinesLifecycle == Spec => Lifecycle!Init /\ [][Lifecycle!Next]_Lifecycle!vars
<1> USE RuntimeAssumption
<1>1. Init => Lifecycle!Init
  <2>1. SUFFICES ASSUME Init PROVE Lifecycle!Init
    OBVIOUS
  <2>2. Owed = {}
    BY <2>1, TypeInit, OwedIs, InEmpty DEF Init
  <2>3. QED
    BY <2>1, <2>2 DEF Init, Lifecycle!Init, Promised
<1>2. Init => PhaseInv
  BY DEF Init, PhaseInv, CallPhase, StopPhase, Thread
<1>3. IInv /\ PhaseInv /\ [Next]_vars => PhaseInv'
  BY PhaseStep
<1>4. IInv /\ PhaseInv /\ [Next]_vars => [Lifecycle!Next]_Lifecycle!vars
  <2>1. SUFFICES ASSUME IInv, PhaseInv, [Next]_vars PROVE [Lifecycle!Next]_Lifecycle!vars
    OBVIOUS
  <2>2. CASE UNCHANGED vars
    BY <2>2, SameOwed DEF vars, Lifecycle!vars, Promised
  <2>3. UNCHANGED serialized
    BY <2>1 DEF vars, Next, LauncherStep, Initialize, Reject, Claim, MakeWatcher,
                ConfigureWatcher, InitWatcher, Ready, InitModule, InitPlugin, InitInoPlug,
                Register, SafeInit, Start, StartWatcher, Running, AtStart, StopStep,
                StopAgain, StopEnter, StopTake, RunCallback, StopDone
  <2>4. QED
    BY <2>1, <2>2, <2>3, UnspecifiedStep, LauncherImplements, StopImplements DEF Next
<1>5. QED
  BY <1>1, <1>2, <1>3, <1>4, Invariance, PTL DEF Spec
==============================================================================
