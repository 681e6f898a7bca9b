--------------------------- MODULE LibLoaderProofs ---------------------------
(***************************************************************************)
(* Proofs about LibLoader, for all finite sets of threads and files and    *)
(* any number of loads: what sys.modules holds when no load is under way,  *)
(* what a load returns and how often a file is executed.                   *)
(***************************************************************************)
EXTENDS LibLoader, FiniteSetTheorems, TLAPS

-----------------------------------------------------------------------------
(* The inductive invariant, in named parts.                                *)

Busy(t) == pc[t] \in {"register", "execute", "forget", "fetch"}

\* A thread that loads a file has an object of its own, as far as it has brought it.
ObjectInv ==
    /\ \A t \in Thread : Busy(t) => loading[t] \in File /\ object[t] \in Object
    /\ \A t \in Thread : /\ pc[t] = "register" => status[object[t]] = "created"
                         /\ pc[t] = "execute" => status[object[t]] = "running"
                         /\ pc[t] = "forget" => status[object[t]] = "failed"
                         /\ pc[t] = "fetch" => status[object[t]] = "complete"
    /\ \A t, u \in Thread : Busy(t) /\ Busy(u) /\ object[t] = object[u] => t = u

\* A thread that is about to remove what is registered for f.
Executes(t, f) == pc[t] \in {"execute", "forget"} /\ loading[t] = f

\* What is registered is complete, or the thread that executes it will see to it.
RegisteredInv ==
    \A f \in File : modules[f] # NoModule =>
        \/ status[modules[f]] = "complete"
        \/ \E t \in Thread : Executes(t, f) /\ object[t] = modules[f]

\* Without an overlap there is one load at a time.
AloneInv == ~overlapped => \A t, u \in Thread : pc[t] # "idle" /\ pc[u] # "idle" => t = u

Loaded(t, f) == result[t][f] # NoModule /\ status[result[t][f]] = "complete"

\* The files that a load has behind it, and what is registered for the next.
ResultInv ==
    ~overlapped =>
        \A t \in Thread :
            /\ pc[t] # "idle" => \A f \in File : f \in todo[t] \/ (Busy(t) /\ f = loading[t]) \/ Loaded(t, f)
            /\ pc[t] \in {"execute", "fetch"} => modules[loading[t]] = object[t]
            /\ outcome[t] = "returned" => pc[t] = "idle" /\ \A f \in File : Loaded(t, f)

\* Executions are paid for by failures, but for one that is registered.
RunsInv ==
    ~overlapped =>
        /\ \A f \in File : runs[f] <= failures[f] + 1
        /\ \A f \in File : modules[f] = NoModule => runs[f] <= failures[f]
        /\ \A t \in Thread : pc[t] = "register" => modules[loading[t]] = NoModule
        /\ \A t \in Thread : pc[t] = "forget" => runs[loading[t]] <= failures[loading[t]]

IInv == TypeOK /\ ObjectInv /\ RegisteredInv /\ AloneInv /\ ResultInv /\ RunsInv

-----------------------------------------------------------------------------
(* Objects.                                                                *)

\* 0 is no object.
LEMMA NoModuleIsNone == NoModule \notin Object
<1>1. Cardinality(Thread) \in Nat /\ Cardinality(File) \in Nat /\ MaxLoads \in Nat
  BY LoaderAssumption, FS_CardinalityType DEF LoaderAssumption
<1>2. \A a, b, c \in Nat : 0 \notin 1 .. (a * b * c)
  OBVIOUS
<1>3. QED
  BY <1>1, <1>2 DEF NoModule, Object, MaxObjects

\* The object that a load creates is new.
LEMMA CreateEffect ==
  ASSUME TypeOK, NEW t \in Thread, NEW f \in File, Create(t, f)
  PROVE  \E o \in Object :
            /\ status[o] = "none" /\ status' = [status EXCEPT ![o] = "created"]
            /\ loading' = [loading EXCEPT ![t] = f] /\ object' = [object EXCEPT ![t] = o]
            /\ pc' = [pc EXCEPT ![t] = "register"] /\ result' = result
<1> DEFINE o == CHOOSE x \in Object : status[x] = "none"
<1>1. o \in Object /\ status[o] = "none"
  BY DEF Create
<1>2. QED
  BY <1>1 DEF Create, Goto

-----------------------------------------------------------------------------
(* Each part of the invariant, in every step.                              *)

\* What a step of one thread does to the files and objects of all.
LEMMA StepEffect ==
  ASSUME TypeOK, ObjectInv, NEW t \in Thread, LoadDir(t) \/ Step(t)
  PROVE  /\ TypeOK'
         /\ \A u \in Thread \ {t} : /\ pc'[u] = pc[u] /\ loading'[u] = loading[u] /\ object'[u] = object[u]
                                  /\ todo'[u] = todo[u] /\ result'[u] = result[u] /\ outcome'[u] = outcome[u]
         /\ \A o \in Object : status[o] = "complete" => status'[o] = "complete"
         /\ \A o \in Object : status'[o] # status[o] =>
               status[o] = "none" \/ (Busy(t) /\ o = object[t])
<1> USE DEF TypeOK, history, Goto, Nothing
<1>1. CASE LoadDir(t)
  <2>1. File \in SUBSET File /\ [f \in File |-> NoModule] \in [File -> Object \cup {NoModule}]
        /\ loads[t] + 1 \in 0 .. MaxLoads
    BY <1>1, LoaderAssumption DEF LoadDir, LoaderAssumption
  <2>2. TypeOK'
    BY <1>1, <2>1 DEF LoadDir
  <2>3. QED
    BY <1>1, <2>2 DEF LoadDir
<1>2. ASSUME NEW f \in File, NextFile(t, f), modules[f] = NoModule
      PROVE  /\ TypeOK'
             /\ \A u \in Thread \ {t} : /\ pc'[u] = pc[u] /\ loading'[u] = loading[u] /\ object'[u] = object[u]
                                      /\ todo'[u] = todo[u] /\ result'[u] = result[u] /\ outcome'[u] = outcome[u]
             /\ \A o \in Object : status[o] = "complete" => status'[o] = "complete"
             /\ \A o \in Object : status'[o] # status[o] => status[o] = "none"
  <2>1. PICK o \in Object :
            /\ status[o] = "none" /\ status' = [status EXCEPT ![o] = "created"]
            /\ loading' = [loading EXCEPT ![t] = f] /\ object' = [object EXCEPT ![t] = o]
            /\ pc' = [pc EXCEPT ![t] = "register"] /\ result' = result
    BY <1>2, CreateEffect DEF NextFile
  <2>2. TypeOK'
    BY <1>2, <2>1 DEF NextFile
  <2>3. QED
    BY <1>2, <2>1, <2>2 DEF NextFile
<1>3. ASSUME NEW f \in File, NextFile(t, f), modules[f] # NoModule
      PROVE  /\ TypeOK' /\ UNCHANGED <<status, pc, loading, object, outcome>>
             /\ \A u \in Thread \ {t} : todo'[u] = todo[u] /\ result'[u] = result[u]
  <2>1. /\ UNCHANGED <<modules, status, pc, loading, object, outcome, history>>
        /\ todo' = [todo EXCEPT ![t] = @ \ {f}]
        /\ result' = [result EXCEPT ![t] = [@ EXCEPT ![f] = modules[f]]]
    BY <1>3 DEF NextFile
  <2>2. [result[t] EXCEPT ![f] = modules[f]] \in [File -> Object \cup {NoModule}]
    OBVIOUS
  <2>3. todo[t] \ {f} \in SUBSET File
    OBVIOUS
  <2>4. QED
    BY <2>1, <2>2, <2>3
<1>4. CASE Register(t)
  BY <1>4 DEF Register, ObjectInv, Busy
<1>5. CASE Executed(t) \/ ExecutionFails(t)
  <2>1. Busy(t) /\ loading[t] \in File /\ object[t] \in Object
    BY <1>5 DEF Executed, ExecutionFails, ObjectInv, Busy
  <2>2. /\ UNCHANGED <<modules, loading, object, todo, result, outcome, runs, loads, overlapped>>
        /\ \E x \in {"complete", "failed"} : status' = [status EXCEPT ![object[t]] = x]
        /\ \E x \in {"fetch", "forget"} : pc' = [pc EXCEPT ![t] = x]
        /\ failures' = failures \/ failures' = [failures EXCEPT ![loading[t]] = @ + 1]
        /\ status[object[t]] = "running"
    BY <1>5, <2>1 DEF Executed, ExecutionFails, ObjectInv
  <2>3. TypeOK'
    BY <2>1, <2>2
  <2>4. QED
    BY <2>1, <2>2, <2>3
<1>6. CASE Forget(t) \/ Return(t)
  <2>1. TypeOK'
    <3>1. modules' \in [File -> Object \cup {NoModule}]
      BY <1>6 DEF Forget, Return
    <3>2. QED
      BY <1>6, <3>1 DEF Forget, Return, Finish
  <2>2. QED
    BY <1>6, <2>1 DEF Forget, Return, Finish
<1>7. CASE Fetch(t)
  <2>1. CASE modules[loading[t]] = NoModule
    <3>1. TypeOK'
      BY <1>7, <2>1 DEF Fetch, Finish
    <3>2. QED
      BY <1>7, <2>1, <3>1 DEF Fetch, Finish
  <2>2. CASE modules[loading[t]] # NoModule
    <3>1. loading[t] \in File
      BY <1>7 DEF Fetch, ObjectInv, Busy
    <3>2. [result[t] EXCEPT ![loading[t]] = modules[loading[t]]] \in [File -> Object \cup {NoModule}]
      BY <3>1
    <3>3. /\ UNCHANGED <<modules, status, runs, failures, loads, overlapped, todo, outcome>>
          /\ loading' = [loading EXCEPT ![t] = NoFile] /\ object' = [object EXCEPT ![t] = NoModule]
          /\ pc' = [pc EXCEPT ![t] = "list"]
          /\ result' = [result EXCEPT ![t] = [@ EXCEPT ![loading[t]] = modules[loading[t]]]]
      BY <1>7, <2>2 DEF Fetch
    <3>4. TypeOK'
      BY <3>2, <3>3
    <3>5. QED
      BY <3>3, <3>4
  <2>3. QED
    BY <2>1, <2>2
<1>8. QED
  BY <1>1, <1>2, <1>3, <1>4, <1>5, <1>6, <1>7 DEF Step

\* The object of another thread that is busy is as that thread left it.
LEMMA OthersObject ==
  ASSUME TypeOK, ObjectInv, NEW t \in Thread, LoadDir(t) \/ Step(t), NEW u \in Thread \ {t}, Busy(u)
  PROVE  status'[object[u]] = status[object[u]] /\ object'[u] = object[u] /\ Busy(u)'
<1>1. pc'[u] = pc[u] /\ object'[u] = object[u]
  BY StepEffect
<1>2. object[u] \in Object /\ status[object[u]] # "none"
  BY DEF ObjectInv, Busy
<1>3. ~ (Busy(t) /\ object[u] = object[t])
  BY DEF ObjectInv
<1>4. QED
  BY <1>1, <1>2, <1>3, StepEffect DEF Busy

\* Objects stay distinct, and each as far as its thread has brought it.
LEMMA ObjectStep ==
  ASSUME TypeOK, ObjectInv, NEW t \in Thread, LoadDir(t) \/ Step(t) PROVE ObjectInv'
<1> DEFINE Placed(u) == /\ Busy(u) => loading[u] \in File /\ object[u] \in Object
                        /\ pc[u] = "register" => status[object[u]] = "created"
                        /\ pc[u] = "execute" => status[object[u]] = "running"
                        /\ pc[u] = "forget" => status[object[u]] = "failed"
                        /\ pc[u] = "fetch" => status[object[u]] = "complete"
<1>1. \A u \in Thread \ {t} : Placed(u)'
  <2>1. \A u \in Thread \ {t} : pc'[u] = pc[u] /\ loading'[u] = loading[u]
    BY StepEffect
  <2>2. \A u \in Thread \ {t} : Placed(u)
    BY DEF ObjectInv
  <2>3. QED
    BY <2>1, <2>2, OthersObject DEF Busy
<1>2. /\ Placed(t)'
      /\ Busy(t)' => \/ Busy(t) /\ object'[t] = object[t]
                     \/ object'[t] \in Object /\ status[object'[t]] = "none"
  <2> USE DEF TypeOK, Goto, Busy
  <2>1. CASE LoadDir(t)
    BY <2>1 DEF LoadDir
  <2>2. ASSUME NEW f \in File, NextFile(t, f), modules[f] = NoModule
        PROVE  /\ Placed(t)' /\ object'[t] \in Object /\ status[object'[t]] = "none"
    <3>1. PICK o \in Object :
              /\ status[o] = "none" /\ status' = [status EXCEPT ![o] = "created"]
              /\ loading' = [loading EXCEPT ![t] = f] /\ object' = [object EXCEPT ![t] = o]
              /\ pc' = [pc EXCEPT ![t] = "register"] /\ result' = result
      BY <2>2, CreateEffect DEF NextFile
    <3>2. QED
      BY <3>1
  <2>3. ASSUME NEW f \in File, NextFile(t, f), modules[f] # NoModule
        PROVE  Placed(t)' /\ ~Busy(t)'
    BY <2>3 DEF NextFile
  <2>4. CASE Register(t)
    <3>1. Busy(t) /\ loading[t] \in File /\ object[t] \in Object
      BY <2>4 DEF Register, ObjectInv
    <3>2. pc'[t] = "execute" /\ status'[object[t]] = "running" /\ loading' = loading /\ object' = object
      BY <2>4, <3>1 DEF Register
    <3>3. QED
      BY <3>1, <3>2
  <2>5. CASE Executed(t)
    <3>1. Busy(t) /\ loading[t] \in File /\ object[t] \in Object
      BY <2>5 DEF Executed, ObjectInv
    <3>2. pc'[t] = "fetch" /\ status'[object[t]] = "complete" /\ loading' = loading /\ object' = object
      BY <2>5, <3>1 DEF Executed
    <3>3. QED
      BY <3>1, <3>2
  <2>6. CASE ExecutionFails(t)
    <3>1. Busy(t) /\ loading[t] \in File /\ object[t] \in Object
      BY <2>6 DEF ExecutionFails, ObjectInv
    <3>2. pc'[t] = "forget" /\ status'[object[t]] = "failed" /\ loading' = loading /\ object' = object
      BY <2>6, <3>1 DEF ExecutionFails
    <3>3. QED
      BY <3>1, <3>2
  <2>7. CASE Forget(t) \/ Return(t)
    BY <2>7 DEF Forget, Return, Finish
  <2>8. CASE Fetch(t)
    BY <2>8 DEF Fetch, Finish
  <2> HIDE DEF Placed
  <2>9. QED
    BY <2>1, <2>2, <2>3, <2>4, <2>5, <2>6, <2>7, <2>8 DEF Step
<1>3. ASSUME NEW u \in Thread \ {t}, Busy(u)', Busy(t)', object'[u] = object'[t] PROVE FALSE
  <2>1. Busy(u) /\ object'[u] = object[u] /\ status[object[u]] # "none"
    BY <1>3, StepEffect DEF Busy, ObjectInv
  <2>2. QED
    BY <1>2, <1>3, <2>1 DEF ObjectInv
<1>4. ASSUME NEW u \in Thread \ {t}, NEW v \in Thread \ {t}, Busy(u)', Busy(v)', object'[u] = object'[v]
      PROVE  u = v
  BY <1>4, StepEffect DEF Busy, ObjectInv
<1>5. QED
  BY <1>1, <1>2, <1>3, <1>4 DEF ObjectInv

\* What a step registers or removes, and what it counts.
LEMMA ModulesEffect ==
  ASSUME TypeOK, ObjectInv, NEW t \in Thread, LoadDir(t) \/ Step(t)
  PROVE  \/ Register(t) /\ modules' = [modules EXCEPT ![loading[t]] = object[t]]
            /\ runs' = [runs EXCEPT ![loading[t]] = @ + 1] /\ failures' = failures
         \/ Forget(t) /\ modules' = [modules EXCEPT ![loading[t]] = NoModule]
            /\ runs' = runs /\ failures' = failures
         \/ ExecutionFails(t) /\ modules' = modules /\ runs' = runs
            /\ failures' = [failures EXCEPT ![loading[t]] = @ + 1]
         \/ ~Register(t) /\ ~Forget(t) /\ ~ExecutionFails(t) /\ UNCHANGED <<modules, runs, failures>>
<1> USE DEF history
<1>1. CASE LoadDir(t)
  BY <1>1 DEF LoadDir, Register, Forget, ExecutionFails
<1>2. CASE \E f \in File : NextFile(t, f)
  BY <1>2 DEF NextFile, Register, Forget, ExecutionFails
<1>3. CASE Register(t) \/ Forget(t) \/ ExecutionFails(t)
  BY <1>3 DEF Register, Forget, ExecutionFails
<1>4. CASE Executed(t) \/ Fetch(t) \/ Return(t)
  BY <1>4 DEF Executed, Fetch, Return, Register, Forget, ExecutionFails
<1>5. QED
  BY <1>1, <1>2, <1>3, <1>4 DEF Step

\* A registered object that is not complete has a thread that executes it.
LEMMA RegisteredStep ==
  ASSUME TypeOK, ObjectInv, RegisteredInv, NEW t \in Thread, LoadDir(t) \/ Step(t)
  PROVE  RegisteredInv'
<1> SUFFICES ASSUME NEW f \in File, modules'[f] # NoModule
             PROVE  \/ status'[modules'[f]] = "complete"
                    \/ \E u \in Thread : Executes(u, f)' /\ object'[u] = modules'[f]
  BY DEF RegisteredInv
<1>1. CASE Register(t) /\ f = loading[t]
  BY <1>1 DEF Register, Executes, Goto, TypeOK
<1>2. CASE ~ (Register(t) /\ f = loading[t])
  <2>1. modules'[f] = modules[f]
    BY <1>2, ModulesEffect DEF TypeOK
  <2>2. CASE status[modules[f]] = "complete"
    BY <2>1, <2>2, StepEffect DEF TypeOK
  <2>3. ASSUME NEW u \in Thread \ {t}, Executes(u, f), object[u] = modules[f]
        PROVE  Executes(u, f)' /\ object'[u] = modules'[f]
    BY <2>1, <2>3, StepEffect DEF Executes
  <2>4. CASE Executes(t, f) /\ object[t] = modules[f]
    <3> USE DEF TypeOK, Goto, Executes, ObjectInv, Busy
    <3>1. ~Forget(t)
      <4>1. Forget(t) => modules'[f] = NoModule
        BY <2>4 DEF Forget
      <4>2. QED
        BY <4>1
    <3>2. Executed(t) \/ ExecutionFails(t)
      BY <2>4, <3>1 DEF Step, LoadDir, NextFile, Register, Fetch, Return, Forget
    <3>3. CASE Executed(t)
      BY <2>1, <2>4, <3>3 DEF Executed
    <3>4. CASE ExecutionFails(t)
      BY <2>1, <2>4, <3>4 DEF ExecutionFails
    <3>5. QED
      BY <3>2, <3>3, <3>4
  <2>5. QED
    BY <2>1, <2>2, <2>3, <2>4 DEF RegisteredInv
<1>3. QED
  BY <1>1, <1>2

-----------------------------------------------------------------------------
(* Loads that do not overlap.                                              *)

\* While a load goes on without an overlap, every other thread is idle.
LEMMA OthersIdle ==
  ASSUME AloneInv, TypeOK, ObjectInv, NEW t \in Thread, LoadDir(t) \/ Step(t), ~overlapped'
  PROVE  /\ ~overlapped /\ \A u \in Thread \ {t} : pc[u] = "idle" /\ pc'[u] = "idle"
         /\ Step(t) => pc[t] # "idle"
<1>1. ~overlapped
  BY DEF LoadDir, Step, NextFile, Register, Executed, ExecutionFails, Forget, Fetch, Return, history
<1>2. Step(t) => pc[t] # "idle"
  BY DEF Step, NextFile, Register, Executed, ExecutionFails, Forget, Fetch, Return
<1>3. ASSUME NEW u \in Thread \ {t} PROVE pc[u] = "idle"
  BY <1>1, <1>2 DEF LoadDir, AloneInv
<1>4. QED
  BY <1>1, <1>2, <1>3, StepEffect

\* There is one load at a time until two overlap.
LEMMA AloneStep ==
  ASSUME AloneInv, TypeOK, ObjectInv, NEW t \in Thread, LoadDir(t) \/ Step(t) PROVE AloneInv'
  BY OthersIdle DEF AloneInv

\* What a load returns is complete.
LEMMA ResultStep ==
  ASSUME TypeOK, ObjectInv, RegisteredInv, AloneInv, ResultInv, NEW t \in Thread, LoadDir(t) \/ Step(t)
  PROVE  ResultInv'
<1> USE NoModuleIsNone
<1> SUFFICES ASSUME ~overlapped' PROVE ResultInv'
  BY DEF ResultInv
<1> DEFINE Through(u, f) == f \in todo[u] \/ (Busy(u) /\ f = loading[u]) \/ Loaded(u, f)
           Kept(u) == /\ pc[u] # "idle" => \A f \in File : Through(u, f)
                      /\ pc[u] \in {"execute", "fetch"} => modules[loading[u]] = object[u]
                      /\ outcome[u] = "returned" => pc[u] = "idle" /\ \A f \in File : Loaded(u, f)
<1>0. /\ \A u \in Thread \ {t} : pc[u] = "idle" /\ pc'[u] = "idle"
      /\ \A u \in Thread : Kept(u)
      /\ Step(t) => pc[t] # "idle" /\ outcome[t] # "returned"
  BY OthersIdle DEF ResultInv
<1>1. ASSUME NEW u \in Thread, NEW f \in File, Loaded(u, f), result'[u][f] = result[u][f]
      PROVE  Loaded(u, f)'
  <2>1. result[u][f] \in Object
    BY <1>1 DEF Loaded, TypeOK
  <2>2. QED
    BY <1>1, <2>1, StepEffect DEF Loaded
<1>2. ASSUME NEW u \in Thread \ {t} PROVE Kept(u)'
  <2>1. pc'[u] = "idle" /\ outcome'[u] = outcome[u] /\ result'[u] = result[u]
    BY <1>0, StepEffect
  <2>2. QED
    BY <1>0, <1>1, <2>1
<1>3. Kept(t)'
  <2> USE DEF TypeOK, Goto, Busy
  <2>1. CASE LoadDir(t)
    <3>1. todo'[t] = File /\ outcome'[t] = "none" /\ pc'[t] = "list"
      BY <2>1 DEF LoadDir
    <3>2. QED
      BY <3>1
  <2>2. ASSUME NEW g \in File, NextFile(t, g), modules[g] = NoModule PROVE Kept(t)'
    <3>1. /\ pc[t] = "list" /\ pc'[t] = "register" /\ loading'[t] = g /\ result' = result
          /\ outcome' = outcome /\ todo'[t] = todo[t] \ {g}
      BY <2>2, CreateEffect DEF NextFile
    <3>2. ASSUME NEW f \in File PROVE Through(t, f)'
      <4>1. Through(t, f)
        BY <1>0, <3>1
      <4>2. Loaded(t, f) => Loaded(t, f)'
        BY <1>1, <3>1
      <4>3. QED
        BY <3>1, <4>1, <4>2
    <3>3. QED
      BY <1>0, <2>2, <3>1, <3>2 DEF Step
  <2>3. ASSUME NEW g \in File, NextFile(t, g), modules[g] # NoModule PROVE Kept(t)'
    <3>1. /\ pc[t] = "list" /\ pc' = pc /\ outcome' = outcome /\ todo'[t] = todo[t] \ {g}
          /\ status' = status /\ result'[t] = [result[t] EXCEPT ![g] = modules[g]]
      BY <2>3 DEF NextFile
    <3>2. status[modules[g]] = "complete"
      BY <1>0, <2>3, <3>1 DEF RegisteredInv, Executes
    <3>3. result[t] \in [File -> Object \cup {NoModule}]
      OBVIOUS
    <3>4. Loaded(t, g)' /\ \A f \in File \ {g} : result'[t][f] = result[t][f]
      BY <2>3, <3>1, <3>2, <3>3 DEF Loaded
    <3>5. ASSUME NEW f \in File PROVE Through(t, f)'
      <4>1. Through(t, f)
        BY <1>0, <3>1
      <4>2. Loaded(t, f) /\ f # g => Loaded(t, f)'
        BY <1>1, <3>4
      <4>3. QED
        BY <3>1, <3>4, <4>1, <4>2
    <3>6. QED
      BY <1>0, <2>3, <3>1, <3>5 DEF Step
  <2>4. CASE Register(t) \/ Executed(t) \/ ExecutionFails(t)
    <3>1. Busy(t) /\ loading[t] \in File /\ object[t] \in Object
      BY <2>4 DEF Register, Executed, ExecutionFails, ObjectInv
    <3>2. /\ Busy(t)' /\ loading' = loading /\ object' = object /\ result' = result
          /\ todo' = todo /\ outcome' = outcome
      BY <2>4 DEF Register, Executed, ExecutionFails
    <3>3. pc'[t] \in {"execute", "fetch"} => modules'[loading[t]] = object[t]
      BY <1>0, <2>4, <3>1 DEF Register, Executed, ExecutionFails
    <3>4. ASSUME NEW f \in File PROVE Through(t, f)'
      BY <1>0, <1>1, <3>1, <3>2
    <3>5. outcome[t] # "returned"
      BY <1>0, <3>1
    <3>6. QED
      BY <3>2, <3>3, <3>4, <3>5
  <2>5. CASE Forget(t)
    <3>1. pc'[t] = "idle" /\ outcome'[t] = "raised"
      BY <2>5 DEF Forget, Finish
    <3>2. QED
      BY <3>1
  <2>6. CASE Fetch(t)
    <3>1. /\ pc[t] = "fetch" /\ loading[t] \in File /\ modules[loading[t]] = object[t]
          /\ object[t] \in Object /\ status[object[t]] = "complete" /\ outcome[t] # "returned"
      BY <1>0, <2>6 DEF Fetch, ObjectInv
    <3>2. /\ pc'[t] = "list" /\ todo' = todo /\ outcome' = outcome /\ status' = status
          /\ result'[t] = [result[t] EXCEPT ![loading[t]] = object[t]]
      <4>1. modules[loading[t]] # NoModule
        BY <3>1
      <4>2. /\ pc' = [pc EXCEPT ![t] = "list"] /\ UNCHANGED <<todo, outcome, status>>
            /\ result' = [result EXCEPT ![t][loading[t]] = modules[loading[t]]]
        BY <2>6, <4>1 DEF Fetch
      <4>3. QED
        BY <3>1, <4>2
    <3>3. result[t] \in [File -> Object \cup {NoModule}]
      OBVIOUS
    <3>4. ASSUME NEW g \in File PROVE IF g = loading[t] THEN Loaded(t, g)' ELSE result'[t][g] = result[t][g]
      BY <3>1, <3>2, <3>3 DEF Loaded
    <3>5. ASSUME NEW f \in File PROVE Through(t, f)'
      <4>1. Through(t, f)
        BY <1>0, <3>1
      <4>2. CASE f = loading[t]
        BY <3>4, <4>2
      <4>3. CASE f # loading[t]
        BY <1>1, <3>2, <3>4, <4>1, <4>3
      <4>4. QED
        BY <4>2, <4>3
    <3>6. QED
      BY <3>1, <3>2, <3>5
  <2>7. CASE Return(t)
    <3>1. /\ pc[t] = "list" /\ todo[t] = {} /\ pc'[t] = "idle" /\ result' = result
      BY <2>7 DEF Return, Finish
    <3>2. ASSUME NEW f \in File PROVE Loaded(t, f)'
      BY <1>0, <1>1, <3>1
    <3>3. QED
      BY <3>1, <3>2
  <2> HIDE DEF Kept
  <2>8. QED
    BY <2>1, <2>2, <2>3, <2>4, <2>5, <2>6, <2>7 DEF Step
<1>4. QED
  BY <1>2, <1>3 DEF ResultInv

\* A file is executed again only after a failure.
LEMMA RunsStep ==
  ASSUME TypeOK, ObjectInv, AloneInv, RunsInv, NEW t \in Thread, LoadDir(t) \/ Step(t)
  PROVE  RunsInv'
<1> USE NoModuleIsNone DEF TypeOK, Goto, Busy
<1> SUFFICES ASSUME ~overlapped' PROVE RunsInv'
  BY DEF RunsInv
<1> DEFINE Paid(f) == /\ runs[f] <= failures[f] + 1
                      /\ modules[f] = NoModule => runs[f] <= failures[f]
           Placed(u) == /\ pc[u] = "register" => modules[loading[u]] = NoModule
                        /\ pc[u] = "forget" => runs[loading[u]] <= failures[loading[u]]
<1>0. /\ \A u \in Thread \ {t} : pc'[u] = "idle"
      /\ (\A f \in File : Paid(f)) /\ \A u \in Thread : Placed(u)
  BY OthersIdle DEF RunsInv
<1>1. CASE Register(t)
  <2>1. loading[t] \in File /\ object[t] \in Object /\ modules[loading[t]] = NoModule
    BY <1>0, <1>1 DEF Register, ObjectInv
  <2>2. /\ modules' = [modules EXCEPT ![loading[t]] = object[t]] /\ failures' = failures
        /\ runs' = [runs EXCEPT ![loading[t]] = @ + 1] /\ pc'[t] = "execute"
    BY <1>1 DEF Register
  <2>3. \A f \in File : Paid(f)'
    BY <1>0, <2>1, <2>2
  <2>4. QED
    BY <1>0, <2>2, <2>3 DEF RunsInv
<1>2. CASE Forget(t)
  <2>1. loading[t] \in File /\ runs[loading[t]] <= failures[loading[t]]
    BY <1>0, <1>2 DEF Forget, ObjectInv
  <2>2. /\ modules' = [modules EXCEPT ![loading[t]] = NoModule] /\ failures' = failures
        /\ runs' = runs /\ pc'[t] = "idle"
    BY <1>2 DEF Forget, Finish, history
  <2>3. \A f \in File : Paid(f)'
    BY <1>0, <2>1, <2>2
  <2>4. QED
    BY <1>0, <2>2, <2>3 DEF RunsInv
<1>3. CASE ExecutionFails(t)
  <2>1. loading[t] \in File
    BY <1>3 DEF ExecutionFails, ObjectInv
  <2>2. /\ failures' = [failures EXCEPT ![loading[t]] = @ + 1] /\ runs' = runs
        /\ modules' = modules /\ loading' = loading /\ pc'[t] = "forget"
    BY <1>3 DEF ExecutionFails
  <2>3. \A f \in File : Paid(f)'
    BY <1>0, <2>1, <2>2
  <2>4. Placed(t)'
    BY <1>0, <2>1, <2>2
  <2>5. QED
    BY <1>0, <2>3, <2>4 DEF RunsInv
<1>4. CASE ~Register(t) /\ ~Forget(t) /\ ~ExecutionFails(t)
  <2>1. UNCHANGED <<modules, runs, failures>>
    BY <1>4, ModulesEffect
  <2>2. Placed(t)'
    <3>1. ASSUME NEW f \in File, NextFile(t, f), modules[f] = NoModule PROVE Placed(t)'
      BY <2>1, <3>1, CreateEffect DEF NextFile
    <3>2. ASSUME NEW f \in File, NextFile(t, f), modules[f] # NoModule PROVE Placed(t)'
      BY <3>2 DEF NextFile
    <3>3. ASSUME LoadDir(t) \/ Executed(t) \/ Fetch(t) \/ Return(t) PROVE Placed(t)'
      BY <3>3 DEF LoadDir, Executed, Fetch, Return, Finish
    <3> HIDE DEF Placed
    <3>4. QED
      BY <1>4, <3>1, <3>2, <3>3 DEF Step
  <2>3. QED
    BY <1>0, <2>1, <2>2 DEF RunsInv
<1>5. QED
  BY <1>1, <1>2, <1>3, <1>4

-----------------------------------------------------------------------------
(* The theorems.                                                           *)

\* The invariant holds before the first load.
LEMMA InvInit == Init => IInv
<1> SUFFICES ASSUME Init PROVE IInv
  OBVIOUS
<1> USE LoaderAssumption, NoModuleIsNone DEF Init, Nothing, LoaderAssumption
<1>1. TypeOK
  <2>1. 0 \in 0 .. MaxLoads /\ NoModule \in Nat
    BY DEF NoModule
  <2>2. Nothing \in [File -> Object \cup {NoModule}] /\ Nothing \in [File -> Nat]
    BY <2>1
  <2>3. QED
    BY <2>1, <2>2 DEF TypeOK
<1>2. ObjectInv /\ RegisteredInv /\ AloneInv /\ ResultInv
  BY DEF ObjectInv, RegisteredInv, AloneInv, ResultInv, Busy
<1>3. RunsInv
  BY DEF RunsInv, NoModule
<1>4. QED
  BY <1>1, <1>2, <1>3 DEF IInv

\* It holds in every state.
LEMMA Invariance == Spec => []IInv
<1>1. IInv /\ [Next]_vars => IInv'
  <2>1. ASSUME IInv, NEW t \in Thread, LoadDir(t) \/ Step(t) PROVE IInv'
    BY <2>1, StepEffect, ObjectStep, RegisteredStep, AloneStep, ResultStep, RunsStep DEF IInv
  <2>2. ASSUME IInv, UNCHANGED vars PROVE IInv'
    BY <2>2 DEF IInv, vars, TypeOK, ObjectInv, RegisteredInv, AloneInv, ResultInv, RunsInv, Busy,
                Executes, Loaded
  <2>3. QED
    BY <2>1, <2>2 DEF Next
<1>2. QED
  BY <1>1, InvInit, PTL DEF Spec

\* When no load is under way every registered module is complete, however loads
\* overlapped, and loads that never overlapped returned complete modules
\* (libloader.py:31-37).
THEOREM FailuresRemoved == Spec => []FailedRemoved
<1>1. IInv => FailedRemoved
  BY DEF IInv, FailedRemoved, RegisteredInv, ResultInv, Executes, Loaded
<1>2. QED
  BY <1>1, Invariance, PTL

\* Without an overlap a file is executed once, and again only after it failed.
THEOREM ExecutedOnce == Spec => []ExecutesOnce
<1>1. IInv => ExecutesOnce
  BY DEF IInv, ExecutesOnce, RunsInv
<1>2. QED
  BY <1>1, Invariance, PTL
=============================================================================
