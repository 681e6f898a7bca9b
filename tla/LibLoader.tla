------------------------------ MODULE LibLoader ------------------------------
(***************************************************************************)
(* dwho.classes.libloader.DwhoLibLoader.load_dir, called by several        *)
(* threads: the modules that it finds in or puts into sys.modules and the  *)
(* execution of plugin files, which may fail.  No lock is taken, nor that  *)
(* of the import system.  Module objects are numbered as they are created. *)
(***************************************************************************)
EXTENDS Naturals, FiniteSets

CONSTANTS
    Thread,
    File,           \* the loadable files of the directory, by module name
    NoFile,
    MaxLoads        \* bound: calls of load_dir by each thread

ASSUME LoaderAssumption ==
    /\ NoFile \notin File /\ MaxLoads \in Nat
    /\ IsFiniteSet(Thread) /\ IsFiniteSet(File)

VARIABLES
    modules,    \* sys.modules: the object registered under a name, 0 for none
    status,     \* status[o]: how far the execution of object o has come
    pc, loading, object,    \* what a thread loads, and the object it created
    todo,       \* the files left of a thread's listdir
    result,     \* result[t][f]: what load_dir has collected for f, 0 for nothing
    outcome,    \* how the thread's last call ended
    runs, failures,         \* history: executions begun and failed, by file
    loads,
    overlapped              \* history: two calls of load_dir were under way at once

vars == <<modules, status, pc, loading, object, todo, result, outcome, runs, failures,
          loads, overlapped>>

NoModule == 0
MaxObjects == MaxLoads * Cardinality(Thread) * Cardinality(File)
Object == 1 .. MaxObjects
Nothing == [f \in File |-> NoModule]

TypeOK ==
    /\ modules \in [File -> Object \cup {NoModule}]
    /\ status \in [Object -> {"none", "created", "running", "complete", "failed"}]
    /\ pc \in [Thread -> {"idle", "list", "register", "execute", "forget", "fetch"}]
    /\ loading \in [Thread -> File \cup {NoFile}]
    /\ object \in [Thread -> Object \cup {NoModule}]
    /\ todo \in [Thread -> SUBSET File]
    /\ result \in [Thread -> [File -> Object \cup {NoModule}]]
    /\ outcome \in [Thread -> {"none", "returned", "raised"}]
    /\ runs \in [File -> Nat] /\ failures \in [File -> Nat]
    /\ loads \in [Thread -> 0 .. MaxLoads]
    /\ overlapped \in BOOLEAN

Init ==
    /\ modules = Nothing
    /\ status = [o \in Object |-> "none"]
    /\ pc = [t \in Thread |-> "idle"]
    /\ loading = [t \in Thread |-> NoFile] /\ object = [t \in Thread |-> NoModule]
    /\ todo = [t \in Thread |-> {}] /\ result = [t \in Thread |-> Nothing]
    /\ outcome = [t \in Thread |-> "none"]
    /\ runs = Nothing /\ failures = Nothing
    /\ loads = [t \in Thread |-> 0]
    /\ overlapped = FALSE

Goto(t, next) == pc' = [pc EXCEPT ![t] = next]
history == <<runs, failures, loads, overlapped>>

LoadDir(t) ==
    /\ pc[t] = "idle" /\ loads[t] < MaxLoads
    /\ loads' = [loads EXCEPT ![t] = @ + 1]
    /\ todo' = [todo EXCEPT ![t] = File]
    /\ result' = [result EXCEPT ![t] = Nothing]
    /\ outcome' = [outcome EXCEPT ![t] = "none"]
    /\ overlapped' = (overlapped \/ \E u \in Thread : pc[u] # "idle")
    /\ Goto(t, "list")
    /\ UNCHANGED <<modules, status, loading, object, runs, failures>>

\* MaxObjects is never met: each load of each file creates one object at most.
Create(t, f) ==
    LET o == CHOOSE x \in Object : status[x] = "none"
    IN  /\ \E x \in Object : status[x] = "none"
        /\ status' = [status EXCEPT ![o] = "created"]
        /\ loading' = [loading EXCEPT ![t] = f]
        /\ object' = [object EXCEPT ![t] = o]
        /\ Goto(t, "register")
        /\ UNCHANGED result

\* Mutant: what is registered is loaded again.
NextFile_Again(t, f) ==
    /\ pc[t] = "list" /\ f \in todo[t]
    /\ todo' = [todo EXCEPT ![t] = @ \ {f}]
    /\ Create(t, f)
    /\ UNCHANGED <<modules, outcome, history>>

\* The next file of the directory: whether its module is registered decides.
NextFile(t, f) ==
    /\ pc[t] = "list" /\ f \in todo[t]
    /\ todo' = [todo EXCEPT ![t] = @ \ {f}]
    /\ IF modules[f] # NoModule
       THEN /\ result' = [result EXCEPT ![t][f] = modules[f]]
            /\ UNCHANGED <<status, pc, loading, object>>
       ELSE Create(t, f)
    /\ UNCHANGED <<modules, outcome, history>>

\* sys.modules[name] = module, and the execution begins.
Register(t) ==
    /\ pc[t] = "register"
    /\ modules' = [modules EXCEPT ![loading[t]] = object[t]]
    /\ status' = [status EXCEPT ![object[t]] = "running"]
    /\ runs' = [runs EXCEPT ![loading[t]] = @ + 1]
    /\ Goto(t, "execute")
    /\ UNCHANGED <<loading, object, todo, result, outcome, failures, loads,
                   overlapped>>

Executed(t) ==
    /\ pc[t] = "execute"
    /\ status' = [status EXCEPT ![object[t]] = "complete"]
    /\ Goto(t, "fetch")
    /\ UNCHANGED <<modules, loading, object, todo, result, outcome, history>>

ExecutionFails(t) ==
    /\ pc[t] = "execute"
    /\ status' = [status EXCEPT ![object[t]] = "failed"]
    /\ failures' = [failures EXCEPT ![loading[t]] = @ + 1]
    /\ Goto(t, "forget")
    /\ UNCHANGED <<modules, loading, object, todo, result, outcome, runs, loads,
                   overlapped>>

Finish(t, how) ==
    /\ outcome' = [outcome EXCEPT ![t] = how]
    /\ Goto(t, "idle")
    /\ loading' = [loading EXCEPT ![t] = NoFile]
    /\ object' = [object EXCEPT ![t] = NoModule]
    /\ todo' = [todo EXCEPT ![t] = {}]

\* Mutant: a failed execution stays registered.
Forget_Kept(t) ==
    /\ pc[t] = "forget"
    /\ Finish(t, "raised")
    /\ UNCHANGED <<modules, status, result, history>>

\* sys.modules.pop, whatever is registered by now; the exception leaves load_dir.
Forget(t) ==
    /\ pc[t] = "forget"
    /\ modules' = [modules EXCEPT ![loading[t]] = NoModule]
    /\ Finish(t, "raised")
    /\ UNCHANGED <<status, result, history>>

\* return sys.modules[name]: a KeyError when another load has removed it.
Fetch(t) ==
    /\ pc[t] = "fetch"
    /\ LET f == loading[t]
       IN  IF modules[f] = NoModule
           THEN Finish(t, "raised") /\ UNCHANGED result
           ELSE /\ result' = [result EXCEPT ![t][f] = modules[f]]
                /\ loading' = [loading EXCEPT ![t] = NoFile]
                /\ object' = [object EXCEPT ![t] = NoModule]
                /\ Goto(t, "list")
                /\ UNCHANGED <<todo, outcome>>
    /\ UNCHANGED <<modules, status, history>>

Return(t) ==
    /\ pc[t] = "list" /\ todo[t] = {}
    /\ Finish(t, "returned")
    /\ UNCHANGED <<modules, status, result, history>>

Step(t) ==
    \/ \E f \in File : NextFile(t, f)
    \/ Register(t) \/ Executed(t) \/ ExecutionFails(t) \/ Forget(t) \/ Fetch(t) \/ Return(t)

Next == \E t \in Thread : LoadDir(t) \/ Step(t)

Spec == Init /\ [][Next]_vars

-----------------------------------------------------------------------------
\* "failed loads are removed so they can be retried": when no load is under way
\* every registered module was executed to its end, however loads overlapped; and
\* loads that never overlapped have returned such a module for every file.
FailedRemoved ==
    (\A t \in Thread : pc[t] = "idle") =>
        /\ \A f \in File : modules[f] # NoModule => status[modules[f]] = "complete"
        /\ \A t \in Thread, f \in File : ~overlapped /\ outcome[t] = "returned" =>
              result[t][f] # NoModule /\ status[result[t][f]] = "complete"

\* README.md:40: each file "executes once per module name"; only a failed load is
\* removed and retried.  (Overlapping loads may both find no module and execute it.)
ExecutesOnce == ~overlapped => \A f \in File : runs[f] <= failures[f] + 1
=============================================================================
