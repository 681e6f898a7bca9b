-------------------------- MODULE PushNotifications --------------------------
(***************************************************************************)
(* dwho.classes.notifiers.DWhoPushNotifications: legacy calls and strict   *)
(* sends, serialized by a lock; a loader that publishes configurations     *)
(* without it; and the pool, of one worker, that runs the asynchronous     *)
(* handlers of legacy calls.                                               *)
(*                                                                         *)
(* An entry of self.notifications is an object that a call may still hold  *)
(* after it was replaced: entries are numbered as load creates them.  Tags *)
(* and 'enabled' decide whether a name is wanted; what they hold is left   *)
(* out, so each name found with tags is wanted or not.                     *)
(*                                                                         *)
(* The variables that a call renders with and hands to handlers are        *)
(* objects too: `objects` holds them, and what refers to them is nvars of  *)
(* a call or of a task.  An object without a reference is forgotten.       *)
(***************************************************************************)
EXTENDS Naturals, Sequences, FiniteSets

CONSTANTS
    Name, Caller,
    Scheme, Handler,
    Handlers,       \* NOTIFIERS: the handlers registered for a URI scheme
    LegacyOnly,     \* handlers that do not implement send
    NoCaller, NoName,
    MaxCalls,       \* bound: calls of each caller
    MaxChanges      \* bound: entries that load creates, and resets

ASSUME NotifierAssumption ==
    /\ Handlers \in [Scheme -> Seq(Handler)]
    /\ \A s \in Scheme : Handlers[s] # <<>>
    /\ LegacyOnly \subseteq Handler
    /\ NoCaller \notin Caller /\ NoName \notin Name
    /\ MaxCalls \in Nat /\ MaxChanges \in Nat

VARIABLES
    notifNames,     \* self.notif_names
    notifications,  \* self.notifications: the entry of a name, 0 if it has none
    entries,        \* what the entries hold
    loader, loading,    \* the loader thread, and the name whose file it reads
    lock,           \* self._lock
    pc, strict,     \* pc[c]: where caller c is; strict[c]: it called send
    names, iter,    \* names[c]: the names left to select from, and how c iterates
    chosen, left,   \* chosen[c]: the names selected; left[c]: those not delivered yet
    current, entry, queue,  \* the name c delivers, its entry, the handlers left of it
    nvars,          \* nvars[c]: the reference to the variables of c's call
    objects,        \* objects: the _NAME_ in them, and the handlers that wrote to them
    acked,          \* acked[c]: the sends that were acknowledged
    outcome,        \* outcome[c]: how c's last call ended
    pool, tasks, worker,    \* self.workerpool, its queue and its worker's task
    called,         \* history: names whose last queued handler was called
    disturbed,      \* history: disturbed[c]: load or reset ran since c took the lock
    calls, resets   \* how many calls and resets were made

config == <<notifNames, notifications, entries, loader, loading, resets>>
background == <<pool, tasks, worker, called>>
delivery == <<chosen, left, current, entry, queue, acked>>
selection == <<strict, names, iter, calls>>
memory == <<nvars, objects>>
vars == <<config, lock, pc, selection, delivery, memory, outcome, background, disturbed>>

NoEntry == 0
Entry == [tags : BOOLEAN, handlers : {<<>>} \cup {Handlers[s] : s \in Scheme},
          async : BOOLEAN]

\* The variables of a call, with no name and left = 0, or the copy of a delivery.
Ref == [caller : Caller, call : 0 .. MaxCalls, name : Name \cup {NoName}, left : Nat]
NoRef == [caller |-> NoCaller, call |-> 0, name |-> NoName, left |-> 0]
Variables == [name : Name \cup {NoName}, by : SUBSET Handler]

Task == [name : Name, handler : Handler, nvars : Ref]
NoTask == [name |-> NoName, handler |-> NoName, nvars |-> NoRef]

CallsTyped ==
    /\ notifNames \subseteq Name
    /\ notifications \in [Name -> 0 .. Len(entries)]
    /\ entries \in Seq(Entry) /\ Len(entries) <= MaxChanges
    /\ loader \in {"idle", "put", "tags", "notifiers", "reset"}
    /\ loading \in Name \cup {NoName}
    /\ lock \in Caller \cup {NoCaller}
    /\ pc \in [Caller -> {"idle", "wait", "select", "run", "render", "handle", "drain"}]
    /\ strict \in [Caller -> BOOLEAN]
    /\ names \in [Caller -> SUBSET Name]
    /\ iter \in [Caller -> {"own", "shared", "changed"}]
    /\ chosen \in [Caller -> SUBSET Name] /\ left \in [Caller -> SUBSET Name]
    /\ current \in [Caller -> Name \cup {NoName}]
    /\ entry \in [Caller -> 0 .. Len(entries)]
    /\ queue \in [Caller -> Seq(Handler)]
    /\ acked \in [Caller -> SUBSET (Name \X Handler)]
    /\ outcome \in [Caller -> {"none", "sent", "returned", "rejected", "raised"}]
    /\ pool \in {"none", "open"}
    /\ tasks \in Seq(Task) /\ worker \in Task \cup {NoTask}
    /\ called \subseteq Name
    /\ nvars \in [Caller -> Ref \cup {NoRef}]
    /\ disturbed \in [Caller -> BOOLEAN]
    /\ calls \in [Caller -> 0 .. MaxCalls] /\ resets \in 0 .. MaxChanges

ObjectsTyped == DOMAIN objects \subseteq Ref /\ objects \in [DOMAIN objects -> Variables]

TypeOK == CallsTyped /\ ObjectsTyped

Init ==
    /\ notifNames = {} /\ notifications = [n \in Name |-> NoEntry] /\ entries = <<>>
    /\ loader = "idle" /\ loading = NoName
    /\ lock = NoCaller
    /\ pc = [c \in Caller |-> "idle"] /\ strict = [c \in Caller |-> FALSE]
    /\ names = [c \in Caller |-> {}] /\ iter = [c \in Caller |-> "own"]
    /\ chosen = [c \in Caller |-> {}] /\ left = [c \in Caller |-> {}]
    /\ current = [c \in Caller |-> NoName] /\ entry = [c \in Caller |-> NoEntry]
    /\ queue = [c \in Caller |-> <<>>] /\ acked = [c \in Caller |-> {}]
    /\ outcome = [c \in Caller |-> "none"]
    /\ nvars = [c \in Caller |-> NoRef] /\ objects = [r \in {} |-> NoTask]
    /\ pool = "none" /\ tasks = <<>> /\ worker = NoTask /\ called = {}
    /\ disturbed = [c \in Caller |-> TRUE]
    /\ calls = [c \in Caller |-> 0] /\ resets = 0

-----------------------------------------------------------------------------
(* load and reset, without the lock                                        *)

Loader(from, to) ==
    /\ loader = from /\ loader' = to
    /\ disturbed' = [c \in Caller |-> TRUE]
    /\ UNCHANGED <<lock, pc, strict, names, calls, delivery, memory, outcome, background>>

\* A call that iterates notif_names itself fails once the set has grown.
AddName(n) ==
    /\ Len(entries) + resets < MaxChanges
    /\ Loader("idle", "put")
    /\ loading' = n
    /\ notifNames' = notifNames \cup {n}
    /\ iter' = [c \in Caller |-> IF iter[c] = "shared" /\ n \notin notifNames
                                 THEN "changed" ELSE iter[c]]
    /\ UNCHANGED <<notifications, entries, resets>>

PutEntry ==
    /\ Loader("put", "tags")
    /\ \E a \in BOOLEAN :
          entries' = Append(entries, [tags |-> FALSE, handlers |-> <<>>, async |-> a])
    /\ notifications' = [notifications EXCEPT ![loading] = Len(entries')]
    /\ UNCHANGED <<notifNames, loading, resets, iter>>

SetTags ==
    /\ Loader("tags", "notifiers")
    /\ entries' = [entries EXCEPT ![Len(entries)].tags = TRUE]
    /\ UNCHANGED <<notifNames, notifications, loading, resets, iter>>

SetNotifiers ==
    /\ Loader("notifiers", "idle")
    /\ \E s \in Scheme : entries' = [entries EXCEPT ![Len(entries)].handlers = Handlers[s]]
    /\ loading' = NoName
    /\ UNCHANGED <<notifNames, notifications, resets, iter>>

\* A configuration without 'general' or 'uri', an unreadable template or an
\* unsupported scheme: load raises, and the entry stays as it is.
LoadFails ==
    /\ \E at \in {"tags", "notifiers"} : Loader(at, "idle")
    /\ loading' = NoName
    /\ UNCHANGED <<notifNames, notifications, entries, resets, iter>>

ResetNotifications ==
    /\ Len(entries) + resets < MaxChanges
    /\ Loader("idle", "reset")
    /\ notifications' = [n \in Name |-> NoEntry]
    /\ resets' = resets + 1
    /\ UNCHANGED <<notifNames, entries, loading, iter>>

\* notif_names becomes another set: who iterates the old one sees it grow no more.
ResetNames ==
    /\ Loader("reset", "idle")
    /\ notifNames' = {}
    /\ iter' = [c \in Caller |-> IF iter[c] = "shared" THEN "own" ELSE iter[c]]
    /\ UNCHANGED <<notifications, entries, loading, resets>>

-----------------------------------------------------------------------------
(* A call: it takes the lock, selects, delivers and returns                *)

\* Beyond the caller's own state, a step of a call leaves all this alone.
Alone == UNCHANGED <<config, disturbed>>

Call(c, s) ==
    /\ pc[c] = "idle" /\ calls[c] < MaxCalls
    /\ calls' = [calls EXCEPT ![c] = @ + 1]
    /\ strict' = [strict EXCEPT ![c] = s]
    /\ pc' = [pc EXCEPT ![c] = "wait"]
    /\ UNCHANGED <<lock, names, iter, delivery, memory, outcome, background>>
    /\ Alone

\* names are given, or else those of notif_names, which is not copied.
Acquire(c) ==
    /\ pc[c] = "wait" /\ lock = NoCaller
    /\ lock' = c
    /\ pc' = [pc EXCEPT ![c] = "select"]
    /\ \/ \E given \in SUBSET Name \ {{}} :
             names' = [names EXCEPT ![c] = given] /\ iter' = [iter EXCEPT ![c] = "own"]
       \/ names' = [names EXCEPT ![c] = notifNames] /\ iter' = [iter EXCEPT ![c] = "shared"]
    /\ chosen' = [chosen EXCEPT ![c] = {}]
    /\ acked' = [acked EXCEPT ![c] = {}]
    /\ outcome' = [outcome EXCEPT ![c] = "none"]
    /\ disturbed' = [disturbed EXCEPT ![c] = FALSE]
    /\ UNCHANGED <<config, strict, calls, left, current, entry, queue, memory, background>>

Elements(q) == {q[i] : i \in DOMAIN q}

\* What is left of the objects when only ts, w and the calls refer to them.
Reachable(objs, ts, w, refs) ==
    [r \in DOMAIN objs \cap ({t.nvars : t \in Elements(ts) \cup {w}}
                             \cup {refs[c] : c \in Caller}) |-> objs[r]]

\* The call ends: send raises or returns; __call__ logs an exception.
End(c, how) ==
    /\ outcome' = [outcome EXCEPT ![c] = how]
    /\ pc' = [pc EXCEPT ![c] = "idle"]
    /\ lock' = NoCaller
    /\ strict' = [strict EXCEPT ![c] = FALSE]
    /\ names' = [names EXCEPT ![c] = {}] /\ iter' = [iter EXCEPT ![c] = "own"]
    /\ left' = [left EXCEPT ![c] = {}] /\ current' = [current EXCEPT ![c] = NoName]
    /\ entry' = [entry EXCEPT ![c] = NoEntry] /\ queue' = [queue EXCEPT ![c] = <<>>]
    /\ chosen' = IF how = "sent" THEN chosen ELSE [chosen EXCEPT ![c] = {}]
    /\ acked' = IF how = "raised" THEN [acked EXCEPT ![c] = {}] ELSE acked
    /\ nvars' = [nvars EXCEPT ![c] = NoRef]
    /\ objects' = Reachable(objects, tasks, worker, nvars')
    /\ UNCHANGED calls

\* One name of _select is done with, wanted or not.
Selected(c, n, wanted) ==
    /\ names' = [names EXCEPT ![c] = @ \ {n}]
    /\ chosen' = [chosen EXCEPT ![c] = @ \cup wanted]
    /\ UNCHANGED <<lock, pc, strict, iter, calls, left, current, entry, queue, acked,
                   memory, outcome>>

\* Mutant: send accepts an entry without handlers.
SelectEntry_Empty(c, n, e) ==
    IF strict[c] /\ Elements(e.handlers) \cap LegacyOnly # {}
    THEN End(c, "rejected") ELSE Selected(c, n, {n})

\* A wanted name: send also wants handlers, all of which implement it.
SelectEntry(c, n, e) ==
    CASE strict[c] /\ e.handlers = <<>> -> End(c, "raised")
      [] strict[c] /\ Elements(e.handlers) \cap LegacyOnly # {} -> End(c, "rejected")
      [] OTHER -> Selected(c, n, {n})

\* An unknown name is an error of send only; tags not parsed yet are one of both.
SelectName(c, n) ==
    /\ pc[c] = "select" /\ iter[c] # "changed"
    /\ LET e == entries[notifications[n]]
       IN  IF notifications[n] = NoEntry
           THEN IF strict[c] THEN End(c, "raised") ELSE Selected(c, n, {})
           ELSE \/ Selected(c, n, {})
                \/ e.tags /\ SelectEntry(c, n, e)
                \/ ~e.tags /\ End(c, "raised")
    /\ UNCHANGED background
    /\ Alone

SelectFails(c) ==
    /\ pc[c] = "select" /\ iter[c] = "changed"
    /\ End(c, "raised")
    /\ UNCHANGED background
    /\ Alone

\* The object at ref becomes v.
Assigned(ref, v) == [r \in DOMAIN objects \cup {ref} |-> IF r = ref THEN v ELSE objects[r]]

\* A selection was made: the call copies its arguments, and a legacy one makes sure
\* that there is a pool.
SelectDone(c) ==
    /\ pc[c] = "select" /\ iter[c] # "changed" /\ names[c] = {}
    /\ IF strict[c] /\ chosen[c] = {}
       THEN End(c, "raised") /\ UNCHANGED pool
       ELSE /\ pc' = [pc EXCEPT ![c] = "run"]
            /\ left' = [left EXCEPT ![c] = chosen[c]]
            /\ iter' = [iter EXCEPT ![c] = "own"]
            /\ nvars' = [nvars EXCEPT ![c] = [caller |-> c, call |-> calls[c],
                                             name |-> NoName, left |-> 0]]
            /\ objects' = Assigned(nvars'[c], [name |-> NoName, by |-> {}])
            /\ pool' = IF strict[c] THEN pool ELSE "open"
            /\ UNCHANGED <<lock, strict, names, calls, chosen, current, entry, queue,
                           acked, outcome>>
    /\ UNCHANGED <<tasks, worker, called>>
    /\ Alone

\* _run looks the name up again: it may be gone, or its entry be another one.  nvars
\* gets its _NAME_.
TakeName(c, n) ==
    /\ pc[c] = "run"
    /\ IF notifications[n] = NoEntry
       THEN End(c, "raised")
       ELSE /\ pc' = [pc EXCEPT ![c] = "render"]
            /\ current' = [current EXCEPT ![c] = n]
            /\ entry' = [entry EXCEPT ![c] = notifications[n]]
            /\ left' = [left EXCEPT ![c] = @ \ {n}]
            /\ objects' = [objects EXCEPT ![nvars[c]].name = n]
            /\ UNCHANGED <<nvars, lock, selection, chosen, queue, acked, outcome>>
    /\ UNCHANGED background
    /\ Alone

\* The template and the URI are rendered, which may fail; then the handlers are read.
Render(c) ==
    /\ pc[c] = "render"
    /\ \/ End(c, "raised")
       \/ /\ pc' = [pc EXCEPT ![c] = "handle"]
          /\ queue' = [queue EXCEPT ![c] = entries[entry[c]].handlers]
          /\ UNCHANGED <<lock, selection, chosen, left, current, entry, acked, memory,
                         outcome>>
    /\ UNCHANGED background
    /\ Alone

\* Mutant: the handlers get the variables of the call themselves.
Copied_Shared(c) == [ref |-> nvars[c], objects |-> objects]

\* copy.deepcopy(nvars): an object of its own for each handler.
Copied(c) ==
    LET ref == [caller |-> c, call |-> calls[c], name |-> current[c], left |-> Len(queue[c])]
    IN  [ref |-> ref, objects |-> Assigned(ref, objects[nvars[c]])]

\* What a handler may leave of the variables that it was given.
Written(objs, ref, h) == {objs, [objs EXCEPT ![ref].by = @ \cup {h}]}

HandlerDone(c) ==
    /\ queue' = [queue EXCEPT ![c] = Tail(@)]
    /\ UNCHANGED <<lock, pc, selection, chosen, left, current, entry, nvars, outcome>>

\* A handler called at once has returned.
CalledNow(c, h) ==
    /\ HandlerDone(c)
    /\ \E objs \in Written(Copied(c).objects, Copied(c).ref, h) :
          objects' = Reachable(objs, tasks, worker, nvars)

\* send raises or is not acknowledged, which ends the call; one that h does not
\* implement rejects it.
SendTo(c, h) ==
    \/ /\ h \notin LegacyOnly
       /\ CalledNow(c, h)
       /\ acked' = [acked EXCEPT ![c] = @ \cup {<<current[c], h>>}]
    \/ h \notin LegacyOnly /\ End(c, "raised")
    \/ h \in LegacyOnly /\ End(c, "rejected")

Deliver(c) ==
    /\ pc[c] = "handle" /\ queue[c] # <<>>
    /\ LET h == Head(queue[c])
       IN  \/ strict[c] /\ SendTo(c, h) /\ UNCHANGED <<tasks, called>>
           \/ /\ ~strict[c] /\ ~entries[entry[c]].async
              /\ (CalledNow(c, h) /\ UNCHANGED acked) \/ End(c, "raised")
              /\ UNCHANGED <<tasks, called>>
           \/ /\ ~strict[c] /\ entries[entry[c]].async
              /\ HandlerDone(c) /\ UNCHANGED acked
              /\ objects' = Copied(c).objects
              /\ tasks' = Append(tasks, [name |-> current[c], handler |-> h,
                                         nvars |-> Copied(c).ref])
              /\ called' = called \ {current[c]}
    /\ UNCHANGED <<pool, worker>>
    /\ Alone

NameDone(c) ==
    /\ pc[c] = "handle" /\ queue[c] = <<>>
    /\ pc' = [pc EXCEPT ![c] = "run"]
    /\ UNCHANGED <<lock, selection, delivery, memory, outcome, background>>
    /\ Alone

\* send returns its results; a legacy call goes on to drain the pool.
Delivered(c) ==
    /\ pc[c] = "run" /\ left[c] = {}
    /\ IF strict[c] THEN End(c, "sent")
       ELSE /\ pc' = [pc EXCEPT ![c] = "drain"]
            /\ UNCHANGED <<lock, selection, delivery, memory, outcome>>
    /\ UNCHANGED background
    /\ Alone

\* Mutants: the pool is killed with tasks in it, or killed and not forgotten.
KillPool_Busy(c) ==
    /\ pc[c] = "drain" /\ pool = "open"
    /\ pool' = "none" /\ tasks' = <<>> /\ worker' = NoTask
    /\ UNCHANGED <<called, lock, pc, selection, delivery, memory, outcome>>
    /\ Alone

KillPool_Kept(c) ==
    /\ pc[c] = "drain" /\ pool = "open"
    /\ tasks = <<>> /\ worker = NoTask
    /\ UNCHANGED vars

\* killable: nothing is queued and the worker is idle.
KillPool(c) ==
    /\ pc[c] = "drain" /\ pool = "open"
    /\ tasks = <<>> /\ worker = NoTask
    /\ pool' = "none"
    /\ UNCHANGED <<tasks, worker, called, lock, pc, selection, delivery, memory, outcome>>
    /\ Alone

Drained(c) ==
    /\ pc[c] = "drain" /\ pool = "none"
    /\ End(c, "returned")
    /\ UNCHANGED background
    /\ Alone

-----------------------------------------------------------------------------
(* The worker of the pool                                                  *)

StartTask ==
    /\ pool = "open" /\ worker = NoTask /\ tasks # <<>>
    /\ worker' = Head(tasks)
    /\ tasks' = Tail(tasks)
    /\ UNCHANGED <<pool, called, lock, pc, selection, delivery, memory, outcome>>
    /\ Alone

\* The handler writes to the variables that it was given.
WriteVariables ==
    /\ worker # NoTask
    /\ objects' \in Written(objects, worker.nvars, worker.handler)
    /\ UNCHANGED <<nvars, background, lock, pc, selection, delivery, outcome>>
    /\ Alone

\* The handler returns or raises, which the pool logs.
TaskDone ==
    /\ worker # NoTask
    /\ called' = called \cup {worker.name}
    /\ worker' = NoTask
    /\ objects' = Reachable(objects, tasks, NoTask, nvars)
    /\ UNCHANGED <<nvars, pool, tasks, lock, pc, selection, delivery, outcome>>
    /\ Alone

-----------------------------------------------------------------------------
LoaderStep ==
    \/ \E n \in Name : AddName(n)
    \/ PutEntry \/ SetTags \/ SetNotifiers \/ LoadFails
    \/ ResetNotifications \/ ResetNames

CallStep(c) ==
    \/ \E n \in names[c] : SelectName(c, n)
    \/ SelectFails(c) \/ SelectDone(c)
    \/ \E n \in left[c] : TakeName(c, n)
    \/ Render(c) \/ Deliver(c) \/ NameDone(c) \/ Delivered(c)
    \/ KillPool(c) \/ Drained(c)

Next ==
    \/ LoaderStep
    \/ \E c \in Caller : Acquire(c) \/ CallStep(c) \/ \E s \in BOOLEAN : Call(c, s)
    \/ StartTask \/ WriteVariables \/ TaskDone

Spec == Init /\ [][Next]_vars

\* Handlers return, so a call that holds the lock goes on and the worker works.
Fairness ==
    /\ \A c \in Caller : WF_vars(CallStep(c))
    /\ WF_vars(StartTask \/ TaskDone)

FairSpec == Spec /\ Fairness

-----------------------------------------------------------------------------
\* notifiers.py:283: a send that returns has had every handler of every selected
\* name acknowledge, and selected one; and "legacy-only handlers are rejected before
\* sending anything".  It is so unless load or reset ran under it: _run takes the
\* entries after _select has checked them.
StrictDelivers ==
    \A c \in Caller : ~disturbed[c] =>
        /\ outcome[c] = "sent" =>
              /\ chosen[c] # {}
              /\ \A n \in chosen[c] :
                    LET handlers == Elements(entries[notifications[n]].handlers)
                    IN  handlers # {} /\ \A h \in handlers : <<n, h>> \in acked[c]
        /\ outcome[c] = "rejected" => acked[c] = {}

\* A queued or running handler sees the variables of its own name, and no write of
\* another handler, though nvars goes on to the next name meanwhile and handlers write
\* to what they are given; nor does what a handler writes reach the variables that the
\* call hands to the next one.
OwnVariables ==
    /\ \A t \in Elements(tasks) \cup ({worker} \ {NoTask}) :
          objects[t.nvars].name = t.name /\ objects[t.nvars].by \subseteq {t.handler}
    /\ \A c \in Caller : pc[c] = "handle" =>
          objects[nvars[c]].name = current[c] /\ objects[nvars[c]].by = {}

\* A notification that was queued is called, also when its call failed at a later
\* handler and left the pool behind.
QueuedAreCalled ==
    \A n \in Name : (\E i \in DOMAIN tasks : tasks[i].name = n) ~> n \in called

\* A caller that has the lock gives it back.
CallsReturn == \A c \in Caller : lock = c ~> lock # c
=============================================================================
