---------------------------- MODULE NotifierProofs ----------------------------
(***************************************************************************)
(* Push notifications, for every number of callers, names, schemes and     *)
(* handlers: what a strict send that returned or was rejected has done,    *)
(* and which variables an asynchronous handler sees.                       *)
(***************************************************************************)
EXTENDS PushNotifications, Subprocess, RedisAdapter, SequenceTheorems, TLAPS

-----------------------------------------------------------------------------
(* Sequences of handlers                                                   *)

\* A queue with a handler has a first one, which Elements knows, and the rest.
LEMMA QueueSplits ==
  ASSUME NEW S, NEW q \in Seq(S), q # <<>>
  PROVE  /\ Head(q) \in S /\ Tail(q) \in Seq(S)
         /\ Elements(q) = {Head(q)} \cup Elements(Tail(q))
<1>1. Len(q) \in Nat \ {0} /\ DOMAIN q = 1 .. Len(q)
  BY EmptySeq, LenProperties
<1>2. /\ Tail(q) \in Seq(S) /\ Head(q) = q[1] /\ q[1] \in S
      /\ DOMAIN Tail(q) = 1 .. Len(q) - 1
      /\ \A i \in 1 .. Len(q) - 1 : Tail(q)[i] = q[i + 1]
  BY <1>1
<1>3. ASSUME NEW h \in Elements(q) PROVE h \in {Head(q)} \cup Elements(Tail(q))
  <2>1. PICK i \in 1 .. Len(q) : h = q[i]
    BY <1>1 DEF Elements
  <2>2. CASE i = 1
    BY <1>2, <2>1, <2>2
  <2>3. CASE i # 1
    <3>1. i - 1 \in 1 .. Len(q) - 1 /\ Tail(q)[i - 1] = q[(i - 1) + 1] /\ (i - 1) + 1 = i
      BY <1>1, <1>2, <2>1, <2>3
    <3>2. QED
      BY <1>2, <2>1, <3>1 DEF Elements
  <2>4. QED
    BY <2>2, <2>3
<1>4. ASSUME NEW h \in {Head(q)} \cup Elements(Tail(q)) PROVE h \in Elements(q)
  <2>1. CASE h = Head(q)
    BY <1>1, <1>2, <2>1 DEF Elements
  <2>2. CASE h \in Elements(Tail(q))
    <3>1. PICK i \in 1 .. Len(q) - 1 : h = Tail(q)[i]
      BY <1>2, <2>2 DEF Elements
    <3>2. i + 1 \in 1 .. Len(q) /\ h = q[i + 1]
      BY <1>1, <1>2, <3>1
    <3>3. QED
      BY <1>1, <3>2 DEF Elements
  <2>3. QED
    BY <1>4, <2>1, <2>2
<1>5. QED
  BY <1>2, <1>3, <1>4

\* No handlers, no elements.
LEMMA EmptyQueue ==
  ASSUME NEW S, NEW q \in Seq(S)
  PROVE  (Elements(q) = {}) <=> (q = <<>>)
<1>1. CASE q = <<>>
  BY <1>1 DEF Elements
<1>2. CASE q # <<>>
  <2>1. Elements(q) = {Head(q)} \cup Elements(Tail(q))
    BY <1>2, QueueSplits
  <2>2. QED
    BY <1>2, <2>1
<1>3. QED
  BY <1>1, <1>2

-----------------------------------------------------------------------------
(* Types, and who has the lock                                             *)

\* A name that is delivered is a name, and has an entry.
Placed(c) ==
    pc[c] \in {"render", "handle"} => current[c] \in Name /\ entry[c] # NoEntry

\* The lock is its holder's from the selection to the end of the call.
Holding(c) == pc[c] \in {"select", "run", "render", "handle", "drain"}
OneHolds == \A c \in Caller : Holding(c) <=> lock = c

TypeInv ==
    /\ CallsTyped
    /\ loader = "put" => Len(entries) + resets < MaxChanges
    /\ \A c \in Caller : Placed(c)

\* An entry has handlers, which are those of a scheme or not read yet.
LEMMA HandlersTyped ==
  ASSUME NotifierAssumption, CallsTyped, NEW i \in 1 .. Len(entries)
  PROVE  entries[i] \in Entry /\ entries[i].handlers \in Seq(Handler)
         /\ entries[i].tags \in BOOLEAN /\ entries[i].async \in BOOLEAN
<1>1. entries[i] \in Entry
  BY DEF CallsTyped
<1>2. \A s \in Scheme : Handlers[s] \in Seq(Handler)
  BY DEF NotifierAssumption
<1>3. ASSUME NEW e \in Entry PROVE e.handlers \in Seq(Handler)
  <2>1. e.handlers = <<>> \/ \E s \in Scheme : e.handlers = Handlers[s]
    BY DEF Entry
  <2>2. <<>> \in Seq(Handler)
    OBVIOUS
  <2>3. QED
    BY <1>2, <2>1, <2>2
<1>4. QED
  BY <1>1, <1>3 DEF Entry

\* The loader leaves the calls and the pool alone, and disturbs every call.
LEMMA LoaderEffect ==
  ASSUME CallsTyped, LoaderStep
  PROVE  /\ UNCHANGED <<lock, pc, strict, names, calls, delivery, memory, outcome, background>>
         /\ disturbed' = [c \in Caller |-> TRUE]
  BY DEF LoaderStep, Loader, AddName, PutEntry, SetTags, SetNotifiers, LoadFails,
         ResetNotifications, ResetNames

\* The types hold at first.
LEMMA TypeInit == NotifierAssumption /\ Init => TypeInv /\ OneHolds
<1> SUFFICES ASSUME NotifierAssumption, Init PROVE TypeInv /\ OneHolds
  OBVIOUS
<1>1. <<>> \in Seq(Entry) /\ <<>> \in Seq(Task) /\ <<>> \in Seq(Handler) /\ Len(<<>>) = 0
  BY EmptySeq
<1>2. CallsTyped
  BY <1>1 DEF Init, CallsTyped, NotifierAssumption, NoEntry
<1>3. TypeInv
  BY <1>2 DEF Init, TypeInv, Placed
<1>4. OneHolds
  BY DEF Init, OneHolds, Holding, NotifierAssumption
<1>5. QED
  BY <1>3, <1>4

\* What the loader does to the entries keeps them typed, and never removes one.
LEMMA LoaderTyped ==
  ASSUME NotifierAssumption, TypeInv, LoaderStep
  PROVE  TypeInv'
<1> USE DEF TypeInv, CallsTyped, Loader, NoEntry
<1>1. /\ UNCHANGED <<lock, pc, strict, names, calls, delivery, memory, outcome, background>>
      /\ disturbed' = [c \in Caller |-> TRUE]
  BY LoaderEffect
<1>2. Len(entries) \in Nat /\ MaxChanges \in Nat /\ resets \in Nat
  BY DEF NotifierAssumption
<1> DEFINE Config ==
      /\ notifNames' \subseteq Name
      /\ notifications' \in [Name -> 0 .. Len(entries')]
      /\ entries' \in Seq(Entry) /\ Len(entries') <= MaxChanges
      /\ Len(entries) <= Len(entries')
      /\ loader' \in {"idle", "put", "tags", "notifiers", "reset"}
      /\ loading' \in Name \cup {NoName}
      /\ iter' \in [Caller -> {"own", "shared", "changed"}]
      /\ resets' \in 0 .. MaxChanges
      /\ loader' = "put" => Len(entries') + resets' < MaxChanges
<1>3. ASSUME NEW n \in Name, AddName(n) PROVE Config
  <2>1. iter' \in [Caller -> {"own", "shared", "changed"}]
    BY <1>3 DEF AddName
  <2>2. QED
    BY <1>2, <1>3, <2>1 DEF AddName
<1>4. ASSUME PutEntry PROVE Config
  <2>1. PICK a \in BOOLEAN :
           entries' = Append(entries, [tags |-> FALSE, handlers |-> <<>>, async |-> a])
    BY <1>4 DEF PutEntry
  <2>2. [tags |-> FALSE, handlers |-> <<>>, async |-> a] \in Entry
    BY DEF Entry
  <2>3. entries' \in Seq(Entry) /\ Len(entries') = Len(entries) + 1
    BY <2>1, <2>2
  <2>4. notifications' \in [Name -> 0 .. Len(entries')]
    <3>1. Len(entries') \in 0 .. Len(entries') /\ (\A k \in 0 .. Len(entries) : k \in 0 .. Len(entries'))
      BY <1>2, <2>3
    <3>2. notifications' = [notifications EXCEPT ![loading] = Len(entries')]
      BY <1>4 DEF PutEntry
    <3>3. notifications \in [Name -> 0 .. Len(entries')]
      BY <3>1
    <3>4. QED
      BY <3>1, <3>2, <3>3
  <2>5. QED
    BY <1>2, <1>4, <2>3, <2>4 DEF PutEntry
<1>5. ASSUME entries' \in Seq(Entry), Len(entries') = Len(entries),
             loader' \in {"idle", "notifiers"}, loading' \in Name \cup {NoName},
             UNCHANGED <<notifNames, notifications, resets, iter>>
      PROVE  Config
  BY <1>2, <1>5
<1>6. ASSUME NEW e \in Entry, Len(entries) \in 1 .. Len(entries),
             entries' = [entries EXCEPT ![Len(entries)] = e]
      PROVE  entries' \in Seq(Entry) /\ Len(entries') = Len(entries)
  BY <1>6, ExceptSeq
<1>7. ASSUME SetTags PROVE Config
  <2>1. CASE entries = <<>>
    <3>1. entries' = entries
      BY <1>7, <2>1 DEF SetTags
    <3>2. QED
      BY <1>5, <1>7, <3>1 DEF SetTags
  <2>2. CASE entries # <<>>
    <3>1. Len(entries) \in 1 .. Len(entries)
      BY <1>2, <2>2, EmptySeq
    <3>2. entries[Len(entries)] \in Entry
      BY <3>1
    <3>3. [entries[Len(entries)] EXCEPT !.tags = TRUE] \in Entry
      BY <3>2 DEF Entry
    <3>4. entries' = [entries EXCEPT ![Len(entries)] = [entries[Len(entries)] EXCEPT !.tags = TRUE]]
      BY <1>7 DEF SetTags
    <3>5. QED
      BY <1>5, <1>6, <1>7, <3>1, <3>3, <3>4 DEF SetTags
  <2>3. QED
    BY <2>1, <2>2
<1>8. ASSUME SetNotifiers PROVE Config
  <2>1. PICK s \in Scheme : entries' = [entries EXCEPT ![Len(entries)].handlers = Handlers[s]]
    BY <1>8 DEF SetNotifiers
  <2>2. CASE entries = <<>>
    <3>1. entries' = entries
      BY <2>1, <2>2
    <3>2. QED
      BY <1>5, <1>8, <3>1 DEF SetNotifiers
  <2>3. CASE entries # <<>>
    <3>1. Len(entries) \in 1 .. Len(entries)
      BY <1>2, <2>3, EmptySeq
    <3>2. entries[Len(entries)] \in Entry
      BY <3>1
    <3>3. [entries[Len(entries)] EXCEPT !.handlers = Handlers[s]] \in Entry
      BY <3>2 DEF Entry
    <3>4. entries' = [entries EXCEPT ![Len(entries)] =
                        [entries[Len(entries)] EXCEPT !.handlers = Handlers[s]]]
      BY <2>1
    <3>5. QED
      BY <1>5, <1>6, <1>8, <3>1, <3>3, <3>4 DEF SetNotifiers
  <2>4. QED
    BY <2>2, <2>3
<1>9. ASSUME LoadFails PROVE Config
  BY <1>5, <1>9 DEF LoadFails
<1>10. ASSUME ResetNotifications PROVE Config
  BY <1>2, <1>10 DEF ResetNotifications
<1>11. ASSUME ResetNames PROVE Config
  <2>1. iter' \in [Caller -> {"own", "shared", "changed"}]
    BY <1>11 DEF ResetNames
  <2>2. QED
    BY <1>2, <1>11, <2>1 DEF ResetNames
<1>12. Config
  BY <1>3, <1>4, <1>7, <1>8, <1>9, <1>10, <1>11 DEF LoaderStep
<1> HIDE DEF Config
<1>13. \A c \in Caller : Placed(c)'
  BY <1>1 DEF Placed, delivery
<1>14. entry' \in [Caller -> 0 .. Len(entries')]
  BY <1>1, <1>2, <1>12 DEF Config, delivery
<1>15. disturbed' \in [Caller -> BOOLEAN]
  BY <1>1
<1>16. QED
  BY <1>1, <1>12, <1>13, <1>14, <1>15 DEF Config, delivery, memory, background

\* A call that ends leaves nothing that is not typed.
LEMMA EndTyped ==
  ASSUME NotifierAssumption, TypeInv, NEW c \in Caller,
         NEW how \in {"sent", "returned", "rejected", "raised"}, End(c, how), Alone,
         pool' \in {"none", "open"}, tasks' \in Seq(Task), worker' \in Task \cup {NoTask},
         called' \subseteq Name
  PROVE  TypeInv'
<1> USE DEF TypeInv, CallsTyped, End, Alone, config, NoEntry
<1>1. iter' \in [Caller -> {"own", "shared", "changed"}]
  OBVIOUS
<1>2. /\ pc' \in [Caller -> {"idle", "wait", "select", "run", "render", "handle", "drain"}]
      /\ pc'[c] = "idle" /\ strict' \in [Caller -> BOOLEAN]
      /\ outcome' \in [Caller -> {"none", "sent", "returned", "rejected", "raised"}]
  OBVIOUS
<1>3. /\ names' \in [Caller -> SUBSET Name] /\ left' \in [Caller -> SUBSET Name]
      /\ current' \in [Caller -> Name \cup {NoName}] /\ entry' \in [Caller -> 0 .. Len(entries)]
      /\ queue' \in [Caller -> Seq(Handler)]
  <2>1. <<>> \in Seq(Handler) /\ 0 \in 0 .. Len(entries)
    OBVIOUS
  <2>2. QED
    BY <2>1
<1>4. chosen' \in [Caller -> SUBSET Name] /\ acked' \in [Caller -> SUBSET (Name \X Handler)]
  OBVIOUS
<1>5. \A d \in Caller : Placed(d)'
  <2>1. SUFFICES ASSUME NEW d \in Caller, d # c PROVE Placed(d)'
    BY <1>2 DEF Placed
  <2>2. pc'[d] = pc[d] /\ current'[d] = current[d] /\ entry'[d] = entry[d] /\ Placed(d)
    BY <2>1
  <2>3. QED
    BY <2>2 DEF Placed
<1>6. QED
  BY <1>1, <1>2, <1>3, <1>4, <1>5

\* A call that does not end moves on with typed locals.
LEMMA MovesTyped ==
  ASSUME NotifierAssumption, TypeInv, NEW c \in Caller, Alone,
         UNCHANGED <<strict, calls, acked, outcome, nvars>>,
         lock' \in Caller \cup {NoCaller},
         NEW here \in {"idle", "wait", "select", "run", "render", "handle", "drain"},
         pc' = [pc EXCEPT ![c] = here],
         names' \in [Caller -> SUBSET Name], iter' \in [Caller -> {"own", "shared", "changed"}],
         chosen' \in [Caller -> SUBSET Name], left' \in [Caller -> SUBSET Name],
         queue' \in [Caller -> Seq(Handler)],
         NEW n \in Name \cup {NoName}, NEW e \in 0 .. Len(entries),
         current' = [current EXCEPT ![c] = n], entry' = [entry EXCEPT ![c] = e],
         here \in {"render", "handle"} => n \in Name /\ e # NoEntry,
         pool' \in {"none", "open"}, tasks' \in Seq(Task), UNCHANGED <<worker, called>>
  PROVE  TypeInv'
<1> USE DEF TypeInv, CallsTyped, Alone, config, NoEntry
<1>1. /\ pc' \in [Caller -> {"idle", "wait", "select", "run", "render", "handle", "drain"}]
      /\ current' \in [Caller -> Name \cup {NoName}] /\ entry' \in [Caller -> 0 .. Len(entries)]
  OBVIOUS
<1>2. \A d \in Caller : Placed(d)'
  <2>1. SUFFICES ASSUME NEW d \in Caller PROVE Placed(d)'
    OBVIOUS
  <2>2. CASE d = c
    BY <2>2 DEF Placed
  <2>3. CASE d # c
    <3>1. pc'[d] = pc[d] /\ current'[d] = current[d] /\ entry'[d] = entry[d] /\ Placed(d)
      BY <2>3
    <3>2. QED
      BY <3>1 DEF Placed
  <2>4. QED
    BY <2>2, <2>3
<1>3. QED
  BY <1>1, <1>2

\* What is selected is selected by the caller, and typed.
LEMMA SelectedTyped ==
  ASSUME NotifierAssumption, TypeInv, NEW c \in Caller, NEW n \in Name,
         NEW extra \in SUBSET Name, Selected(c, n, extra),
         UNCHANGED background, Alone
  PROVE  TypeInv'
<1> USE DEF TypeInv, CallsTyped, Selected, Alone, config, background, memory, NoEntry
<1>1. names' \in [Caller -> SUBSET Name] /\ chosen' \in [Caller -> SUBSET Name]
  OBVIOUS
<1>2. \A d \in Caller : Placed(d)'
  BY DEF Placed
<1>3. QED
  BY <1>1, <1>2

\* What a call does, from the lock to the end, is typed.
LEMMA CallTyped ==
  ASSUME NotifierAssumption, TypeInv, NEW c \in Caller, NEW s \in BOOLEAN,
         Acquire(c) \/ CallStep(c) \/ Call(c, s)
  PROVE  TypeInv'
<1> USE DEF TypeInv, CallsTyped, NoEntry, config, background, delivery, memory, selection
<1>0. /\ pool \in {"none", "open"} /\ tasks \in Seq(Task) /\ worker \in Task \cup {NoTask}
      /\ called \subseteq Name
  OBVIOUS
<1>1. CASE Call(c, s)
  <2>1. calls' \in [Caller -> 0 .. MaxCalls]
    BY <1>1 DEF Call, NotifierAssumption
  <2>2. \A d \in Caller : Placed(d)'
    BY <1>1 DEF Call, Placed
  <2>3. strict' \in [Caller -> BOOLEAN]
        /\ pc' \in [Caller -> {"idle", "wait", "select", "run", "render", "handle", "drain"}]
    BY <1>1 DEF Call
  <2>4. QED
    BY <1>1, <2>1, <2>2, <2>3 DEF Call, Alone
<1>2. CASE Acquire(c)
  <2>1. /\ names' \in [Caller -> SUBSET Name] /\ iter' \in [Caller -> {"own", "shared", "changed"}]
        /\ chosen' \in [Caller -> SUBSET Name] /\ acked' \in [Caller -> SUBSET (Name \X Handler)]
    <3>1. /\ chosen' = [chosen EXCEPT ![c] = {}] /\ acked' = [acked EXCEPT ![c] = {}]
          /\ \/ \E given \in SUBSET Name : names' = [names EXCEPT ![c] = given]
             \/ names' = [names EXCEPT ![c] = notifNames]
          /\ \E i \in {"own", "shared"} : iter' = [iter EXCEPT ![c] = i]
      BY <1>2 DEF Acquire
    <3>2. names' \in [Caller -> SUBSET Name]
      <4>1. PICK given \in SUBSET Name : names' = [names EXCEPT ![c] = given]
        BY <3>1
      <4>2. QED
        BY <4>1
    <3>3. PICK i \in {"own", "shared", "changed"} : iter' = [iter EXCEPT ![c] = i]
      BY <3>1
    <3>4. iter' \in [Caller -> {"own", "shared", "changed"}]
      BY <3>3
    <3>5. {} \in SUBSET Name /\ {} \in SUBSET (Name \X Handler)
      OBVIOUS
    <3>6. chosen' \in [Caller -> SUBSET Name] /\ acked' \in [Caller -> SUBSET (Name \X Handler)]
      BY <3>1, <3>5
    <3>7. QED
      BY <3>2, <3>4, <3>6
  <2>2. \A d \in Caller : Placed(d)'
    BY <1>2 DEF Acquire, Placed
  <2>3. /\ pc' \in [Caller -> {"idle", "wait", "select", "run", "render", "handle", "drain"}]
        /\ outcome' \in [Caller -> {"none", "sent", "returned", "rejected", "raised"}]
        /\ disturbed' \in [Caller -> BOOLEAN] /\ lock' \in Caller
    BY <1>2 DEF Acquire
  <2>4. QED
    BY <1>2, <2>1, <2>2, <2>3 DEF Acquire
<1>3. ASSUME NEW n \in names[c], SelectName(c, n) PROVE TypeInv'
  <2>1. n \in Name /\ {} \in SUBSET Name /\ {n} \in SUBSET Name
    OBVIOUS
  <2>2. UNCHANGED background /\ Alone
    BY <1>3 DEF SelectName
  <2>3. \/ \E how \in {"raised", "rejected"} : End(c, how)
        \/ \E extra \in {{}, {n}} : Selected(c, n, extra)
    BY <1>3 DEF SelectName, SelectEntry
  <2>4. ASSUME NEW how \in {"raised", "rejected"}, End(c, how) PROVE TypeInv'
    <3>1. /\ how \in {"sent", "returned", "rejected", "raised"}
          /\ pool' \in {"none", "open"} /\ tasks' \in Seq(Task)
          /\ worker' \in Task \cup {NoTask} /\ called' \subseteq Name
      BY <1>0, <2>2, <2>4
    <3> HIDE DEF TypeInv, CallsTyped, NoEntry
    <3>2. QED
      BY <2>2, <2>4, <3>1, EndTyped
  <2>5. ASSUME NEW extra \in {{}, {n}}, Selected(c, n, extra) PROVE TypeInv'
    <3>1. extra \in SUBSET Name
      BY <2>1
    <3>2. QED
      BY <2>1, <2>2, <2>5, <3>1, SelectedTyped
  <2>6. QED
    BY <2>3, <2>4, <2>5
<1>4. CASE SelectFails(c)
  BY <1>0, <1>4, EndTyped DEF SelectFails
<1>5. CASE SelectDone(c)
  <2>1. CASE strict[c] /\ chosen[c] = {}
    BY <1>0, <1>5, <2>1, EndTyped DEF SelectDone
  <2>2. CASE ~(strict[c] /\ chosen[c] = {})
    <3>1. /\ pc' = [pc EXCEPT ![c] = "run"] /\ left' = [left EXCEPT ![c] = chosen[c]]
          /\ iter' = [iter EXCEPT ![c] = "own"] /\ pool' \in {"none", "open"}
          /\ UNCHANGED <<lock, strict, names, calls, chosen, current, entry, queue,
                         acked, outcome, tasks, worker, called>>
          /\ nvars' = [nvars EXCEPT ![c] = [caller |-> c, call |-> calls[c],
                                           name |-> NoName, left |-> 0]]
          /\ Alone
      BY <1>5, <2>2 DEF SelectDone
    <3>2. \A d \in Caller : Placed(d)'
      BY <3>1 DEF Placed
    <3>3. left' \in [Caller -> SUBSET Name] /\ iter' \in [Caller -> {"own", "shared", "changed"}]
      BY <3>1
    <3>4. nvars' \in [Caller -> Ref \cup {NoRef}]
      <4>1. [caller |-> c, call |-> calls[c], name |-> NoName, left |-> 0] \in Ref
        BY DEF Ref
      <4>2. QED
        BY <3>1, <4>1
    <3>5. QED
      BY <3>1, <3>2, <3>3, <3>4 DEF Alone
  <2>3. QED
    BY <2>1, <2>2
<1>6. ASSUME NEW n \in left[c], TakeName(c, n) PROVE TypeInv'
  <2>1. CASE notifications[n] = NoEntry
    BY <1>0, <1>6, <2>1, EndTyped DEF TakeName
  <2>2. CASE notifications[n] # NoEntry
    <3>1. /\ pc' = [pc EXCEPT ![c] = "render"] /\ current' = [current EXCEPT ![c] = n]
          /\ entry' = [entry EXCEPT ![c] = notifications[n]]
          /\ left' = [left EXCEPT ![c] = @ \ {n}]
          /\ UNCHANGED <<lock, strict, names, iter, calls, chosen, queue, acked, outcome,
                         nvars, pool, tasks, worker, called>>
          /\ Alone
      BY <1>6, <2>2 DEF TakeName
    <3>2. n \in Name /\ notifications[n] \in 0 .. Len(entries)
      OBVIOUS
    <3>3. left' \in [Caller -> SUBSET Name]
      BY <3>1
    <3>4. QED
      BY <2>2, <3>1, <3>2, <3>3, MovesTyped
  <2>3. QED
    BY <2>1, <2>2
<1>7. CASE Render(c)
  <2>1. CASE End(c, "raised")
    BY <1>0, <1>7, <2>1, EndTyped DEF Render
  <2>2. CASE ~End(c, "raised")
    <3>1. /\ pc[c] = "render" /\ pc' = [pc EXCEPT ![c] = "handle"]
          /\ queue' = [queue EXCEPT ![c] = entries[entry[c]].handlers]
          /\ UNCHANGED <<lock, strict, names, iter, calls, chosen, left, current, entry,
                         acked, outcome, nvars, pool, tasks, worker, called>>
          /\ Alone
      BY <1>7, <2>2 DEF Render
    <3>2. entry[c] \in 1 .. Len(entries) /\ current[c] \in Name
      BY <3>1 DEF Placed
    <3>3. queue' \in [Caller -> Seq(Handler)]
      BY <3>1, <3>2, HandlersTyped
    <3>4. \A d \in Caller : Placed(d)'
      BY <3>1 DEF Placed
    <3>5. QED
      BY <3>1, <3>3, <3>4 DEF Alone
  <2>3. QED
    BY <2>1, <2>2
<1>8. CASE Deliver(c)
  <2> DEFINE h == Head(queue[c])
  <2>1. pc[c] = "handle" /\ queue[c] # <<>> /\ queue[c] \in Seq(Handler)
        /\ UNCHANGED <<pool, worker>> /\ Alone
    BY <1>8 DEF Deliver
  <2>2. current[c] \in Name /\ h \in Handler /\ Tail(queue[c]) \in Seq(Handler)
    BY <2>1, QueueSplits DEF Placed
  <2>3. \/ \E how \in {"raised", "rejected"} : End(c, how) /\ UNCHANGED <<tasks, called>>
        \/ /\ HandlerDone(c)
           /\ acked' \in {acked, [acked EXCEPT ![c] = @ \cup {<<current[c], h>>}]}
           /\ tasks' \in {tasks, Append(tasks, [name |-> current[c], handler |-> h,
                                               nvars |-> Copied(c).ref])}
           /\ called' \in {called, called \ {current[c]}}
    BY <1>8 DEF Deliver, SendTo, CalledNow
  <2>4. [name |-> current[c], handler |-> h, nvars |-> Copied(c).ref] \in Task
    <3>1. Len(queue[c]) \in Nat /\ calls[c] \in 0 .. MaxCalls /\ current[c] \in Name \cup {NoName}
      BY <2>1, <2>2, LenProperties
    <3>2. Copied(c).ref \in Ref
      BY <3>1 DEF Copied, Ref
    <3> HIDE DEF h
    <3>3. QED
      BY <2>2, <3>2 DEF Task
  <2> HIDE DEF h
  <2>5. ASSUME NEW how \in {"raised", "rejected"}, End(c, how), UNCHANGED <<tasks, called>>
        PROVE  TypeInv'
    <3>1. /\ how \in {"sent", "returned", "rejected", "raised"}
          /\ pool' \in {"none", "open"} /\ tasks' \in Seq(Task)
          /\ worker' \in Task \cup {NoTask} /\ called' \subseteq Name
      BY <1>0, <2>1, <2>5
    <3> HIDE DEF TypeInv, CallsTyped, NoEntry
    <3>2. QED
      BY <2>1, <2>5, <3>1, EndTyped
  <2>6. ASSUME HandlerDone(c),
               acked' \in {acked, [acked EXCEPT ![c] = @ \cup {<<current[c], h>>}]},
               tasks' \in {tasks, Append(tasks, [name |-> current[c], handler |-> h,
                                                 nvars |-> Copied(c).ref])},
               called' \in {called, called \ {current[c]}}
        PROVE  TypeInv'
    <3>1. acked' \in [Caller -> SUBSET (Name \X Handler)]
      <4>1. acked[c] \cup {<<current[c], h>>} \in SUBSET (Name \X Handler)
        BY <2>2
      <4>2. CASE acked' = acked
        BY <4>2
      <4>3. CASE acked' # acked
        <5>1. PICK v \in SUBSET (Name \X Handler) : acked' = [acked EXCEPT ![c] = v]
          BY <2>6, <4>1, <4>3
        <5>2. QED
          BY <5>1
      <4>4. QED
        BY <4>2, <4>3
    <3>2. tasks' \in Seq(Task)
      <4>1. \A t \in Task : Append(tasks, t) \in Seq(Task)
        BY AppendProperties
      <4>2. QED
        BY <2>4, <2>6, <4>1
    <3>3. queue' \in [Caller -> Seq(Handler)]
      BY <2>2, <2>6 DEF HandlerDone
    <3>4. \A d \in Caller : Placed(d)'
      BY <2>6 DEF HandlerDone, Placed
    <3>5. QED
      BY <2>1, <2>6, <3>1, <3>2, <3>3, <3>4 DEF HandlerDone, Alone
  <2>7. QED
    BY <2>3, <2>5, <2>6
<1>9. CASE NameDone(c)
  <2>1. \A d \in Caller : Placed(d)'
    BY <1>9 DEF NameDone, Placed
  <2>2. QED
    BY <1>9, <2>1 DEF NameDone, Alone
<1>10. CASE Delivered(c)
  <2>1. CASE strict[c]
    BY <1>0, <1>10, <2>1, EndTyped DEF Delivered
  <2>2. CASE ~strict[c]
    <3>1. pc' = [pc EXCEPT ![c] = "drain"] /\ UNCHANGED <<current, entry>>
      BY <1>10, <2>2 DEF Delivered
    <3>2. \A d \in Caller : Placed(d)'
      BY <3>1 DEF Placed
    <3>3. QED
      BY <1>10, <2>2, <3>1, <3>2 DEF Delivered, Alone
  <2>3. QED
    BY <2>1, <2>2
<1>11. CASE KillPool(c)
  <2>1. \A d \in Caller : Placed(d)'
    BY <1>11 DEF KillPool, Placed
  <2>2. QED
    BY <1>11, <2>1 DEF KillPool, Alone
<1>12. CASE Drained(c)
  BY <1>0, <1>12, EndTyped DEF Drained
<1>13. QED
  BY <1>1, <1>2, <1>3, <1>4, <1>5, <1>6, <1>7, <1>8, <1>9, <1>10, <1>11, <1>12 DEF CallStep

\* What one step of a call does to the rest: nothing to another call, nothing to
\* the configuration; and the lock comes and goes with it.
Mine(c) == <<pc[c], strict[c], chosen[c], left[c], current[c], entry[c], queue[c],
             acked[c], outcome[c], disturbed[c], calls[c], nvars[c]>>

LockTurn(c) ==
    \/ ~Holding(c) /\ ~Holding(c)' /\ lock' = lock
    \/ ~Holding(c) /\ lock = NoCaller /\ Holding(c)' /\ lock' = c
    \/ Holding(c) /\ Holding(c)' /\ lock' = lock
    \/ Holding(c) /\ ~Holding(c)' /\ lock' = NoCaller

\* The end of a call, seen from another one and from the lock.
LEMMA EndAlone ==
  ASSUME CallsTyped, NEW c \in Caller, Holding(c), NEW how, End(c, how), Alone
  PROVE  /\ \A d \in Caller \ {c} : Mine(d)' = Mine(d)
         /\ LockTurn(c) /\ pc'[c] = "idle" /\ outcome'[c] = how
         /\ (how = "sent" => chosen'[c] = chosen[c])
         /\ (how # "raised" => acked'[c] = acked[c])
         /\ disturbed'[c] = disturbed[c]
<1> USE DEF CallsTyped, End, Alone
<1>1. \A d \in Caller \ {c} : Mine(d)' = Mine(d)
  BY DEF Mine
<1>2. LockTurn(c) /\ pc'[c] = "idle"
  BY DEF LockTurn, Holding
<1>3. QED
  BY <1>1, <1>2

\* The same for every step of a call.
LEMMA CallAlone ==
  ASSUME CallsTyped, NEW c \in Caller, NEW s \in BOOLEAN,
         Acquire(c) \/ CallStep(c) \/ Call(c, s)
  PROVE  /\ \A d \in Caller \ {c} : Mine(d)' = Mine(d)
         /\ LockTurn(c) /\ UNCHANGED config
<1> USE DEF background, delivery, memory, selection, Alone
<1> DEFINE Goal == (\A d \in Caller \ {c} : Mine(d)' = Mine(d)) /\ LockTurn(c) /\ UNCHANGED config
<1>1. ASSUME NEW how, End(c, how), Alone, Holding(c) PROVE Goal
  BY <1>1, EndAlone
<1>2. CASE Call(c, s)
  BY <1>2 DEF Call, CallsTyped, Mine, LockTurn, Holding
<1>3. CASE Acquire(c)
  BY <1>3 DEF Acquire, CallsTyped, Mine, LockTurn, Holding
<1>4. ASSUME NEW n \in names[c], SelectName(c, n) PROVE Goal
  <2>1. Holding(c) /\ Alone
    BY <1>4 DEF SelectName, Holding
  <2>2. (\E how \in {"raised", "rejected"} : End(c, how)) \/ \E extra \in {{}, {n}} : Selected(c, n, extra)
    BY <1>4 DEF SelectName, SelectEntry
  <2>3. ASSUME NEW extra, Selected(c, n, extra) PROVE Goal
    BY <2>1, <2>3 DEF Selected, CallsTyped, Mine, LockTurn, Holding
  <2>4. QED
    BY <1>1, <2>1, <2>2, <2>3
<1>5. CASE SelectFails(c)
  BY <1>1, <1>5 DEF SelectFails, Holding
<1>6. CASE SelectDone(c)
  <2>1. Holding(c) /\ Alone
    BY <1>6 DEF SelectDone, Holding
  <2>2. CASE End(c, "raised")
    BY <1>1, <2>1, <2>2
  <2>3. CASE ~End(c, "raised")
    BY <1>6, <2>1, <2>3 DEF SelectDone, CallsTyped, Mine, LockTurn, Holding
  <2>4. QED
    BY <2>2, <2>3
<1>7. ASSUME NEW n \in left[c], TakeName(c, n) PROVE Goal
  <2>1. Holding(c) /\ Alone
    BY <1>7 DEF TakeName, Holding
  <2>2. CASE End(c, "raised")
    BY <1>1, <2>1, <2>2
  <2>3. CASE ~End(c, "raised")
    BY <1>7, <2>1, <2>3 DEF TakeName, CallsTyped, Mine, LockTurn, Holding
  <2>4. QED
    BY <2>2, <2>3
<1>8. CASE Render(c)
  <2>1. Holding(c) /\ Alone
    BY <1>8 DEF Render, Holding
  <2>2. CASE End(c, "raised")
    BY <1>1, <2>1, <2>2
  <2>3. CASE ~End(c, "raised")
    BY <1>8, <2>1, <2>3 DEF Render, CallsTyped, Mine, LockTurn, Holding
  <2>4. QED
    BY <2>2, <2>3
<1>9. CASE Deliver(c)
  <2>1. Holding(c) /\ Alone
    BY <1>9 DEF Deliver, Holding
  <2>2. \/ \E how \in {"raised", "rejected"} : End(c, how)
        \/ /\ HandlerDone(c)
           /\ acked' \in {acked, [acked EXCEPT ![c] = @ \cup {<<current[c], Head(queue[c])>>}]}
    BY <1>9 DEF Deliver, SendTo, CalledNow
  <2>3. ASSUME NEW v, HandlerDone(c), acked' \in {acked, [acked EXCEPT ![c] = v]} PROVE Goal
    <3>1. \A d \in Caller \ {c} : acked'[d] = acked[d]
      BY <2>3 DEF CallsTyped
    <3>2. QED
      BY <2>1, <2>3, <3>1 DEF HandlerDone, CallsTyped, Mine, LockTurn, Holding
  <2>4. QED
    BY <1>1, <2>1, <2>2, <2>3
<1>10. CASE NameDone(c)
  BY <1>10 DEF NameDone, CallsTyped, Mine, LockTurn, Holding
<1>11. CASE Delivered(c)
  <2>1. Holding(c) /\ Alone
    BY <1>11 DEF Delivered, Holding
  <2>2. CASE End(c, "sent")
    BY <1>1, <2>1, <2>2
  <2>3. CASE ~End(c, "sent")
    BY <1>11, <2>1, <2>3 DEF Delivered, CallsTyped, Mine, LockTurn, Holding
  <2>4. QED
    BY <2>2, <2>3
<1>12. CASE KillPool(c)
  BY <1>12 DEF KillPool, CallsTyped, Mine, LockTurn, Holding
<1>13. CASE Drained(c)
  BY <1>1, <1>13 DEF Drained, Holding
<1>14. QED
  BY <1>2, <1>3, <1>4, <1>5, <1>6, <1>7, <1>8, <1>9, <1>10, <1>11, <1>12, <1>13 DEF CallStep

\* The worker takes a task, works or is done with it, and touches no call.
WorkerStep == StartTask \/ WriteVariables \/ TaskDone

\* So it leaves the types and the calls as they are.
LEMMA WorkerAlone ==
  ASSUME NotifierAssumption, TypeInv, WorkerStep
  PROVE  TypeInv' /\ UNCHANGED <<config, lock, pc, selection, delivery, nvars, outcome, disturbed>>
<1>1. UNCHANGED <<config, lock, pc, selection, delivery, nvars, outcome, disturbed, pool>>
  BY DEF WorkerStep, StartTask, WriteVariables, TaskDone, Alone, memory, background
<1>2. tasks' \in Seq(Task) /\ worker' \in Task \cup {NoTask} /\ called' \subseteq Name
  <2>1. CASE StartTask
    <3>1. Head(tasks) \in Task /\ Tail(tasks) \in Seq(Task)
      BY <2>1, EmptySeq DEF StartTask, TypeInv, CallsTyped
    <3>2. QED
      BY <2>1, <3>1 DEF StartTask, TypeInv, CallsTyped
  <2>2. CASE TaskDone
    <3>1. worker \in Task /\ worker.name \in Name
      BY <2>2 DEF TaskDone, TypeInv, CallsTyped, Task
    <3>2. QED
      BY <2>2, <3>1 DEF TaskDone, TypeInv, CallsTyped
  <2>3. CASE WriteVariables
    BY <2>3 DEF WriteVariables, background, TypeInv, CallsTyped
  <2>4. QED
    BY <2>1, <2>2, <2>3 DEF WorkerStep
<1>3. \A d \in Caller : Placed(d)'
  BY <1>1 DEF TypeInv, Placed, delivery
<1>4. QED
  BY <1>1, <1>2, <1>3 DEF TypeInv, CallsTyped, config, selection, delivery

\* Types are kept, and one caller at most has the lock.
LEMMA TypeStep ==
  ASSUME NotifierAssumption, TypeInv, OneHolds, [Next]_vars
  PROVE  TypeInv' /\ OneHolds'
<1>1. CASE LoaderStep
  <2>1. UNCHANGED <<lock, pc>>
    BY <1>1, LoaderEffect DEF TypeInv
  <2>2. OneHolds'
    BY <2>1 DEF OneHolds, Holding
  <2>3. QED
    BY <1>1, <2>2, LoaderTyped
<1>2. ASSUME NEW c \in Caller, NEW s \in BOOLEAN, Acquire(c) \/ CallStep(c) \/ Call(c, s)
      PROVE  TypeInv' /\ OneHolds'
  <2>1. TypeInv'
    BY <1>2, CallTyped
  <2>2. (\A d \in Caller \ {c} : Mine(d)' = Mine(d)) /\ LockTurn(c)
    BY <1>2, CallAlone DEF TypeInv
  <2>3. \A d \in Caller \ {c} : Holding(d)' = Holding(d)
    BY <2>2 DEF Mine, Holding
  <2>4. NoCaller \notin Caller
    BY DEF NotifierAssumption
  <2>5. ASSUME NEW d \in Caller PROVE Holding(d)' <=> lock' = d
    <3>1. (Holding(d) <=> lock = d) /\ (Holding(c) <=> lock = c)
      BY DEF OneHolds
    <3>2. CASE d = c
      BY <2>2, <2>4, <3>1, <3>2 DEF LockTurn
    <3>3. CASE d # c
      <4>1. Holding(d)' <=> lock = d
        BY <2>3, <3>1, <3>3
      <4>2. QED
        BY <2>2, <2>4, <3>1, <3>3, <4>1 DEF LockTurn
    <3>4. QED
      BY <3>2, <3>3
  <2>6. QED
    BY <2>1, <2>5 DEF OneHolds
<1>3. CASE WorkerStep
  <2>1. TypeInv' /\ UNCHANGED <<lock, pc>>
    BY <1>3, WorkerAlone
  <2>2. OneHolds'
    BY <2>1 DEF OneHolds, Holding
  <2>3. QED
    BY <2>1, <2>2
<1>4. CASE UNCHANGED vars
  BY <1>4 DEF vars, config, selection, delivery, memory, background, TypeInv, CallsTyped, Placed,
              OneHolds, Holding
<1>5. QED
  BY <1>1, <1>2, <1>3, <1>4 DEF Next, WorkerStep

\* The types hold in every state, and so does the exclusion of the lock.
LEMMA TypeAlways == Spec => [](TypeInv /\ OneHolds)
<1>1. NotifierAssumption
  BY NotifierAssumption
<1>2. TypeInv /\ OneHolds /\ [Next]_vars => (TypeInv /\ OneHolds)'
  BY <1>1, TypeStep
<1>3. QED
  BY <1>1, <1>2, TypeInit, PTL DEF Spec

\* self._lock: at most one call, strict or legacy, is between its selection and its
\* end, and it is the one that has the lock, however it ends.
THEOREM OneCallAtATime ==
  Spec => [](\A c, d \in Caller : Holding(c) /\ Holding(d) => c = d)
<1>1. OneHolds => \A c, d \in Caller : Holding(c) /\ Holding(d) => c = d
  BY DEF OneHolds
<1>2. QED
  BY <1>1, TypeAlways, PTL

-----------------------------------------------------------------------------
(* The variables of handlers                                               *)

\* The tasks that are queued or running.
Alive == Elements(tasks) \cup ({worker} \ {NoTask})

\* The references that c's calls may still make for their deliveries.
Coming(c) ==
    {r \in Ref :
        /\ r.caller = c
        /\ \/ r.call > calls[c]
           \/ /\ r.call = calls[c]
              /\ \/ pc[c] \in {"wait", "select"}
                 \/ r.name \in left[c]
                 \/ pc[c] = "render" /\ r.name = current[c]
                 \/ pc[c] = "handle" /\ r.name = current[c] /\ r.left <= Len(queue[c])}

\* A task has an object with its own name, which no other handler wrote to and which
\* no later delivery will refer to.
Owns(t) ==
    /\ t.nvars \in DOMAIN objects /\ t.nvars.left # 0
    /\ objects[t.nvars].name = t.name /\ objects[t.nvars].by \subseteq {t.handler}
    /\ \A c \in Caller : t.nvars \notin Coming(c)
TasksOwn == \A t \in Alive : Owns(t)

\* No two tasks have the same one.
OneEach ==
    /\ \A i, j \in 1 .. Len(tasks) : tasks[i].nvars = tasks[j].nvars => i = j
    /\ worker # NoTask => \A i \in 1 .. Len(tasks) : tasks[i].nvars # worker.nvars

\* A call that delivers has an object that no handler wrote to, with the name at hand.
CallOwns(c) ==
    pc[c] \in {"run", "render", "handle", "drain"} =>
        /\ nvars[c] \in DOMAIN objects /\ nvars[c].left = 0
        /\ objects[nvars[c]].by = {}
        /\ pc[c] \in {"render", "handle"} =>
              objects[nvars[c]].name = current[c] /\ current[c] \notin left[c]
CallsOwn == \A c \in Caller : CallOwns(c)

ObjectsInv == ObjectsTyped /\ TasksOwn /\ OneEach /\ CallsOwn

\* What is reachable stays as it was, and typed.
LEMMA ReachableKeeps ==
  ASSUME NEW objs, DOMAIN objs \subseteq Ref, objs \in [DOMAIN objs -> Variables],
         NEW ts, NEW w, NEW refs
  PROVE  LET o == Reachable(objs, ts, w, refs)
         IN  /\ DOMAIN o \subseteq Ref /\ o \in [DOMAIN o -> Variables]
             /\ \A t \in Elements(ts) \cup {w} :
                   t.nvars \in DOMAIN objs => t.nvars \in DOMAIN o /\ o[t.nvars] = objs[t.nvars]
             /\ \A c \in Caller :
                   refs[c] \in DOMAIN objs => refs[c] \in DOMAIN o /\ o[refs[c]] = objs[refs[c]]
BY DEF Reachable

\* No step of a call or of the loader brings a reference back.
LEMMA ComingShrinks ==
  ASSUME NotifierAssumption, TypeInv, NEW d \in Caller,
         calls'[d] = calls[d], left'[d] \subseteq left[d],
         pc'[d] \in {"wait", "select"} => pc[d] \in {"wait", "select"},
         pc'[d] = "render" => current'[d] \in left[d] \/ (pc[d] = "render" /\ current'[d] = current[d]),
         pc'[d] = "handle" => current'[d] = current[d] /\
            (pc[d] = "render" \/ (pc[d] = "handle" /\ Len(queue'[d]) <= Len(queue[d])
                                  /\ Len(queue'[d]) \in Nat /\ Len(queue[d]) \in Nat))
  PROVE  Coming(d)' \subseteq Coming(d)
<1> SUFFICES ASSUME NEW r \in Ref, r \in Coming(d)' PROVE r \in Coming(d)
  BY DEF Coming
<1>1. r.caller = d /\ r.left \in Nat
  BY DEF Coming, Ref
<1>2. CASE r.call > calls[d]
  BY <1>1, <1>2 DEF Coming
<1>3. CASE r.call = calls[d] /\ pc'[d] \in {"wait", "select"}
  BY <1>1, <1>3 DEF Coming
<1>4. CASE r.call = calls[d] /\ r.name \in left'[d]
  BY <1>1, <1>4 DEF Coming
<1>5. CASE r.call = calls[d] /\ pc'[d] = "render" /\ r.name = current'[d]
  BY <1>1, <1>5 DEF Coming
<1>6. CASE r.call = calls[d] /\ pc'[d] = "handle" /\ r.name = current'[d] /\ r.left <= Len(queue'[d])
  <2>1. pc[d] = "handle" => r.left <= Len(queue[d])
    BY <1>1, <1>6
  <2>2. QED
    BY <1>1, <1>6, <2>1 DEF Coming
<1>7. QED
  BY <1>2, <1>3, <1>4, <1>5, <1>6 DEF Coming

\* A step that leaves the objects and the tasks alone.
LEMMA FrameOwns ==
  ASSUME NotifierAssumption, TypeInv, ObjectsInv,
         UNCHANGED <<objects, tasks, worker, nvars>>,
         \A c \in Caller : Coming(c)' \subseteq Coming(c),
         \A c \in Caller :
            pc'[c] \in {"run", "render", "handle", "drain"} =>
                /\ pc[c] \in {"run", "render", "handle", "drain"}
                /\ pc'[c] \in {"render", "handle"} =>
                      /\ pc[c] \in {"render", "handle"} /\ current'[c] = current[c]
                      /\ left'[c] \subseteq left[c]
  PROVE  ObjectsInv'
<1>1. ObjectsTyped' /\ OneEach'
  BY DEF ObjectsInv, ObjectsTyped, OneEach
<1>2. TasksOwn'
  BY DEF ObjectsInv, TasksOwn, Owns, Alive
<1>3. CallsOwn'
  BY DEF ObjectsInv, CallsOwn, CallOwns
<1>4. QED
  BY <1>1, <1>2, <1>3 DEF ObjectsInv

\* A step that forgets what is not referred to, and leaves the tasks alone.
LEMMA ForgetOwns ==
  ASSUME NotifierAssumption, TypeInv, ObjectsInv, NEW objs,
         DOMAIN objs \subseteq Ref, objs \in [DOMAIN objs -> Variables],
         \A r \in DOMAIN objects :
            \/ r \in DOMAIN objs /\ objs[r] = objects[r]
            \/ r.left # 0 /\ \E c \in Caller : r \in Coming(c),
         UNCHANGED <<tasks, worker>>, objects' = Reachable(objs, tasks, worker, nvars'),
         \A c \in Caller : Coming(c)' \subseteq Coming(c),
         \A c \in Caller :
            pc'[c] \in {"run", "render", "handle", "drain"} =>
                /\ pc[c] \in {"run", "render", "handle", "drain"} /\ nvars'[c] = nvars[c]
                /\ pc'[c] \in {"render", "handle"} =>
                      /\ pc[c] \in {"render", "handle"} /\ current'[c] = current[c]
                      /\ left'[c] \subseteq left[c]
  PROVE  ObjectsInv'
<1>1. /\ ObjectsTyped'
      /\ \A t \in Elements(tasks) \cup {worker} :
            t.nvars \in DOMAIN objs => t.nvars \in DOMAIN objects' /\ objects'[t.nvars] = objs[t.nvars]
      /\ \A c \in Caller :
            nvars'[c] \in DOMAIN objs => nvars'[c] \in DOMAIN objects' /\ objects'[nvars'[c]] = objs[nvars'[c]]
  BY ReachableKeeps DEF ObjectsTyped
<1>2. OneEach'
  BY DEF ObjectsInv, OneEach
<1>3. TasksOwn'
  BY <1>1 DEF ObjectsInv, TasksOwn, Owns, Alive
<1>4. CallsOwn'
  BY <1>1 DEF ObjectsInv, CallsOwn, CallOwns
<1>5. QED
  BY <1>1, <1>2, <1>3, <1>4 DEF ObjectsInv

\* The end of a call.
LEMMA EndOwns ==
  ASSUME NotifierAssumption, TypeInv, ObjectsInv, NEW c \in Caller, Holding(c), NEW how,
         End(c, how), UNCHANGED <<tasks, worker>>
  PROVE  ObjectsInv'
<1>1. /\ pc' = [pc EXCEPT ![c] = "idle"] /\ left' = [left EXCEPT ![c] = {}]
      /\ current' = [current EXCEPT ![c] = NoName] /\ queue' = [queue EXCEPT ![c] = <<>>]
      /\ nvars' = [nvars EXCEPT ![c] = NoRef] /\ calls' = calls
      /\ objects' = Reachable(objects, tasks, worker, nvars')
  BY DEF End
<1>2. ASSUME NEW d \in Caller PROVE Coming(d)' \subseteq Coming(d)
  <2>1. CASE d = c
    <3>1. calls'[d] = calls[d] /\ left'[d] = {} /\ pc'[d] = "idle"
      BY <1>1, <2>1 DEF TypeInv, CallsTyped
    <3>2. QED
      BY <3>1, ComingShrinks
  <2>2. CASE d # c
    BY <1>1, <2>2 DEF TypeInv, CallsTyped, Coming
  <2>3. QED
    BY <2>1, <2>2
<1>3. \A d \in Caller : d # c => pc'[d] = pc[d] /\ nvars'[d] = nvars[d] /\ current'[d] = current[d]
  BY <1>1 DEF TypeInv, CallsTyped
<1>4. pc'[c] = "idle"
  BY <1>1 DEF TypeInv, CallsTyped
<1>5. DOMAIN objects \subseteq Ref /\ objects \in [DOMAIN objects -> Variables]
  BY DEF ObjectsInv, ObjectsTyped
<1>6. QED
  BY <1>1, <1>2, <1>3, <1>4, <1>5, ForgetOwns

\* A step of a call that leaves the objects and the tasks alone.
LEMMA QuietOwns ==
  ASSUME NotifierAssumption, TypeInv, ObjectsInv, NEW c \in Caller, NEW s \in BOOLEAN,
         \/ Call(c, s) \/ Acquire(c)
         \/ \E n \in names[c] : \E extra : Selected(c, n, extra) /\ UNCHANGED background
         \/ Render(c) /\ ~End(c, "raised")
         \/ NameDone(c)
         \/ Delivered(c) /\ ~End(c, "sent")
         \/ KillPool(c)
  PROVE  ObjectsInv'
<1> USE DEF background, delivery, memory, selection
<1>1. /\ UNCHANGED <<objects, tasks, worker, nvars>>
      /\ left' = left /\ current' = current
      /\ \A d \in Caller \ {c} : pc'[d] = pc[d] /\ calls'[d] = calls[d] /\ queue'[d] = queue[d]
  <2> USE DEF TypeInv, CallsTyped
  <2>1. CASE Render(c) /\ ~End(c, "raised")
    BY <2>1 DEF Render
  <2>2. CASE Delivered(c) /\ ~End(c, "sent")
    BY <2>2 DEF Delivered
  <2>3. CASE \E n \in names[c] : \E extra : Selected(c, n, extra) /\ UNCHANGED background
    BY <2>3 DEF Selected
  <2>4. QED
    BY <2>1, <2>2, <2>3 DEF Call, Acquire, NameDone, KillPool
<1>2. \/ pc'[c] = "wait" /\ calls'[c] = calls[c] + 1 /\ queue' = queue
      \/ /\ calls' = calls
         /\ \/ pc[c] = "wait" /\ pc'[c] = "select" /\ queue' = queue
            \/ pc'[c] = pc[c] /\ queue' = queue
            \/ pc[c] = "render" /\ pc'[c] = "handle"
            \/ pc[c] = "handle" /\ pc'[c] = "run" /\ queue' = queue
            \/ pc[c] = "run" /\ pc'[c] = "drain" /\ queue' = queue
  <2> USE DEF TypeInv, CallsTyped
  <2>1. CASE Render(c) /\ ~End(c, "raised")
    BY <2>1 DEF Render
  <2>2. CASE Delivered(c) /\ ~End(c, "sent")
    BY <2>2 DEF Delivered
  <2>3. CASE \E n \in names[c] : \E extra : Selected(c, n, extra) /\ UNCHANGED background
    BY <2>3 DEF Selected
  <2>4. QED
    BY <2>1, <2>2, <2>3 DEF Call, Acquire, NameDone, KillPool
<1>3. ASSUME NEW d \in Caller PROVE Coming(d)' \subseteq Coming(d)
  <2>1. CASE d # c
    BY <1>1, <2>1 DEF Coming
  <2>2. CASE d = c /\ calls'[c] = calls[c] + 1 /\ pc'[c] = "wait"
    <3>1. calls[c] \in Nat
      BY DEF TypeInv, CallsTyped, NotifierAssumption
    <3>2. \A r \in Coming(c)' : r \in Ref /\ r.caller = c /\ r.call \in Nat /\ r.call >= calls[c] + 1
      BY <2>2, <3>1, <1>1 DEF Coming, Ref
    <3>3. \A r \in Coming(c)' : r \in Ref /\ r.caller = c /\ r.call > calls[c]
      BY <3>1, <3>2
    <3>4. QED
      BY <2>2, <3>3 DEF Coming
  <2>3. CASE d = c /\ calls' = calls
    <3>1. queue[c] \in Seq(Handler)
      BY DEF TypeInv, CallsTyped
    <3>2. Len(queue[c]) \in Nat
      BY <3>1, LenProperties
    <3>3. /\ left'[c] \subseteq left[c] /\ current'[c] = current[c] /\ calls'[c] = calls[c]
          /\ pc'[c] \in {"wait", "select"} => pc[c] \in {"wait", "select"}
          /\ pc'[c] = "render" => pc[c] = "render"
          /\ pc'[c] = "handle" =>
                pc[c] = "render" \/ (pc[c] = "handle" /\ queue'[c] = queue[c])
      <4>1. left' = left /\ current' = current /\ calls' = calls
        BY <1>1, <2>3
      <4>2. calls[c] # calls[c] + 1
        BY DEF TypeInv, CallsTyped, NotifierAssumption
      <4>3. QED
        BY <1>2, <2>3, <4>1, <4>2
    <3>4. QED
      BY <2>3, <3>2, <3>3, ComingShrinks
  <2>4. QED
    BY <1>2, <2>1, <2>2, <2>3
<1>4. QED
  BY <1>1, <1>2, <1>3, FrameOwns

\* A selection is made: the call gets an object of its own.
LEMMA SelectDoneOwns ==
  ASSUME NotifierAssumption, TypeInv, OneHolds, ObjectsInv, NEW c \in Caller,
         SelectDone(c), ~End(c, "raised")
  PROVE  ObjectsInv'
<1> DEFINE ref == [caller |-> c, call |-> calls[c], name |-> NoName, left |-> 0]
<1>1. /\ pc[c] = "select" /\ pc' = [pc EXCEPT ![c] = "run"]
      /\ nvars' = [nvars EXCEPT ![c] = ref]
      /\ objects' = Assigned(nvars'[c], [name |-> NoName, by |-> {}])
      /\ left' = [left EXCEPT ![c] = chosen[c]]
      /\ UNCHANGED <<tasks, worker, calls, current, queue>>
  BY DEF SelectDone
<1>2. calls[c] \in 0 .. MaxCalls /\ calls[c] \in Nat /\ MaxCalls \in Nat
  BY DEF TypeInv, CallsTyped, NotifierAssumption
<1>3. ref \in Ref /\ ref.left = 0
  BY <1>2 DEF Ref
<1>4. nvars'[c] = ref /\ pc'[c] = "run"
  BY <1>1 DEF TypeInv, CallsTyped
<1>5. /\ DOMAIN objects' = DOMAIN objects \cup {ref}
      /\ objects'[ref] = [name |-> NoName, by |-> {}]
      /\ \A r \in DOMAIN objects \ {ref} : objects'[r] = objects[r]
  BY <1>1, <1>4 DEF Assigned
<1>6. ObjectsTyped'
  <2>1. [name |-> NoName, by |-> {}] \in Variables
    BY DEF Variables
  <2>2. objects' = [r \in DOMAIN objects' |-> objects'[r]]
    BY <1>1 DEF Assigned
  <2>3. QED
    BY <1>3, <1>5, <2>1, <2>2 DEF ObjectsInv, ObjectsTyped
<1>7. ASSUME NEW d \in Caller PROVE Coming(d)' \subseteq Coming(d)
  <2>1. CASE d # c
    BY <1>1, <2>1 DEF Coming, TypeInv, CallsTyped
  <2>2. CASE d = c
    <3>1. \A r \in Coming(c)' : r \in Ref /\ r.caller = c /\ (r.call > calls[c] \/ r.call = calls[c])
      BY <1>1 DEF Coming
    <3>2. QED
      BY <1>1, <2>2, <3>1 DEF Coming
  <2>3. QED
    BY <2>1, <2>2
<1>8. TasksOwn'
  <2>1. ASSUME NEW t \in Alive PROVE Owns(t)'
    <3>1. Owns(t)
      BY DEF ObjectsInv, TasksOwn
    <3>2. t.nvars # ref
      BY <1>3, <3>1 DEF Owns
    <3>3. t.nvars \in DOMAIN objects' /\ objects'[t.nvars] = objects[t.nvars]
      BY <1>5, <3>1, <3>2 DEF Owns
    <3>4. QED
      BY <1>7, <3>1, <3>3 DEF Owns
  <2>2. Alive' = Alive
    BY <1>1 DEF Alive
  <2>3. QED
    BY <2>1, <2>2 DEF TasksOwn
<1>9. OneEach'
  BY <1>1 DEF ObjectsInv, OneEach
<1>10. CallsOwn'
  <2>1. ASSUME NEW d \in Caller, d # c PROVE CallOwns(d)'
    <3>1. pc'[d] = pc[d] /\ ~Holding(d)
      BY <1>1, <2>1 DEF TypeInv, CallsTyped, OneHolds, Holding
    <3>2. QED
      BY <3>1 DEF CallOwns, Holding
  <2>2. CallOwns(c)'
    BY <1>3, <1>4, <1>5 DEF CallOwns
  <2>3. QED
    BY <2>1, <2>2 DEF CallsOwn
<1>11. QED
  BY <1>6, <1>8, <1>9, <1>10 DEF ObjectsInv

\* The call takes a name: its object gets it.
LEMMA TakeNameOwns ==
  ASSUME NotifierAssumption, TypeInv, OneHolds, ObjectsInv, NEW c \in Caller, NEW n \in left[c],
         TakeName(c, n), ~End(c, "raised")
  PROVE  ObjectsInv'
<1>1. /\ pc[c] = "run" /\ pc' = [pc EXCEPT ![c] = "render"]
      /\ current' = [current EXCEPT ![c] = n] /\ left' = [left EXCEPT ![c] = @ \ {n}]
      /\ objects' = [objects EXCEPT ![nvars[c]].name = n]
      /\ UNCHANGED <<nvars, calls, queue, tasks, worker>>
  BY DEF TakeName, selection, background
<1>2. /\ nvars[c] \in DOMAIN objects /\ nvars[c].left = 0 /\ objects[nvars[c]].by = {}
      /\ objects[nvars[c]] \in Variables /\ n \in Name
  BY <1>1 DEF ObjectsInv, CallsOwn, CallOwns, ObjectsTyped, TypeInv, CallsTyped
<1>3. /\ DOMAIN objects' = DOMAIN objects
      /\ objects'[nvars[c]] = [name |-> n, by |-> {}]
      /\ \A r \in DOMAIN objects \ {nvars[c]} : objects'[r] = objects[r]
  BY <1>1, <1>2 DEF Variables
<1>4. ObjectsTyped'
  <2>1. [name |-> n, by |-> {}] \in Variables
    BY <1>2 DEF Variables
  <2>2. objects' = [r \in DOMAIN objects |-> objects'[r]]
    BY <1>1
  <2>3. QED
    BY <1>3, <2>1, <2>2 DEF ObjectsInv, ObjectsTyped
<1>5. ASSUME NEW d \in Caller PROVE Coming(d)' \subseteq Coming(d)
  <2>1. CASE d # c
    BY <1>1, <2>1 DEF Coming, TypeInv, CallsTyped
  <2>2. CASE d = c
    <3>1. /\ calls'[c] = calls[c] /\ left'[c] \subseteq left[c] /\ pc'[c] = "render"
          /\ current'[c] \in left[c]
      BY <1>1 DEF TypeInv, CallsTyped
    <3>2. QED
      BY <2>2, <3>1, ComingShrinks
  <2>3. QED
    BY <2>1, <2>2
<1>6. TasksOwn'
  <2>1. ASSUME NEW t \in Alive PROVE Owns(t)'
    <3>1. Owns(t)
      BY DEF ObjectsInv, TasksOwn
    <3>2. t.nvars # nvars[c]
      BY <1>2, <3>1 DEF Owns
    <3>3. QED
      BY <1>3, <1>5, <3>1, <3>2 DEF Owns
  <2>2. Alive' = Alive
    BY <1>1 DEF Alive
  <2>3. QED
    BY <2>1, <2>2 DEF TasksOwn
<1>7. OneEach'
  BY <1>1 DEF ObjectsInv, OneEach
<1>8. CallsOwn'
  <2>1. ASSUME NEW d \in Caller, d # c PROVE CallOwns(d)'
    <3>1. pc'[d] = pc[d] /\ ~Holding(d)
      BY <1>1, <2>1 DEF TypeInv, CallsTyped, OneHolds, Holding
    <3>2. QED
      BY <3>1 DEF CallOwns, Holding
  <2>2. CallOwns(c)'
    <3>1. pc'[c] = "render" /\ current'[c] = n /\ left'[c] = left[c] \ {n}
      BY <1>1 DEF TypeInv, CallsTyped
    <3>2. QED
      BY <1>1, <1>2, <1>3, <3>1 DEF CallOwns
  <2>3. QED
    BY <2>1, <2>2 DEF CallsOwn
<1>9. QED
  BY <1>4, <1>6, <1>7, <1>8 DEF ObjectsInv

\* A copy of the call's variables is an object of its own, typed, with the name at hand.
LEMMA CopyIsNew ==
  ASSUME NotifierAssumption, TypeInv, ObjectsInv, NEW c \in Caller,
         pc[c] = "handle", queue[c] # <<>>
  PROVE  LET ref == Copied(c).ref
             objs == Copied(c).objects
         IN  /\ ref \in Coming(c) /\ ref.left # 0 /\ ref.caller = c
             /\ DOMAIN objs = DOMAIN objects \cup {ref}
             /\ DOMAIN objs \subseteq Ref /\ objs \in [DOMAIN objs -> Variables]
             /\ objs[ref] = [name |-> current[c], by |-> {}]
             /\ \A r \in DOMAIN objects \ {ref} : objs[r] = objects[r]
<1> DEFINE ref == [caller |-> c, call |-> calls[c], name |-> current[c], left |-> Len(queue[c])]
<1> DEFINE objs == Assigned(ref, objects[nvars[c]])
<1>1. Copied(c).ref = ref /\ Copied(c).objects = objs
  BY DEF Copied
<1>2. /\ Len(queue[c]) \in Nat \ {0} /\ calls[c] \in 0 .. MaxCalls /\ calls[c] \in Nat
      /\ current[c] \in Name
  <2>1. queue[c] \in Seq(Handler)
    BY DEF TypeInv, CallsTyped
  <2>2. QED
    BY <2>1, EmptySeq, LenProperties DEF TypeInv, CallsTyped, Placed, NotifierAssumption
<1>3. ref \in Ref
  BY <1>2 DEF Ref
<1>4. ref \in Coming(c) /\ ref.left # 0 /\ ref.caller = c
  BY <1>2, <1>3 DEF Coming
<1>5. /\ nvars[c] \in DOMAIN objects /\ objects[nvars[c]].by = {}
      /\ objects[nvars[c]].name = current[c] /\ objects[nvars[c]] \in Variables
  BY DEF ObjectsInv, CallsOwn, CallOwns, ObjectsTyped
<1>6. objects[nvars[c]] = [name |-> current[c], by |-> {}]
  BY <1>5 DEF Variables
<1>7. /\ DOMAIN objs = DOMAIN objects \cup {ref} /\ objs[ref] = objects[nvars[c]]
      /\ \A r \in DOMAIN objects \ {ref} : objs[r] = objects[r]
  BY DEF Assigned
<1>8. DOMAIN objs \subseteq Ref /\ objs \in [DOMAIN objs -> Variables]
  BY <1>3, <1>5, <1>7 DEF Assigned, ObjectsInv, ObjectsTyped
<1>9. QED
  BY <1>1, <1>4, <1>6, <1>7, <1>8

\* What happens to the rest of a call that has done with a handler.
LEMMA HandlerDoneComing ==
  ASSUME NotifierAssumption, TypeInv, ObjectsInv, NEW c \in Caller,
         pc[c] = "handle", queue[c] # <<>>, HandlerDone(c)
  PROVE  /\ \A d \in Caller : Coming(d)' \subseteq Coming(d)
         /\ Copied(c).ref \notin Coming(c)'
<1>1. /\ queue' = [queue EXCEPT ![c] = Tail(@)]
      /\ UNCHANGED <<pc, left, current, calls>>
  BY DEF HandlerDone, selection
<1>2. /\ queue[c] \in Seq(Handler) /\ queue'[c] = Tail(queue[c])
      /\ Len(queue[c]) \in Nat \ {0} /\ Len(Tail(queue[c])) = Len(queue[c]) - 1
  BY <1>1, EmptySeq, LenProperties DEF TypeInv, CallsTyped
<1>3. ASSUME NEW d \in Caller PROVE Coming(d)' \subseteq Coming(d)
  <2>1. CASE d # c
    BY <1>1, <2>1 DEF Coming, TypeInv, CallsTyped
  <2>2. CASE d = c
    BY <1>1, <1>2, <2>2, ComingShrinks
  <2>3. QED
    BY <2>1, <2>2
<1>4. Copied(c).ref \notin Coming(c)'
  <2>1. current[c] \notin left[c]
    BY DEF ObjectsInv, CallsOwn, CallOwns
  <2>2. calls[c] \in Nat /\ ~(calls[c] > calls[c])
    BY DEF TypeInv, CallsTyped, NotifierAssumption
  <2>3. ~(Len(queue[c]) <= Len(queue'[c]))
    BY <1>2
  <2>4. QED
    BY <1>1, <2>1, <2>2, <2>3 DEF Copied, Coming
<1>5. QED
  BY <1>3, <1>4

\* A handler that is called at once writes to a copy that nothing refers to afterwards.
LEMMA CalledNowOwns ==
  ASSUME NotifierAssumption, TypeInv, ObjectsInv, NEW c \in Caller, NEW h \in Handler,
         pc[c] = "handle", queue[c] # <<>>, CalledNow(c, h), UNCHANGED <<tasks, worker>>
  PROVE  ObjectsInv'
<1> DEFINE ref == Copied(c).ref
<1>1. PICK objs \in Written(Copied(c).objects, ref, h) : objects' = Reachable(objs, tasks, worker, nvars)
  BY DEF CalledNow
<1>2. /\ ref \in Coming(c) /\ ref.left # 0
      /\ DOMAIN Copied(c).objects = DOMAIN objects \cup {ref}
      /\ DOMAIN Copied(c).objects \subseteq Ref
      /\ Copied(c).objects \in [DOMAIN Copied(c).objects -> Variables]
      /\ \A r \in DOMAIN objects \ {ref} : Copied(c).objects[r] = objects[r]
  BY CopyIsNew
<1>3. /\ DOMAIN objs = DOMAIN Copied(c).objects /\ objs \in [DOMAIN objs -> Variables]
      /\ \A r \in DOMAIN objects \ {ref} : objs[r] = objects[r]
  <2> DEFINE o == Copied(c).objects
  <2> HIDE DEF ref, o
  <2>1. o[ref] \in Variables /\ ref \in DOMAIN o
    BY <1>2 DEF o
  <2>2. [o[ref] EXCEPT !.by = @ \cup {h}] \in Variables
    BY <2>1 DEF Variables
  <2>3. objs = o \/ objs = [o EXCEPT ![ref] = [o[ref] EXCEPT !.by = @ \cup {h}]]
    BY <1>1 DEF Written, o
  <2>4. QED
    BY <1>2, <2>1, <2>2, <2>3 DEF o
<1>4. /\ \A d \in Caller : Coming(d)' \subseteq Coming(d)
      /\ UNCHANGED <<pc, left, current, nvars>>
  BY HandlerDoneComing DEF CalledNow, HandlerDone, selection
<1>5. \A r \in DOMAIN objects : \/ r \in DOMAIN objs /\ objs[r] = objects[r]
                                \/ r.left # 0 /\ \E d \in Caller : r \in Coming(d)
  BY <1>2, <1>3
<1> HIDE DEF ref
<1>6. QED
  BY <1>1, <1>2, <1>3, <1>4, <1>5, ForgetOwns

\* A handler that is queued gets an object that no other task has.
LEMMA QueuedOwns ==
  ASSUME NotifierAssumption, TypeInv, ObjectsInv, NEW c \in Caller, NEW h \in Handler,
         pc[c] = "handle", queue[c] # <<>>, HandlerDone(c), objects' = Copied(c).objects,
         tasks' = Append(tasks, [name |-> current[c], handler |-> h, nvars |-> Copied(c).ref]),
         worker' = worker
  PROVE  ObjectsInv'
<1>a. PICK ref : ref = Copied(c).ref
  OBVIOUS
<1>b. PICK new : new = [name |-> current[c], handler |-> h, nvars |-> ref]
  OBVIOUS
<1>1. /\ ref \in Coming(c) /\ ref.left # 0 /\ ref.caller = c
      /\ DOMAIN objects' = DOMAIN objects \cup {ref}
      /\ DOMAIN objects' \subseteq Ref /\ objects' \in [DOMAIN objects' -> Variables]
      /\ objects'[ref] = [name |-> current[c], by |-> {}]
      /\ \A r \in DOMAIN objects \ {ref} : objects'[r] = objects[r]
  BY <1>a, CopyIsNew
<1>2. /\ \A d \in Caller : Coming(d)' \subseteq Coming(d)
      /\ ref \notin Coming(c)'
      /\ UNCHANGED <<pc, left, current, nvars>>
  BY <1>a, HandlerDoneComing DEF HandlerDone, selection
<1>3. \A d \in Caller : ref \notin Coming(d)'
  BY <1>1, <1>2 DEF Coming
<1>4. /\ Len(tasks) \in Nat /\ Len(tasks') = Len(tasks) + 1
      /\ DOMAIN tasks' = 1 .. Len(tasks) + 1 /\ DOMAIN tasks = 1 .. Len(tasks)
      /\ tasks'[Len(tasks) + 1] = new
      /\ \A i \in 1 .. Len(tasks) : tasks'[i] = tasks[i]
  BY <1>a, <1>b, LenProperties DEF TypeInv, CallsTyped
<1>5. \A t \in Alive : Owns(t) /\ t.nvars # ref
  BY <1>1 DEF ObjectsInv, TasksOwn, Owns
<1>6. ASSUME NEW t \in Alive PROVE Owns(t)'
  <2>1. /\ t.nvars \in DOMAIN objects /\ t.nvars # ref /\ t.nvars.left # 0
        /\ objects[t.nvars].name = t.name /\ objects[t.nvars].by \subseteq {t.handler}
        /\ \A d \in Caller : t.nvars \notin Coming(d)
    BY <1>5 DEF Owns
  <2>2. t.nvars \in DOMAIN objects' /\ objects'[t.nvars] = objects[t.nvars]
    BY <1>1, <2>1
  <2>3. QED
    BY <1>2, <2>1, <2>2 DEF Owns
<1>7. Owns(new)'
  <2>1. new.nvars = ref /\ new.name = current[c] /\ new.handler = h
    BY <1>b
  <2>2. QED
    BY <1>1, <1>3, <2>1 DEF Owns
<1>8. TasksOwn'
  <2>1. Elements(tasks') = Elements(tasks) \cup {new}
    BY <1>4 DEF Elements
  <2>2. Alive' = Alive \cup {new}
    BY <2>1 DEF Alive, Elements
  <2>3. QED
    BY <1>6, <1>7, <2>2 DEF TasksOwn
<1>9. OneEach'
  <2>1. \A i \in 1 .. Len(tasks) : tasks[i] \in Alive
    BY <1>4 DEF Alive, Elements
  <2>2. \A i \in 1 .. Len(tasks) : tasks[i].nvars # ref
    BY <1>5, <2>1
  <2>3. worker # NoTask => worker.nvars # ref
    BY <1>5 DEF Alive
  <2>4. new.nvars = ref
    BY <1>b
  <2>5. \A i \in 1 .. Len(tasks) + 1 : i \in 1 .. Len(tasks) \/ i = Len(tasks) + 1
    BY <1>4
  <2>6. ASSUME NEW i \in 1 .. Len(tasks) + 1, NEW j \in 1 .. Len(tasks) + 1,
               tasks'[i].nvars = tasks'[j].nvars PROVE i = j
    BY <1>4, <2>2, <2>4, <2>5, <2>6 DEF ObjectsInv, OneEach
  <2>7. worker # NoTask => \A i \in 1 .. Len(tasks) + 1 : tasks'[i].nvars # worker.nvars
    BY <1>4, <2>3, <2>4, <2>5 DEF ObjectsInv, OneEach
  <2>8. QED
    BY <1>4, <2>6, <2>7 DEF OneEach
<1>10. CallsOwn'
  <2>1. ASSUME NEW d \in Caller PROVE CallOwns(d)'
    <3>1. CASE pc[d] \in {"run", "render", "handle", "drain"}
      <4>1. nvars[d] \in DOMAIN objects /\ nvars[d] # ref
        BY <1>1, <3>1 DEF ObjectsInv, CallsOwn, CallOwns
      <4>2. nvars[d] \in DOMAIN objects' /\ objects'[nvars[d]] = objects[nvars[d]]
        BY <1>1, <4>1
      <4>3. QED
        BY <1>2, <4>2 DEF ObjectsInv, CallsOwn, CallOwns
    <3>2. CASE pc[d] \notin {"run", "render", "handle", "drain"}
      BY <1>2, <3>2 DEF CallOwns
    <3>3. QED
      BY <3>1, <3>2
  <2>2. QED
    BY <2>1 DEF CallsOwn
<1>11. ObjectsTyped'
  BY <1>1 DEF ObjectsTyped
<1>12. QED
  BY <1>8, <1>9, <1>10, <1>11 DEF ObjectsInv

\* A delivery, whatever becomes of it.
LEMMA DeliverOwns ==
  ASSUME NotifierAssumption, TypeInv, ObjectsInv, NEW c \in Caller, Deliver(c)
  PROVE  ObjectsInv'
<1> DEFINE h == Head(queue[c])
<1>1. pc[c] = "handle" /\ queue[c] # <<>> /\ Holding(c) /\ worker' = worker
  BY DEF Deliver, Holding
<1>2. h \in Handler
  BY <1>1, QueueSplits DEF TypeInv, CallsTyped
<1>3. \/ CalledNow(c, h) /\ tasks' = tasks
      \/ \E how \in {"raised", "rejected"} : End(c, how) /\ tasks' = tasks
      \/ /\ HandlerDone(c) /\ objects' = Copied(c).objects
         /\ tasks' = Append(tasks, [name |-> current[c], handler |-> h, nvars |-> Copied(c).ref])
  BY DEF Deliver, SendTo
<1> HIDE DEF h
<1>4. QED
  BY <1>1, <1>2, <1>3, CalledNowOwns, QueuedOwns, EndOwns

-----------------------------------------------------------------------------
\* The worker takes a task, writes to its variables, and is done with it.
LEMMA WorkerOwns ==
  ASSUME NotifierAssumption, TypeInv, ObjectsInv, WorkerStep
  PROVE  ObjectsInv'
<1>1. UNCHANGED <<pc, left, current, queue, calls, nvars>>
  BY WorkerAlone DEF selection, delivery
<1>2. \A d \in Caller : Coming(d)' = Coming(d)
  BY <1>1 DEF Coming
<1>3. tasks \in Seq(Task) /\ DOMAIN tasks = 1 .. Len(tasks) /\ Len(tasks) \in Nat
  BY LenProperties DEF TypeInv, CallsTyped
<1>4. NoTask \notin Task
  BY DEF Task, NoTask, NotifierAssumption
<1>5. CASE StartTask
  <2>1. /\ worker = NoTask /\ tasks # <<>> /\ worker' = Head(tasks) /\ tasks' = Tail(tasks)
        /\ objects' = objects
    BY <1>5 DEF StartTask, memory
  <2>2. Elements(tasks) = {Head(tasks)} \cup Elements(Tail(tasks))
    BY <1>3, <2>1, QueueSplits
  <2>3. Len(tasks) \in Nat \ {0} /\ Head(tasks) = tasks[1] /\ Len(Tail(tasks)) = Len(tasks) - 1
        /\ \A i \in 1 .. Len(tasks) - 1 : Tail(tasks)[i] = tasks[i + 1]
    BY <1>3, <2>1, EmptySeq
  <2>4. Alive' \subseteq Alive
    BY <2>1, <2>2 DEF Alive, Elements
  <2>5. TasksOwn'
    BY <1>2, <2>1, <2>4 DEF ObjectsInv, TasksOwn, Owns
  <2>6. \A i, j \in 1 .. Len(tasks) : tasks[i].nvars = tasks[j].nvars => i = j
    BY DEF ObjectsInv, OneEach
  <2>7. ASSUME NEW i \in 1 .. Len(tasks) - 1, NEW j \in 1 .. Len(tasks) - 1,
               Tail(tasks)[i].nvars = Tail(tasks)[j].nvars PROVE i = j
    <3>1. i + 1 \in 1 .. Len(tasks) /\ j + 1 \in 1 .. Len(tasks)
      BY <2>3
    <3>2. i + 1 = j + 1
      BY <2>3, <2>6, <2>7, <3>1
    <3>3. QED
      BY <3>2
  <2>8. ASSUME NEW i \in 1 .. Len(tasks) - 1 PROVE Tail(tasks)[i].nvars # tasks[1].nvars
    <3>1. i + 1 \in 1 .. Len(tasks) /\ 1 \in 1 .. Len(tasks) /\ i + 1 # 1
      BY <2>3
    <3>2. QED
      BY <2>3, <2>6, <3>1
  <2>9. OneEach'
    BY <2>1, <2>3, <2>7, <2>8 DEF OneEach
  <2>10. ObjectsTyped' /\ CallsOwn'
    BY <1>1, <2>1 DEF ObjectsInv, ObjectsTyped, CallsOwn, CallOwns
  <2>11. QED
    BY <2>5, <2>9, <2>10 DEF ObjectsInv
<1>6. CASE WriteVariables
  <2>1. /\ worker # NoTask /\ UNCHANGED <<tasks, worker>>
        /\ objects' \in Written(objects, worker.nvars, worker.handler)
    BY <1>6 DEF WriteVariables, background
  <2>2. CASE objects' = objects
    BY <1>1, <1>2, <2>1, <2>2 DEF ObjectsInv, ObjectsTyped, TasksOwn, Alive, Owns, OneEach,
                                  CallsOwn, CallOwns
  <2>3. CASE objects' = [objects EXCEPT ![worker.nvars].by = @ \cup {worker.handler}]
    <3>1. worker \in Alive /\ Owns(worker) /\ worker \in Task
      BY <2>1 DEF Alive, ObjectsInv, TasksOwn, TypeInv, CallsTyped
    <3>2. /\ worker.nvars \in DOMAIN objects /\ worker.nvars.left # 0 /\ worker.handler \in Handler
          /\ objects[worker.nvars] \in Variables
      BY <3>1 DEF Owns, Task, ObjectsInv, ObjectsTyped
    <3>3. /\ DOMAIN objects' = DOMAIN objects
          /\ objects'[worker.nvars] = [objects[worker.nvars] EXCEPT !.by = @ \cup {worker.handler}]
          /\ \A r \in DOMAIN objects \ {worker.nvars} : objects'[r] = objects[r]
      BY <2>3, <3>2
    <3>4. /\ objects'[worker.nvars] \in Variables
          /\ objects'[worker.nvars].name = objects[worker.nvars].name
          /\ objects'[worker.nvars].by = objects[worker.nvars].by \cup {worker.handler}
      BY <3>2, <3>3 DEF Variables
    <3>5. ObjectsTyped'
      <4>1. objects' = [r \in DOMAIN objects |-> objects'[r]]
        BY <2>3
      <4>2. QED
        BY <3>3, <3>4, <4>1 DEF ObjectsInv, ObjectsTyped
    <3>6. Owns(worker)'
      BY <1>2, <2>1, <3>1, <3>3, <3>4 DEF Owns
    <3>7. ASSUME NEW t \in Elements(tasks) PROVE Owns(t)'
      <4>1. t.nvars # worker.nvars
        BY <1>3, <2>1 DEF Elements, ObjectsInv, OneEach
      <4>2. Owns(t)
        BY DEF Alive, ObjectsInv, TasksOwn
      <4>3. QED
        BY <1>2, <3>3, <4>1, <4>2 DEF Owns
    <3>8. TasksOwn'
      BY <2>1, <3>6, <3>7 DEF TasksOwn, Alive, Elements
    <3>9. OneEach'
      BY <2>1 DEF ObjectsInv, OneEach
    <3>10. ASSUME NEW d \in Caller PROVE CallOwns(d)'
      BY <1>1, <3>2, <3>3 DEF ObjectsInv, CallsOwn, CallOwns
    <3>11. QED
      BY <3>5, <3>8, <3>9, <3>10 DEF ObjectsInv, CallsOwn
  <2>4. QED
    BY <2>1, <2>2, <2>3 DEF Written
<1>7. CASE TaskDone
  <2>1. /\ worker # NoTask /\ worker' = NoTask /\ tasks' = tasks
        /\ objects' = Reachable(objects, tasks, NoTask, nvars)
    BY <1>7 DEF TaskDone
  <2>2. /\ ObjectsTyped'
        /\ \A t \in Elements(tasks) :
              t.nvars \in DOMAIN objects => t.nvars \in DOMAIN objects' /\ objects'[t.nvars] = objects[t.nvars]
        /\ \A c \in Caller :
              nvars[c] \in DOMAIN objects => nvars[c] \in DOMAIN objects' /\ objects'[nvars[c]] = objects[nvars[c]]
    BY <2>1, ReachableKeeps DEF ObjectsInv, ObjectsTyped
  <2>3. Alive' = Elements(tasks)
    BY <2>1 DEF Alive, Elements
  <2>4. TasksOwn'
    BY <1>2, <2>2, <2>3 DEF ObjectsInv, TasksOwn, Owns, Alive
  <2>5. OneEach' /\ CallsOwn'
    BY <1>1, <2>1, <2>2 DEF ObjectsInv, OneEach, CallsOwn, CallOwns
  <2>6. QED
    BY <2>2, <2>4, <2>5 DEF ObjectsInv
<1>8. QED
  BY <1>5, <1>6, <1>7 DEF WorkerStep

\* What a call does, from the lock to the end.
LEMMA CallOwnsStep ==
  ASSUME NotifierAssumption, TypeInv, OneHolds, ObjectsInv, NEW c \in Caller, NEW s \in BOOLEAN,
         Acquire(c) \/ CallStep(c) \/ Call(c, s)
  PROVE  ObjectsInv'
<1> USE DEF background
<1>1. ASSUME NEW n \in names[c], SelectName(c, n) PROVE ObjectsInv'
  <2>1. Holding(c) /\ UNCHANGED background
    BY <1>1 DEF SelectName, Holding
  <2>2. (\E how \in {"raised", "rejected"} : End(c, how)) \/ \E extra \in {{}, {n}} : Selected(c, n, extra)
    BY <1>1 DEF SelectName, SelectEntry
  <2>3. QED
    BY <2>1, <2>2, EndOwns, QuietOwns
<1>2. CASE SelectFails(c) \/ Drained(c)
  BY <1>2, EndOwns DEF SelectFails, Drained, Holding
<1>3. CASE SelectDone(c)
  <2>1. Holding(c) /\ UNCHANGED <<tasks, worker>>
    BY <1>3 DEF SelectDone, Holding
  <2>2. QED
    BY <1>3, <2>1, EndOwns, SelectDoneOwns
<1>4. ASSUME NEW n \in left[c], TakeName(c, n) PROVE ObjectsInv'
  <2>1. Holding(c) /\ UNCHANGED <<tasks, worker>>
    BY <1>4 DEF TakeName, Holding
  <2>2. QED
    BY <1>4, <2>1, EndOwns, TakeNameOwns
<1>5. CASE Render(c) \/ Delivered(c)
  <2>1. Holding(c) /\ UNCHANGED <<tasks, worker>>
    BY <1>5 DEF Render, Delivered, Holding
  <2>2. QED
    BY <1>5, <2>1, EndOwns, QuietOwns
<1>6. QED
  BY <1>1, <1>2, <1>3, <1>4, <1>5, DeliverOwns, QuietOwns DEF CallStep

\* Every step keeps every task its own variables.
LEMMA ObjectsStep ==
  ASSUME NotifierAssumption, TypeInv, OneHolds, ObjectsInv, [Next]_vars
  PROVE  ObjectsInv'
<1>1. ASSUME UNCHANGED <<pc, calls, delivery, memory, tasks, worker>> PROVE ObjectsInv'
  BY <1>1 DEF delivery, memory, ObjectsInv, ObjectsTyped, TasksOwn, Alive, Owns, Coming, OneEach,
              CallsOwn, CallOwns
<1>2. CASE LoaderStep
  BY <1>1, <1>2, LoaderEffect DEF TypeInv, background
<1>3. CASE UNCHANGED vars
  BY <1>1, <1>3 DEF vars, selection, background
<1>4. QED
  BY <1>2, <1>3, WorkerOwns, CallOwnsStep DEF Next, WorkerStep

\* So it is in every state.
LEMMA ObjectsAlways == Spec => []ObjectsInv
<1>1. NotifierAssumption
  BY NotifierAssumption
<1>2. Init => ObjectsInv
  <2>1. SUFFICES ASSUME Init PROVE ObjectsInv
    OBVIOUS
  <2>2. Len(tasks) = 0 /\ Elements(tasks) = {} /\ Alive = {}
    BY <2>1 DEF Init, Alive, Elements
  <2>3. QED
    BY <2>1, <2>2 DEF Init, ObjectsInv, ObjectsTyped, TasksOwn, OneEach, CallsOwn, CallOwns
<1>3. TypeInv /\ OneHolds /\ ObjectsInv /\ [Next]_vars => ObjectsInv'
  BY <1>1, ObjectsStep
<1>4. QED
  BY <1>2, <1>3, TypeAlways, PTL DEF Spec

\* The state of calls, configurations, the pool and the variables of notifiers.py is typed.
THEOREM NotifierTypes == Spec => []TypeOK
<1>1. TypeInv /\ ObjectsInv => TypeOK
  BY DEF TypeInv, ObjectsInv, TypeOK
<1>2. QED
  BY <1>1, TypeAlways, ObjectsAlways, PTL

\* notifiers.py:245-247: whatever handlers write to the variables that they are given,
\* and however far the call has gone on meanwhile, a handler that is queued or runs has
\* those of its own name and no write of another one, and the call's own have none.
THEOREM HandlersSeeOwnVariables == Spec => []OwnVariables
<1>1. ObjectsInv => OwnVariables
  BY DEF ObjectsInv, TasksOwn, Alive, Owns, CallsOwn, CallOwns, OwnVariables
<1>2. QED
  BY <1>1, ObjectsAlways, PTL

-----------------------------------------------------------------------------
(* Strict sends                                                            *)

\* What _select checks of a name, and what the results of send say of it.
HandlersOf(n) == Elements(entries[notifications[n]].handlers)
Deliverable(n) ==
    /\ notifications[n] # NoEntry
    /\ HandlersOf(n) # {} /\ HandlersOf(n) \cap LegacyOnly = {}
Acknowledged(c, n) == \A h \in HandlersOf(n) : <<n, h>> \in acked[c]

Told(c) ==
    /\ outcome[c] = "sent" =>
          chosen[c] # {} /\ \A n \in chosen[c] : HandlersOf(n) # {} /\ Acknowledged(c, n)
    /\ outcome[c] = "rejected" => acked[c] = {}

\* Nothing is sent before all that is selected was checked.
Selecting(c) ==
    pc[c] = "select" =>
        acked[c] = {} /\ (strict[c] => \A n \in chosen[c] : Deliverable(n))

\* What was selected stays deliverable; what is neither left nor at hand was
\* acknowledged by all of its handlers.
Delivering(c) ==
    pc[c] \in {"run", "render", "handle"} /\ strict[c] =>
        /\ chosen[c] # {} /\ left[c] \subseteq chosen[c]
        /\ \A n \in chosen[c] : Deliverable(n)
        /\ \A n \in chosen[c] \ left[c] :
              Acknowledged(c, n) \/ (pc[c] # "run" /\ n = current[c])

\* Of the name at hand, a handler has acknowledged or is in the queue.
Handling(c) ==
    pc[c] \in {"render", "handle"} /\ strict[c] =>
        /\ current[c] \in chosen[c] /\ entry[c] = notifications[current[c]]
        /\ pc[c] = "handle" =>
              /\ Elements(queue[c]) \subseteq HandlersOf(current[c])
              /\ \A h \in HandlersOf(current[c]) :
                    <<current[c], h>> \in acked[c] \/ h \in Elements(queue[c])

\* All this as long as neither load nor reset has run since the lock was taken.
SendInv(c) ==
    ~disturbed[c] =>
        /\ Holding(c) => outcome[c] = "none"
        /\ Told(c) /\ Selecting(c) /\ Delivering(c) /\ Handling(c)
SendsInv == \A c \in Caller : SendInv(c)

\* It concerns the caller's own state and the configuration only.
LEMMA SendFrame ==
  ASSUME NEW c \in Caller, SendInv(c), Mine(c)' = Mine(c),
         UNCHANGED <<notifications, entries>>
  PROVE  SendInv(c)'
  BY DEF Mine, SendInv, Told, Selecting, Delivering, Handling, Holding,
         Acknowledged, Deliverable, HandlersOf

\* The end of a call, when what it claims is so.
LEMMA SendEnds ==
  ASSUME CallsTyped, NEW c \in Caller, Holding(c), NEW how, End(c, how), Alone,
         ~disturbed[c] =>
            /\ how = "sent" => /\ chosen[c] # {}
                               /\ \A n \in chosen[c] : HandlersOf(n) # {} /\ Acknowledged(c, n)
            /\ how = "rejected" => acked[c] = {}
  PROVE  SendInv(c)'
<1>1. /\ pc'[c] = "idle" /\ outcome'[c] = how /\ disturbed'[c] = disturbed[c]
      /\ (how = "sent" => chosen'[c] = chosen[c])
      /\ (how # "raised" => acked'[c] = acked[c])
      /\ UNCHANGED <<notifications, entries>>
  BY EndAlone DEF Alone, config
<1>2. Told(c)' \/ disturbed'[c]
  BY <1>1 DEF Told, Acknowledged, HandlersOf
<1>3. QED
  BY <1>1, <1>2 DEF SendInv, Selecting, Delivering, Handling, Holding

\* Selecting a name.
LEMMA SelectSends ==
  ASSUME NotifierAssumption, TypeInv, NEW c \in Caller, SendInv(c),
         NEW n \in names[c], SelectName(c, n)
  PROVE  SendInv(c)'
<1>1. /\ pc[c] = "select" /\ Holding(c) /\ Alone /\ n \in Name
      /\ UNCHANGED <<notifications, entries, disturbed>>
  BY DEF SelectName, Holding, Alone, config, TypeInv, CallsTyped
<1> DEFINE e == entries[notifications[n]]
<1>2. \/ End(c, "raised")
      \/ strict[c] /\ End(c, "rejected")
      \/ Selected(c, n, {})
      \/ /\ notifications[n] # NoEntry /\ Selected(c, n, {n})
         /\ strict[c] => e.handlers # <<>> /\ Elements(e.handlers) \cap LegacyOnly = {}
  BY DEF SelectName, SelectEntry
<1>3. ASSUME NEW how \in {"raised", "rejected"}, End(c, how) PROVE SendInv(c)'
  <2>1. ~disturbed[c] => acked[c] = {}
    BY <1>1 DEF SendInv, Selecting
  <2>2. QED
    BY <1>1, <1>3, <2>1, SendEnds DEF TypeInv
<1>4. ASSUME NEW extra \in SUBSET Name, Selected(c, n, extra),
             strict[c] => \A m \in extra : Deliverable(m)
      PROVE  SendInv(c)'
  <2>1. /\ chosen'[c] = chosen[c] \cup extra
        /\ UNCHANGED <<pc, strict, acked, outcome>>
    BY <1>4 DEF Selected, TypeInv, CallsTyped
  <2>2. QED
    BY <1>1, <1>4, <2>1 DEF SendInv, Selecting, Delivering, Handling, Holding,
                            Told, Deliverable, HandlersOf
<1>5. notifications[n] # NoEntry /\ e.handlers # <<>> => HandlersOf(n) # {}
  <2>1. notifications[n] # NoEntry => notifications[n] \in 1 .. Len(entries)
    BY <1>1 DEF TypeInv, CallsTyped, NoEntry
  <2>2. QED
    BY <2>1, HandlersTyped, EmptyQueue DEF HandlersOf, TypeInv
<1>6. QED
  BY <1>1, <1>2, <1>3, <1>4, <1>5 DEF Deliverable, HandlersOf

\* Between the selection and the result of a send.
LEMMA RunSends ==
  ASSUME NotifierAssumption, TypeInv, NEW c \in Caller, SendInv(c),
         SelectDone(c) \/ Render(c) \/ NameDone(c) \/ Delivered(c)
            \/ \E n \in left[c] : TakeName(c, n)
  PROVE  SendInv(c)'
<1> USE DEF delivery, memory, selection
<1>1. /\ Holding(c) /\ Alone /\ UNCHANGED <<notifications, entries, disturbed>>
  BY DEF SelectDone, Render, NameDone, Delivered, TakeName, Holding, Alone, config
<1>2. CASE End(c, "raised")
  BY <1>1, <1>2, SendEnds DEF TypeInv
<1>3. CASE SelectDone(c) /\ ~End(c, "raised")
  <2>1. /\ pc[c] = "select" /\ pc'[c] = "run" /\ left'[c] = chosen[c]
        /\ ~(strict[c] /\ chosen[c] = {})
        /\ UNCHANGED <<strict, chosen, current, entry, queue, acked, outcome>>
    BY <1>3 DEF SelectDone, TypeInv, CallsTyped
  <2>2. QED
    BY <1>1, <2>1 DEF SendInv, Told, Selecting, Delivering, Handling, Holding,
                      Acknowledged, Deliverable, HandlersOf
<1>4. ASSUME NEW n \in left[c], TakeName(c, n), ~End(c, "raised") PROVE SendInv(c)'
  <2>1. /\ pc[c] = "run" /\ pc'[c] = "render" /\ current'[c] = n
        /\ entry'[c] = notifications[n] /\ left'[c] = left[c] \ {n}
        /\ UNCHANGED <<strict, chosen, queue, acked, outcome>>
    BY <1>4 DEF TakeName, TypeInv, CallsTyped
  <2>2. QED
    BY <1>1, <2>1 DEF SendInv, Told, Selecting, Delivering, Handling, Holding,
                      Acknowledged, Deliverable, HandlersOf
<1>5. CASE Render(c) /\ ~End(c, "raised")
  <2>1. /\ pc[c] = "render" /\ pc'[c] = "handle" /\ queue'[c] = entries[entry[c]].handlers
        /\ UNCHANGED <<strict, chosen, left, current, entry, acked, outcome>>
    BY <1>5 DEF Render, TypeInv, CallsTyped
  <2>2. ~disturbed[c] /\ strict[c] => Elements(queue'[c]) = HandlersOf(current[c])
    BY <2>1 DEF SendInv, Handling, HandlersOf
  <2>3. QED
    BY <1>1, <2>1, <2>2 DEF SendInv, Told, Selecting, Delivering, Handling, Holding,
                      Acknowledged, Deliverable, HandlersOf
<1>6. CASE NameDone(c)
  <2>1. /\ pc[c] = "handle" /\ pc'[c] = "run" /\ queue[c] = <<>>
        /\ UNCHANGED <<strict, chosen, left, current, entry, queue, acked, outcome>>
    BY <1>6 DEF NameDone, TypeInv, CallsTyped
  <2>2. Elements(queue[c]) = {}
    BY <2>1 DEF Elements
  <2>3. ~disturbed[c] /\ strict[c] => Acknowledged(c, current[c])
    BY <2>1, <2>2 DEF SendInv, Handling, Acknowledged
  <2>4. QED
    BY <1>1, <2>1, <2>3 DEF SendInv, Told, Selecting, Delivering, Handling, Holding,
                            Acknowledged, Deliverable, HandlersOf
<1>7. CASE Delivered(c)
  <2>1. pc[c] = "run" /\ left[c] = {}
    BY <1>7 DEF Delivered
  <2>2. CASE strict[c]
    <3>1. End(c, "sent")
      BY <1>7, <2>2 DEF Delivered
    <3>2. ~disturbed[c] => /\ chosen[c] # {}
                           /\ \A n \in chosen[c] : HandlersOf(n) # {} /\ Acknowledged(c, n)
      BY <2>1, <2>2 DEF SendInv, Delivering, Deliverable
    <3>3. QED
      BY <1>1, <3>1, <3>2, SendEnds DEF TypeInv
  <2>3. CASE ~strict[c]
    <3>1. /\ pc'[c] = "drain"
          /\ UNCHANGED <<strict, chosen, left, current, entry, queue, acked, outcome>>
      BY <1>7, <2>3 DEF Delivered, TypeInv, CallsTyped
    <3>2. QED
      BY <1>1, <2>1, <3>1 DEF SendInv, Told, Selecting, Delivering, Handling, Holding,
                              Acknowledged, Deliverable, HandlersOf
  <2>4. QED
    BY <2>2, <2>3
<1>8. QED
  BY <1>2, <1>3, <1>4, <1>5, <1>6, <1>7

\* A handler acknowledges, or ends the call; of those that were checked none rejects it.
LEMMA DeliverSends ==
  ASSUME NotifierAssumption, TypeInv, NEW c \in Caller, SendInv(c), Deliver(c)
  PROVE  SendInv(c)'
<1> DEFINE h == Head(queue[c])
<1>1. /\ pc[c] = "handle" /\ Holding(c) /\ Alone /\ queue[c] # <<>> /\ queue[c] \in Seq(Handler)
      /\ UNCHANGED <<notifications, entries, disturbed>>
  BY DEF Deliver, Holding, Alone, config, TypeInv, CallsTyped
<1>2. Elements(queue[c]) = {h} \cup Elements(Tail(queue[c]))
  BY <1>1, QueueSplits
<1>3. \/ End(c, "raised")
      \/ strict[c] /\ h \in LegacyOnly /\ End(c, "rejected")
      \/ /\ strict[c] /\ HandlerDone(c)
         /\ acked' = [acked EXCEPT ![c] = @ \cup {<<current[c], h>>}]
      \/ ~strict[c] /\ HandlerDone(c) /\ UNCHANGED acked
  BY DEF Deliver, SendTo, CalledNow
<1> HIDE DEF h
<1>4. ~disturbed[c] /\ strict[c] => h \notin LegacyOnly
  BY <1>1, <1>2 DEF SendInv, Delivering, Handling, Deliverable
<1>5. ASSUME HandlerDone(c)
      PROVE  queue'[c] = Tail(queue[c])
             /\ UNCHANGED <<pc, strict, chosen, left, current, entry, outcome>>
  BY <1>5 DEF HandlerDone, TypeInv, CallsTyped, selection
<1>6. CASE End(c, "raised")
  BY <1>1, <1>6, SendEnds DEF TypeInv
<1>7. CASE strict[c] /\ h \in LegacyOnly /\ End(c, "rejected")
  BY <1>1, <1>4, <1>7, SendEnds DEF TypeInv
<1>8. CASE /\ strict[c] /\ HandlerDone(c)
           /\ acked' = [acked EXCEPT ![c] = @ \cup {<<current[c], h>>}]
  <2>1. acked'[c] = acked[c] \cup {<<current[c], h>>}
    BY <1>8 DEF TypeInv, CallsTyped
  <2>2. QED
    BY <1>1, <1>2, <1>5, <1>8, <2>1
       DEF SendInv, Told, Selecting, Delivering, Handling, Holding, Acknowledged,
           Deliverable, HandlersOf
<1>9. CASE ~strict[c] /\ HandlerDone(c) /\ UNCHANGED acked
  BY <1>1, <1>5, <1>9
     DEF SendInv, Told, Selecting, Delivering, Handling, Holding, Acknowledged,
         Deliverable, HandlersOf
<1>10. QED
  BY <1>3, <1>6, <1>7, <1>8, <1>9

\* Any other step of a call.
LEMMA RestSends ==
  ASSUME TypeInv, NEW c \in Caller, SendInv(c), NEW s \in BOOLEAN,
         Call(c, s) \/ Acquire(c) \/ SelectFails(c) \/ KillPool(c) \/ Drained(c)
  PROVE  SendInv(c)'
<1>1. CASE Call(c, s)
  <2>1. /\ pc[c] = "idle" /\ pc'[c] = "wait"
        /\ UNCHANGED <<notifications, entries, disturbed, chosen, acked, outcome>>
    BY <1>1 DEF Call, Alone, config, delivery, TypeInv, CallsTyped
  <2>2. QED
    BY <2>1 DEF SendInv, Told, Selecting, Delivering, Handling, Holding, Acknowledged, HandlersOf
<1>2. CASE Acquire(c)
  <2>1. pc'[c] = "select" /\ acked'[c] = {} /\ chosen'[c] = {} /\ outcome'[c] = "none"
    BY <1>2 DEF Acquire, TypeInv, CallsTyped
  <2>2. QED
    BY <2>1 DEF SendInv, Told, Selecting, Delivering, Handling
<1>3. CASE SelectFails(c)
  BY <1>3, SendEnds DEF SelectFails, Holding, TypeInv
<1>4. CASE KillPool(c)
  <2>1. Mine(c)' = Mine(c) /\ UNCHANGED <<notifications, entries>>
    BY <1>4 DEF KillPool, Mine, Alone, config, delivery, memory, selection
  <2>2. QED
    BY <2>1, SendFrame
<1>5. CASE Drained(c)
  BY <1>5, SendEnds DEF Drained, Holding, TypeInv
<1>6. QED
  BY <1>1, <1>2, <1>3, <1>4, <1>5

\* StrictDelivers: a send that returned has had every handler of every name that it
\* selected acknowledge, and one that was rejected has sent nothing, unless load or
\* reset ran under it (notifiers.py:283).
THEOREM SendsDeliver == Spec => []StrictDelivers
<1>1. Init => SendsInv
  BY DEF Init, SendInv, SendsInv
<1>2. NotifierAssumption /\ TypeInv /\ SendsInv /\ [Next]_vars => SendsInv'
  <2> SUFFICES ASSUME NotifierAssumption, TypeInv, SendsInv, [Next]_vars, NEW c \in Caller
               PROVE  SendInv(c)'
    BY DEF SendsInv
  <2>0. \A d \in Caller : SendInv(d)
    BY DEF SendsInv
  <2>1. CASE LoaderStep
    <3>1. disturbed'[c]
      BY <2>1, LoaderEffect DEF TypeInv
    <3>2. QED
      BY <3>1 DEF SendInv
  <2>2. ASSUME NEW d \in Caller, NEW s \in BOOLEAN, Acquire(d) \/ CallStep(d) \/ Call(d, s)
        PROVE  SendInv(c)'
    <3>1. CASE d = c
      BY <2>0, <2>2, <3>1, SelectSends, RunSends, DeliverSends, RestSends DEF CallStep
    <3>2. CASE d # c
      <4>1. Mine(c)' = Mine(c) /\ UNCHANGED <<notifications, entries>>
        BY <2>2, <3>2, CallAlone DEF TypeInv, config
      <4>2. QED
        BY <2>0, <4>1, SendFrame
    <3>3. QED
      BY <3>1, <3>2
  <2>3. CASE WorkerStep \/ UNCHANGED vars
    <3>1. UNCHANGED <<config, pc, selection, delivery, nvars, outcome, disturbed>>
      BY <2>3, WorkerAlone DEF vars, memory
    <3>2. Mine(c)' = Mine(c) /\ UNCHANGED <<notifications, entries>>
      BY <3>1 DEF Mine, config, delivery, selection
    <3>3. QED
      BY <2>0, <3>2, SendFrame
  <2>4. QED
    BY <2>1, <2>2, <2>3 DEF Next, WorkerStep
<1>3. SendsInv => StrictDelivers
  BY DEF SendsInv, SendInv, Told, Acknowledged, HandlersOf, StrictDelivers
<1>4. NotifierAssumption
  BY NotifierAssumption
<1>5. QED
  BY <1>1, <1>2, <1>3, <1>4, TypeAlways, PTL DEF Spec

-----------------------------------------------------------------------------
(* The subprocess handler: no call leaves a child, and True means success. *)

\* Where the call is tells what the child may be.  One that was never spawned and
\* one that was reaped are the same to the cleanup.
ChildPlace ==
    /\ stage \in {"prepare", "spawn"} => child = "none"
    /\ stage \in {"readers", "wait", "terminated", "reap"} => child \in {"alive", "zombie"}
    /\ stage \in {"join", "done"} => child \in {"none", "reaped"}

\* A child that the wait has not failed for was reaped by it, unsignalled and
\* with code 0.
Waited ==
    /\ stage \in {"cleanup", "terminated", "reap", "join"} /\ failure = "none" =>
          child = "reaped" /\ returncode = 0 /\ signals = {}
    /\ stage \in {"prepare", "spawn", "readers", "wait"} => signals = {} /\ ending = "none"
    /\ ending = "true" => returncode = 0 /\ signals = {} /\ stage = "done"

ChildInv == ChildTypeOK /\ ChildPlace /\ Waited

\* The invariant holds before the call.
LEMMA InitChild == ChildInit => ChildInv
BY DEF ChildInit, ChildInv, ChildTypeOK, ChildPlace, Waited, Stage

\* The type of every variable is kept.
LEMMA ChildTypeStep == ChildTypeOK /\ [ChildNext]_childVars => ChildTypeOK'
<1> SUFFICES ASSUME ChildTypeOK, [ChildNext]_childVars PROVE ChildTypeOK'
  OBVIOUS
<1> USE DEF ChildTypeOK, Stage, environment, Fail, Reap
<1>1. CASE Prepare
  BY <1>1 DEF Prepare
<1>2. CASE Spawn
  BY <1>2 DEF Spawn
<1>3. CASE StartReader
  <2>1. readers' \in [Reader -> {"none", "reading", "closed"}]
    BY <1>3 DEF StartReader
  <2>2. stage' \in {stage, "wait", "cleanup"} /\ failure' \in {failure, "thread"} /\ overdue' \in BOOLEAN
    BY <1>3 DEF StartReader
  <2>3. UNCHANGED <<sending, child, exit, returncode, stubborn, held, signals, ending>>
    BY <1>3 DEF StartReader
  <2>4. QED
    BY <2>1, <2>2, <2>3
<1>4. CASE WaitSucceeds
  BY <1>4 DEF WaitSucceeds
<1>5. CASE WaitTimesOut
  BY <1>5 DEF WaitTimesOut
<1>6. CASE CleanupReaped
  BY <1>6 DEF CleanupReaped
<1>7. CASE Terminate
  BY <1>7 DEF Terminate
<1>8. CASE Terminated
  BY <1>8 DEF Terminated
<1>9. CASE Kill
  BY <1>9 DEF Kill
<1>10. CASE ReapKilled
  BY <1>10 DEF ReapKilled
<1>11. CASE JoinReaders
  BY <1>11 DEF JoinReaders, Result
<1>12. CASE Environment
  <2>1. CASE Deadline
    BY <2>1 DEF Deadline
  <2>2. ASSUME NEW c \in Code, Exit(c) PROVE ChildTypeOK'
    BY <2>2 DEF Exit
  <2>3. ASSUME NEW r \in Reader, ReadEnd(r) PROVE ChildTypeOK'
    BY <2>3 DEF ReadEnd
  <2>4. QED
    BY <1>12, <2>1, <2>2, <2>3 DEF Environment, Signalled, Code
<1>13. CASE UNCHANGED childVars
  BY <1>13 DEF childVars
<1>14. QED
  BY <1>1, <1>2, <1>3, <1>4, <1>5, <1>6, <1>7, <1>8, <1>9, <1>10, <1>11, <1>12, <1>13
     DEF ChildNext, CallerStep

\* Every step keeps the place of the child and what the wait has found.
LEMMA ChildPlaceStep == ChildInv /\ [ChildNext]_childVars => ChildPlace' /\ Waited'
<1> SUFFICES ASSUME ChildInv, [ChildNext]_childVars PROVE ChildPlace' /\ Waited'
  OBVIOUS
<1> USE DEF ChildInv, ChildTypeOK, ChildPlace, Waited, Stage, environment, Fail, Reap
<1>1. CASE Prepare
  BY <1>1 DEF Prepare
<1>2. CASE Spawn
  BY <1>2 DEF Spawn
<1>3. CASE StartReader
  BY <1>3 DEF StartReader
<1>4. CASE WaitSucceeds
  BY <1>4 DEF WaitSucceeds
<1>5. CASE WaitTimesOut
  BY <1>5 DEF WaitTimesOut
<1>6. CASE CleanupReaped
  BY <1>6 DEF CleanupReaped
<1>7. CASE Terminate
  BY <1>7 DEF Terminate
<1>8. CASE Terminated
  BY <1>8 DEF Terminated
<1>9. CASE Kill
  BY <1>9 DEF Kill
<1>10. CASE ReapKilled
  BY <1>10 DEF ReapKilled
<1>11. CASE JoinReaders
  BY <1>11 DEF JoinReaders, Result
<1>12. CASE Environment
  <2>1. CASE Deadline
    BY <2>1 DEF Deadline
  <2>2. ASSUME NEW c, Exit(c) PROVE ChildPlace' /\ Waited'
    BY <2>2 DEF Exit
  <2>3. ASSUME NEW r \in Reader, ReadEnd(r) PROVE ChildPlace' /\ Waited'
    BY <2>3 DEF ReadEnd
  <2>4. QED
    BY <1>12, <2>1, <2>2, <2>3 DEF Environment, Signalled
<1>13. CASE UNCHANGED childVars
  BY <1>13 DEF childVars
<1>14. QED
  BY <1>1, <1>2, <1>3, <1>4, <1>5, <1>6, <1>7, <1>8, <1>9, <1>10, <1>11, <1>12, <1>13
     DEF ChildNext, CallerStep

\* It holds in every state.
LEMMA ChildAlways == ChildSpec => []ChildInv
<1>1. ChildInv /\ [ChildNext]_childVars => ChildInv'
  BY ChildTypeStep, ChildPlaceStep DEF ChildInv
<1>2. QED
  BY InitChild, <1>1, PTL DEF ChildSpec

\* ChildReaped: however the call ended, it has left no child (notifiers.py:643-671).
THEOREM NoChildLeft == ChildSpec => []ChildReaped
<1>1. ChildInv => ChildReaped
  BY DEF ChildInv, ChildPlace, ChildReaped
<1>2. QED
  BY ChildAlways, <1>1, PTL

\* TrueMeansSuccess: True is returned for a child that ended by itself with code 0,
\* whatever it was about to be sent when the deadline passed.
THEOREM TrueIsSuccess == ChildSpec => []TrueMeansSuccess
<1>1. ChildInv => TrueMeansSuccess
  BY DEF ChildInv, Waited, TrueMeansSuccess
<1>2. QED
  BY ChildAlways, <1>1, PTL

-----------------------------------------------------------------------------
(* The adapter of the Redis handler, for every set of servers and clients. *)

-----------------------------------------------------------------------------
(* The invariant: what is true of a client's call while it runs            *)

\* The types, with any number of entries.
AdapterTyped ==
    /\ phase \in [Client -> Step]
    /\ op \in [Client -> Op]
    /\ count \in [Client -> 0..MaxClientCalls]
    /\ selected \in [Client -> SUBSET Server]
    /\ wanted \in [Client -> SUBSET ClientCall]
    /\ todo \in [Client -> SUBSET Server]
    /\ at \in [Client -> Server]
    /\ done \in [Client -> SUBSET Server]
    /\ conn \in [Adapter -> SUBSET Server]
    /\ value \in [Server -> ClientCall \cup {NoCall}]
    /\ fields \in [Server -> SUBSET ClientCall]
    /\ expiring \subseteq Server
    /\ stream \in [Server -> [ClientCall -> Nat]]
    /\ missing \in [Client -> SUBSET Server]
    /\ found \in [Client -> SUBSET Key] /\ due \in [Client -> SUBSET Key]
    /\ told \in [ClientCall -> {"nothing", "returned", "none", "raised"}]

InCall(c) == phase[c] \in {"command", "get", "expire", "scan"}

\* Between two commands, the call is one that has two and is at a server it selected.
Between(c) ==
    /\ phase[c] = "get" => op[c] \in Get
    /\ phase[c] = "expire" => op[c] \in {"expire", "hset_expire"}
    /\ phase[c] = "scan" => op[c] = "keys"
    /\ phase[c] = "disconnect" => op[c] \in Send
    /\ phase[c] \in {"get", "expire"} => at[c] \in todo[c]

\* A call is answered when it ends, and one to come has left no trace.
Answering(c) ==
    /\ phase[c] # "idle" => count[c] > 0
    /\ InCall(c) => told[Now(c)] = "nothing"
    /\ ~InCall(c) /\ count[c] > 0 => told[Now(c)] # "nothing"
    /\ \A k \in ClientCall : k[1] = c /\ k[2] > count[c] =>
          /\ told[k] = "nothing"
          /\ \A s \in Server : stream[s][k] = 0 /\ k \notin fields[s]

\* A write was carried out on the servers that it has visited, once on each.
Writing(c) ==
    InCall(c) /\ op[c] \in Loop =>
        /\ todo[c] \subseteq selected[c]
        /\ done[c] = (selected[c] \ todo[c])
                         \cup (IF phase[c] = "expire" THEN {at[c]} ELSE {})
        /\ Adds(c) => \A s \in Server :
                          stream[s][Now(c)] = IF s \in done[c] THEN 1 ELSE 0

\* A read has found the key missing on the servers that it has visited; has_key has
\* visited none.
Reading(c) ==
    /\ InCall(c) /\ op[c] \in Get =>
          /\ selected[c] \ todo[c] \subseteq missing[c]
          /\ \A s \in Server : Finds(c, s) \/ s \in missing[c]
    /\ InCall(c) /\ op[c] = "has_key" => todo[c] = selected[c]

\* A hash with fields of an hset_key with an expiry expires, except between its two
\* commands and when the second one may have failed.
Expiring(c) ==
    op[c] = "hset_expire" /\ count[c] > 0 /\ told[Now(c)] \in {"nothing", "returned"} =>
        \A s \in Server :
            Now(c) \in fields[s] => s \in expiring \/ (phase[c] = "expire" /\ s = at[c])

ClientInv(c) ==
    Between(c) /\ Answering(c) /\ Writing(c) /\ Reading(c) /\ Expiring(c)

\* A hash that expires has fields; no entry was added twice.
ServerInv ==
    /\ \A s \in expiring : fields[s] # {}
    /\ \A s \in Server, k \in ClientCall : stream[s][k] <= 1

AdapterInv == AdapterTyped /\ ServerInv /\ \A c \in Client : ClientInv(c)

-----------------------------------------------------------------------------
(* Types                                                                   *)

\* A client that makes a call has a number for it.
LEMMA NowIsCall ==
  ASSUME RedisAdapterAssumption, AdapterTyped, NEW c \in Client, count[c] > 0
  PROVE  Now(c) \in ClientCall
<1>1. count[c] \in 1 .. MaxClientCalls
  BY DEF RedisAdapterAssumption, AdapterTyped
<1>2. QED
  BY <1>1 DEF Now, ClientCall

\* A server that carries out a command keeps its types.
LEMMA ExecuteTyped ==
  ASSUME AdapterTyped, NEW c \in Client, Now(c) \in ClientCall, NEW s \in Server,
         Execute(c, s)
  PROVE  /\ value' \in [Server -> ClientCall \cup {NoCall}]
         /\ fields' \in [Server -> SUBSET ClientCall]
         /\ expiring' \subseteq Server
         /\ stream' \in [Server -> [ClientCall -> Nat]]
         /\ done' \in [Client -> SUBSET Server]
<1> DEFINE k == Now(c)
<1>1. value' \in [Server -> ClientCall \cup {NoCall}]
  BY DEF Execute, AdapterTyped
<1>2. fields' \in [Server -> SUBSET ClientCall]
  <2>1. fields' = [fields EXCEPT ![s] = IF Hashes(c) THEN fields[s] \cup {Now(c)}
                                        ELSE fields[s] \ Removed(c)]
    BY DEF Execute
  <2>2. fields[s] \in SUBSET ClientCall
    BY DEF AdapterTyped
  <2>3. QED
    BY <2>1, <2>2 DEF AdapterTyped
<1>3. stream' \in [Server -> [ClientCall -> Nat]]
  <2>1. stream[s] \in [ClientCall -> Nat] /\ stream[s][k] \in Nat
    BY DEF AdapterTyped
  <2>2. [stream[s] EXCEPT ![k] = stream[s][k] + 1] \in [ClientCall -> Nat]
    BY <2>1
  <2>3. stream' \in {stream, [stream EXCEPT ![s] = [stream[s] EXCEPT ![k] = stream[s][k] + 1]]}
    BY DEF Execute
  <2>4. QED
    BY <2>2, <2>3 DEF AdapterTyped
<1>4. expiring' \subseteq Server /\ done' \in [Client -> SUBSET Server]
  BY DEF Execute, AdapterTyped
<1>5. QED
  BY <1>1, <1>2, <1>3, <1>4

\* An answer is one, and the client goes where it belongs.
LEMMA AnswerTyped ==
  ASSUME AdapterTyped, NEW c \in Client, Now(c) \in ClientCall,
         NEW what \in {"returned", "none", "raised"}, Answer(c, what)
  PROVE  /\ told' \in [ClientCall -> {"nothing", "returned", "none", "raised"}]
         /\ phase' \in [Client -> Step]
BY DEF Answer, Go, AdapterTyped, Step

\* So are the histories.
LEMMA WatchTyped ==
  ASSUME AdapterTyped, phase' \in [Client -> Step], Watch
  PROVE  /\ missing' \in [Client -> SUBSET Server]
         /\ due' \in [Client -> SUBSET Key]
<1>1. ASSUME NEW c \in Client PROVE Held(at[c])' \subseteq Key
  BY DEF Held
<1>2. due' \in [Client -> SUBSET Key]
  <2>1. ASSUME NEW c \in Client
        PROVE  Held(at[c])' \cap (IF phase[c] = "scan" THEN due[c] ELSE Key) \in SUBSET Key
    BY <1>1
  <2>2. QED
    BY <2>1 DEF Watch
<1>3. missing' \in [Client -> SUBSET Server]
  BY DEF Watch, AdapterTyped
<1>4. QED
  BY <1>2, <1>3

\* One pass of the loop: the server is visited, or the client waits at it.
LEMMA PassTyped ==
  ASSUME AdapterTyped, NEW c \in Client, NEW s \in Server,
         todo' \in {todo, [todo EXCEPT ![c] = Left(c, s)]},
         at' \in {at, [at EXCEPT ![c] = s]},
         phase' = phase \/ \E step \in Step : Go(c, step)
  PROVE  /\ phase' \in [Client -> Step] /\ todo' \in [Client -> SUBSET Server]
         /\ at' \in [Client -> Server]
<1>1. [todo EXCEPT ![c] = Left(c, s)] \in [Client -> SUBSET Server]
  BY DEF Left, AdapterTyped
<1>2. [at EXCEPT ![c] = s] \in [Client -> Server]
  BY DEF AdapterTyped
<1>3. ASSUME NEW step \in Step, Go(c, step) PROVE phase' \in [Client -> Step]
  BY <1>3 DEF Go, AdapterTyped
<1>4. QED
  BY <1>1, <1>2, <1>3 DEF AdapterTyped

\* A step of a client keeps the types.
LEMMA ClientTyped ==
  ASSUME RedisAdapterAssumption, AdapterTyped, NEW c \in Client, Between(c), Answering(c),
         ClientStep(c)
  PROVE  /\ phase' \in [Client -> Step] /\ op' \in [Client -> Op]
         /\ wanted' \in [Client -> SUBSET ClientCall]
         /\ count' \in [Client -> 0..MaxClientCalls]
         /\ selected' \in [Client -> SUBSET Server] /\ todo' \in [Client -> SUBSET Server]
         /\ at' \in [Client -> Server] /\ done' \in [Client -> SUBSET Server]
         /\ conn' \in [Adapter -> SUBSET Server]
         /\ value' \in [Server -> ClientCall \cup {NoCall}]
         /\ fields' \in [Server -> SUBSET ClientCall]
         /\ expiring' \subseteq Server
         /\ stream' \in [Server -> [ClientCall -> Nat]]
         /\ found' \in [Client -> SUBSET Key]
         /\ told' \in [ClientCall -> {"nothing", "returned", "none", "raised"}]
<1>1. phase[c] # "idle" => Now(c) \in ClientCall
  BY NowIsCall DEF Answering
<1>2. CASE Begin(c)
  <2>1. count' \in [Client -> 0..MaxClientCalls]
    <3>1. count[c] + 1 \in 0..MaxClientCalls
      BY <1>2 DEF Begin, AdapterTyped, RedisAdapterAssumption
    <3>2. QED
      BY <1>2, <3>1 DEF Begin, AdapterTyped
  <2>2. PICK o \in Op, sel \in SUBSET Server, named \in SUBSET ClientCall :
          /\ op' = [op EXCEPT ![c] = o]
          /\ selected' = [selected EXCEPT ![c] = sel]
          /\ wanted' = [wanted EXCEPT ![c] = named]
          /\ todo' = [todo EXCEPT ![c] = sel]
          /\ conn' = IF o \in Send THEN [conn EXCEPT ![c] = sel] ELSE conn
    BY <1>2 DEF Begin
  <2>3. /\ op' \in [Client -> Op] /\ selected' \in [Client -> SUBSET Server]
        /\ todo' \in [Client -> SUBSET Server] /\ conn' \in [Adapter -> SUBSET Server]
        /\ wanted' \in [Client -> SUBSET ClientCall]
    BY <2>2 DEF AdapterTyped
  <2>4. phase' \in [Client -> Step] /\ done' \in [Client -> SUBSET Server]
    BY <1>2 DEF Begin, Go, Step, AdapterTyped
  <2>5. UNCHANGED <<at, server, found, told>>
    BY <1>2 DEF Begin
  <2>6. QED
    BY <2>1, <2>3, <2>4, <2>5 DEF AdapterTyped, server
<1>3. CASE WriteCommand(c)
  <2>1. PICK s \in todo[c] : Answered(c, s) \/ Lost(c, s) \/ Refused(c)
    BY <1>3 DEF WriteCommand
  <2>2. s \in Server /\ Now(c) \in ClientCall
    BY <1>1, <1>3, <2>1 DEF AdapterTyped, WriteCommand
  <2>3. CASE Answered(c, s)
    <3>1. phase' \in [Client -> Step] /\ todo' \in [Client -> SUBSET Server]
          /\ at' \in [Client -> Server] /\ UNCHANGED <<found, told>>
      BY <2>2, <2>3, PassTyped DEF Answered, Step
    <3>2. QED
      BY <1>3, <2>2, <2>3, <3>1, ExecuteTyped DEF Answered, WriteCommand, loop, AdapterTyped
  <2>4. CASE Lost(c, s)
    BY <1>3, <2>2, <2>4, ExecuteTyped, AnswerTyped DEF Lost, WriteCommand, loop, AdapterTyped
  <2>5. CASE Refused(c)
    BY <1>3, <2>2, <2>5, AnswerTyped DEF Refused, WriteCommand, loop, server, AdapterTyped
  <2>6. QED
    BY <2>1, <2>3, <2>4, <2>5
<1>4. CASE ExpireCommand(c)
  <2>1. Now(c) \in ClientCall /\ at[c] \in Server
    BY <1>1, <1>4 DEF ExpireCommand, AdapterTyped
  <2>2. CASE Refused(c)
    BY <1>4, <2>1, <2>2, AnswerTyped DEF Refused, ExpireCommand, loop, server, AdapterTyped
  <2>3. CASE ~Refused(c)
    <3>1. ExpireKey(at[c]) /\ UNCHANGED <<at, done, value, fields, stream, found>>
      BY <1>4, <2>3 DEF ExpireCommand
    <3>2. expiring' \subseteq Server
      BY <2>1, <3>1 DEF ExpireKey, AdapterTyped
    <3>3. /\ phase' \in [Client -> Step] /\ todo' \in [Client -> SUBSET Server]
          /\ told' \in [ClientCall -> {"nothing", "returned", "none", "raised"}]
      <4>1. CASE /\ todo' = [todo EXCEPT ![c] = Left(c, at[c])] /\ Go(c, "command")
                 /\ UNCHANGED told
        BY <4>1 DEF Go, Left, Step, AdapterTyped
      <4>2. CASE Answer(c, "raised") /\ UNCHANGED todo
        BY <2>1, <4>2, AnswerTyped DEF AdapterTyped
      <4>3. QED
        BY <1>4, <2>3, <4>1, <4>2 DEF ExpireCommand
    <3>4. QED
      BY <1>4, <3>1, <3>2, <3>3 DEF ExpireCommand, loop, AdapterTyped
  <2>4. QED
    BY <2>2, <2>3
<1>5. CASE ExistsCommand(c)
  <2>1. Now(c) \in ClientCall /\ UNCHANGED <<loop, conn>>
    BY <1>1, <1>5 DEF ExistsCommand
  <2>2. CASE Refused(c)
    BY <2>1, <2>2, AnswerTyped DEF Refused, loop, server, AdapterTyped
  <2>3. CASE ~Refused(c)
    <3>1. PICK s \in todo[c] :
            /\ IF Has(c, s)
               THEN /\ Go(c, IF op[c] \in Get THEN "get" ELSE "expire")
                    /\ at' = [at EXCEPT ![c] = s]
                    /\ UNCHANGED todo
               ELSE /\ todo' = [todo EXCEPT ![c] = Left(c, s)]
                    /\ UNCHANGED <<phase, at>>
            /\ UNCHANGED <<done, server, found, told>>
      BY <1>5, <2>3 DEF ExistsCommand
    <3>2. s \in Server
      BY <3>1 DEF AdapterTyped
    <3>3. phase' \in [Client -> Step] /\ todo' \in [Client -> SUBSET Server]
          /\ at' \in [Client -> Server]
      BY <3>1, <3>2, PassTyped DEF Step
    <3>4. QED
      BY <2>1, <3>1, <3>3 DEF loop, server, AdapterTyped
  <2>4. QED
    BY <2>2, <2>3
<1>6. CASE HasKey(c)
  <2>1. Now(c) \in ClientCall /\ UNCHANGED <<loop, todo, at, done, conn, server, found>>
    BY <1>1, <1>6 DEF HasKey
  <2>2. QED
    BY <1>6, <2>1, AnswerTyped DEF HasKey, loop, server, AdapterTyped
<1>7. CASE GetCommand(c)
  <2>1. Now(c) \in ClientCall /\ UNCHANGED <<loop, todo, at, done, conn, server, found>>
    BY <1>1, <1>7 DEF GetCommand
  <2>2. QED
    BY <1>7, <2>1, AnswerTyped DEF GetCommand, loop, server, AdapterTyped
<1>8. CASE ScanCommand(c)
  <2>1. Now(c) \in ClientCall /\ UNCHANGED <<loop, conn>>
    BY <1>1, <1>8 DEF ScanCommand
  <2>2. CASE Refused(c)
    BY <2>1, <2>2, AnswerTyped DEF Refused, loop, server, AdapterTyped
  <2>3. CASE ~Refused(c)
    <3>1. PICK s \in IF phase[c] = "scan" THEN {at[c]} ELSE todo[c] :
            Scan(c, s) /\ UNCHANGED <<done, server, told>>
      BY <1>8, <2>3 DEF ScanCommand
    <3>2. s \in Server
      BY <3>1 DEF AdapterTyped
    <3>3. /\ phase' \in [Client -> Step] /\ todo' \in [Client -> SUBSET Server]
          /\ at' \in [Client -> Server] /\ found' \in [Client -> SUBSET Key]
      <4>1. PICK page \in SUBSET Held(s), zero \in BOOLEAN :
              /\ found' = [found EXCEPT ![c] = IF phase[c] = "command" THEN page
                                               ELSE found[c] \cup page]
              /\ at' = [at EXCEPT ![c] = s]
              /\ IF LastPage(zero, page)
                 THEN Go(c, "command") /\ todo' = [todo EXCEPT ![c] = Left(c, s)]
                 ELSE Go(c, "scan") /\ UNCHANGED todo
        BY <3>1 DEF Scan
      <4>2. page \subseteq Key
        BY DEF Held
      <4>3. found' \in [Client -> SUBSET Key]
        BY <4>1, <4>2 DEF AdapterTyped
      <4>4. QED
        BY <3>2, <4>1, <4>3, PassTyped DEF Step
    <3>4. QED
      BY <2>1, <3>1, <3>3 DEF loop, server, AdapterTyped
  <2>4. QED
    BY <2>2, <2>3
<1>9. CASE Return(c)
  <2>1. Now(c) \in ClientCall /\ UNCHANGED <<loop, todo, at, done, conn, server, found>>
    BY <1>1, <1>9 DEF Return
  <2>2. QED
    BY <1>9, <2>1, AnswerTyped DEF Return, loop, server, AdapterTyped
<1>10. CASE Disconnect(c)
  BY <1>10 DEF Disconnect, Go, Step, loop, server, AdapterTyped, Adapter
<1>11. QED
  BY <1>2, <1>3, <1>4, <1>5, <1>6, <1>7, <1>8, <1>9, <1>10 DEF ClientStep

-----------------------------------------------------------------------------
(* What a step leaves alone                                                *)

\* Where client d is.
Local(d) == <<phase[d], op[d], count[d], selected[d], wanted[d], todo[d], at[d], done[d]>>

\* The calls of d are as they were, but for fields that somebody deletes.
Frame(d) ==
    /\ Local(d)' = Local(d)
    /\ \A k \in ClientCall : k[1] = d =>
          /\ told'[k] = told[k]
          /\ \A s \in Server : /\ stream'[s][k] = stream[s][k]
                               /\ k \in fields'[s] => k \in fields[s]

\* A hash stops expiring by being deleted.
ServersStep ==
    /\ \A s \in expiring : s \in expiring' \/ fields'[s] = {}
    /\ \A s \in expiring' : fields'[s] # {}

\* What a server carries out for a call leaves the other calls alone.
LEMMA ExecuteFrame ==
  ASSUME AdapterTyped, ServerInv, NEW c \in Client, Now(c) \in ClientCall, NEW s \in Server,
         Execute(c, s)
  PROVE  /\ ServersStep
         /\ \A k \in ClientCall \ {Now(c)}, t \in Server :
               stream'[t][k] = stream[t][k] /\ (k \in fields'[t] => k \in fields[t])
         /\ \A d \in Client \ {c} : done'[d] = done[d]
<1>1. /\ fields' = [fields EXCEPT ![s] = IF Hashes(c) THEN fields[s] \cup {Now(c)}
                                         ELSE fields[s] \ Removed(c)]
      /\ expiring' = IF fields'[s] = {} THEN expiring \ {s} ELSE expiring
  BY DEF Execute
<1>2. ASSUME NEW t \in Server
      PROVE  fields'[t] = IF t # s THEN fields[t]
                          ELSE IF Hashes(c) THEN fields[s] \cup {Now(c)}
                          ELSE fields[s] \ Removed(c)
  BY <1>1 DEF AdapterTyped
<1>3. ServersStep
  <2>1. s \notin expiring' \/ fields'[s] # {}
    BY <1>1
  <2>2. expiring \subseteq Server
    BY DEF AdapterTyped
  <2>3. QED
    BY <1>1, <1>2, <2>1, <2>2 DEF ServersStep, ServerInv
<1>4. ASSUME NEW k \in ClientCall \ {Now(c)}, NEW t \in Server
      PROVE  stream'[t][k] = stream[t][k] /\ (k \in fields'[t] => k \in fields[t])
  <2>1. k # Now(c)
    OBVIOUS
  <2>2. stream[s] \in [ClientCall -> Nat] /\ stream \in [Server -> [ClientCall -> Nat]]
    BY DEF AdapterTyped
  <2>3. stream' \in {stream, [stream EXCEPT ![s] = [stream[s] EXCEPT ![Now(c)] = stream[s][Now(c)] + 1]]}
    BY DEF Execute
  <2>4. stream'[t][k] = stream[t][k]
    BY <2>1, <2>2, <2>3
  <2>5. QED
    BY <1>2, <2>1, <2>4
<1>5. \A d \in Client \ {c} : done'[d] = done[d]
  BY DEF Execute, AdapterTyped
<1>6. QED
  BY <1>3, <1>4, <1>5

\* An answer is about one call of one client.
LEMMA AnswerFrame ==
  ASSUME AdapterTyped, NEW c \in Client, NEW what, Answer(c, what)
  PROVE  /\ \A k \in ClientCall : k # Now(c) => told'[k] = told[k]
         /\ \A d \in Client \ {c} : phase'[d] = phase[d]
BY DEF Answer, Go, AdapterTyped

\* A step of client c leaves the calls of the others alone.
LEMMA ClientFrame ==
  ASSUME RedisAdapterAssumption, AdapterTyped, ServerInv, NEW c \in Client,
         Between(c), Answering(c), ClientStep(c)
  PROVE  ServersStep /\ \A d \in Client \ {c} : Frame(d)
<1> USE DEF loop, server
<1>1. phase[c] # "idle" => Now(c) \in ClientCall
  BY NowIsCall DEF Answering
<1>2. ASSUME UNCHANGED server PROVE ServersStep
  BY <1>2 DEF ServersStep, ServerInv
<1>3. \A d \in Client \ {c}, k \in ClientCall : k[1] = d => k # Now(c)
  BY DEF Now
<1>4. CASE Begin(c)
  <2>1. PICK o \in Op, sel \in SUBSET Server, named \in SUBSET ClientCall :
          op' = [op EXCEPT ![c] = o] /\ selected' = [selected EXCEPT ![c] = sel]
          /\ todo' = [todo EXCEPT ![c] = sel] /\ wanted' = [wanted EXCEPT ![c] = named]
    BY <1>4 DEF Begin
  <2>2. /\ count' = [count EXCEPT ![c] = count[c] + 1] /\ done' = [done EXCEPT ![c] = {}]
        /\ phase' = [phase EXCEPT ![c] = "command"] /\ UNCHANGED <<at, server, told>>
    BY <1>4 DEF Begin, Go
  <2>3. ASSUME NEW d \in Client \ {c} PROVE Local(d)' = Local(d)
    BY <2>1, <2>2 DEF Local, AdapterTyped
  <2>4. QED
    BY <1>2, <2>2, <2>3 DEF Frame
<1>5. CASE WriteCommand(c)
  <2>1. Now(c) \in ClientCall /\ UNCHANGED loop
    BY <1>1, <1>5 DEF WriteCommand
  <2>2. PICK s \in todo[c] : Answered(c, s) \/ Lost(c, s) \/ Refused(c)
    BY <1>5 DEF WriteCommand
  <2>3. s \in Server
    BY <2>2 DEF AdapterTyped
  <2>4. CASE Answered(c, s)
    <3>1. /\ Execute(c, s) /\ UNCHANGED told
          /\ phase' = phase \/ phase' = [phase EXCEPT ![c] = "expire"]
          /\ at' = at \/ at' = [at EXCEPT ![c] = s]
          /\ todo' = todo \/ todo' = [todo EXCEPT ![c] = Left(c, s)]
      BY <2>4 DEF Answered, Go
    <3>2. ASSUME NEW d \in Client \ {c} PROVE Local(d)' = Local(d)
      BY <2>1, <2>3, <3>1, ExecuteFrame DEF Local, AdapterTyped
    <3>3. QED
      BY <1>3, <2>1, <2>3, <3>1, <3>2, ExecuteFrame DEF Frame
  <2>5. CASE Lost(c, s)
    <3>1. Execute(c, s) /\ Answer(c, "raised") /\ UNCHANGED <<todo, at>>
      BY <2>5 DEF Lost
    <3>2. ASSUME NEW d \in Client \ {c} PROVE Local(d)' = Local(d)
      BY <2>1, <2>3, <3>1, ExecuteFrame, AnswerFrame DEF Local
    <3>3. QED
      BY <1>3, <2>1, <2>3, <3>1, <3>2, ExecuteFrame, AnswerFrame DEF Frame
  <2>6. CASE Refused(c)
    <3>1. Answer(c, "raised") /\ UNCHANGED <<todo, at, done, server>>
      BY <2>6 DEF Refused
    <3>2. QED
      BY <1>2, <1>3, <2>1, <3>1, AnswerFrame DEF Frame, Local
  <2>7. QED
    BY <2>2, <2>4, <2>5, <2>6
<1>6. ASSUME UNCHANGED <<loop, server>>, NEW what,
             Answer(c, what) /\ UNCHANGED <<todo, at, done>>
      PROVE  ServersStep /\ \A d \in Client \ {c} : Frame(d)
  BY <1>2, <1>3, <1>6, AnswerFrame DEF Frame, Local
<1>7. CASE ExpireCommand(c)
  <2>1. CASE Refused(c)
    BY <1>6, <1>7, <2>1 DEF Refused, ExpireCommand
  <2>2. CASE ~Refused(c)
    <3>1. /\ ExpireKey(at[c]) /\ UNCHANGED <<loop, at, done, value, fields, stream, found>>
          /\ \/ /\ todo' = [todo EXCEPT ![c] = Left(c, at[c])]
                /\ phase' = [phase EXCEPT ![c] = "command"]
                /\ UNCHANGED told
             \/ Answer(c, "raised") /\ UNCHANGED todo
      BY <1>7, <2>2 DEF ExpireCommand, Go
    <3>2. ServersStep
      BY <3>1 DEF ExpireKey, ServersStep, ServerInv
    <3>3. ASSUME NEW d \in Client \ {c} PROVE Frame(d)
      BY <1>3, <3>1, AnswerFrame DEF Frame, Local, AdapterTyped
    <3>4. QED
      BY <3>2, <3>3
  <2>3. QED
    BY <2>1, <2>2
<1>8. CASE ExistsCommand(c)
  <2>1. CASE Refused(c)
    BY <1>6, <1>8, <2>1 DEF Refused, ExistsCommand
  <2>2. CASE ~Refused(c)
    <3>1. PICK s \in todo[c] :
            /\ phase' = phase \/ \E step \in Step : phase' = [phase EXCEPT ![c] = step]
            /\ at' = at \/ at' = [at EXCEPT ![c] = s]
            /\ todo' = todo \/ todo' = [todo EXCEPT ![c] = Left(c, s)]
            /\ UNCHANGED <<loop, done, server, told>>
      BY <1>8, <2>2 DEF ExistsCommand, Go, Step
    <3>2. ASSUME NEW d \in Client \ {c} PROVE Frame(d)
      BY <3>1 DEF Frame, Local, AdapterTyped
    <3>3. QED
      BY <1>2, <3>1, <3>2
  <2>3. QED
    BY <2>1, <2>2
<1>9. CASE ScanCommand(c)
  <2>1. CASE Refused(c)
    BY <1>6, <1>9, <2>1 DEF Refused, ScanCommand
  <2>2. CASE ~Refused(c)
    <3>1. PICK s \in IF phase[c] = "scan" THEN {at[c]} ELSE todo[c] :
            Scan(c, s) /\ UNCHANGED <<loop, done, server, told>>
      BY <1>9, <2>2 DEF ScanCommand
    <3>2. /\ phase' = phase \/ \E step \in Step : phase' = [phase EXCEPT ![c] = step]
          /\ at' = [at EXCEPT ![c] = s]
          /\ todo' = todo \/ todo' = [todo EXCEPT ![c] = Left(c, s)]
      BY <3>1 DEF Scan, Go, Step
    <3>3. ASSUME NEW d \in Client \ {c} PROVE Frame(d)
      BY <3>1, <3>2 DEF Frame, Local, AdapterTyped
    <3>4. QED
      BY <1>2, <3>1, <3>3
  <2>3. QED
    BY <2>1, <2>2
<1>10. CASE HasKey(c)
  BY <1>6, <1>10 DEF HasKey
<1>11. CASE GetCommand(c)
  BY <1>6, <1>11 DEF GetCommand
<1>12. CASE Return(c)
  BY <1>6, <1>12 DEF Return
<1>13. CASE Disconnect(c)
  <2>1. phase' = [phase EXCEPT ![c] = "idle"] /\ UNCHANGED <<loop, todo, at, done, server, told>>
    BY <1>13 DEF Disconnect, Go
  <2>2. ASSUME NEW d \in Client \ {c} PROVE Frame(d)
    BY <2>1 DEF Frame, Local, AdapterTyped
  <2>3. QED
    BY <1>2, <2>1, <2>2
<1>14. QED
  BY <1>4, <1>5, <1>7, <1>8, <1>9, <1>10, <1>11, <1>12, <1>13 DEF ClientStep

-----------------------------------------------------------------------------
(* Each step keeps the invariant of each client                            *)

\* The histories of a read that goes on.
LEMMA ReadGoesOn ==
  ASSUME AdapterTyped, Watch, NEW d \in Client, op'[d] = op[d], op[d] \in Get,
         InCall(d), InCall(d)', Reading(d)
  PROVE  missing'[d] = missing[d] \cup {s \in Server : ~Finds(d, s)'}
BY DEF Watch, InCall

\* Whoever is left alone keeps its invariant.
LEMMA FrameKeeps ==
  ASSUME RedisAdapterAssumption, AdapterTyped, ServersStep, Watch, NEW d \in Client,
         ClientInv(d), Frame(d)
  PROVE  ClientInv(d)'
<1>1. /\ phase'[d] = phase[d] /\ op'[d] = op[d] /\ count'[d] = count[d] /\ at'[d] = at[d]
      /\ selected'[d] = selected[d] /\ todo'[d] = todo[d] /\ done'[d] = done[d]
  BY DEF Frame, Local
<1>2. Now(d)' = Now(d) /\ Now(d)[1] = d /\ (count[d] > 0 => Now(d) \in ClientCall)
  BY <1>1, NowIsCall DEF Now
<1>3. Between(d)'
  BY <1>1 DEF ClientInv, Between
<1>4. Answering(d)'
  BY <1>1, <1>2 DEF ClientInv, Answering, Frame, InCall
<1>5. Writing(d)'
  BY <1>1, <1>2 DEF ClientInv, Writing, Answering, Frame, InCall, Adds
<1>6. Reading(d)'
  <2>1. CASE InCall(d) /\ op[d] \in Get
    <3>1. missing'[d] = missing[d] \cup {s \in Server : ~Finds(d, s)'}
      BY <1>1, <2>1, ReadGoesOn DEF ClientInv, InCall
    <3>2. op[d] # "has_key"
      BY <2>1 DEF Get
    <3>3. QED
      BY <1>1, <2>1, <3>1, <3>2 DEF ClientInv, Reading
  <2>2. CASE ~(InCall(d) /\ op[d] \in Get)
    BY <1>1, <2>2 DEF ClientInv, Reading, InCall
  <2>3. QED
    BY <2>1, <2>2
<1>7. Expiring(d)'
  <2> SUFFICES ASSUME op[d] = "hset_expire", count[d] > 0, told'[Now(d)] \in {"nothing", "returned"},
                      NEW s \in Server, Now(d) \in fields'[s]
               PROVE  s \in expiring' \/ (phase[d] = "expire" /\ s = at[d])
    BY <1>1, <1>2 DEF Expiring
  <2>1. told'[Now(d)] = told[Now(d)] /\ Now(d) \in fields[s]
    BY <1>2 DEF Frame
  <2>2. QED
    BY <2>1 DEF ClientInv, Expiring, ServersStep
<1>8. QED
  BY <1>3, <1>4, <1>5, <1>6, <1>7 DEF ClientInv

\* The calls of c that are yet to come are left alone.
Untouched(c) ==
    \A k \in ClientCall \ {Now(c)}, t \in Server :
        stream'[t][k] = stream[t][k] /\ (k \in fields'[t] => k \in fields[t])

\* A call of c that ends: it may only have returned if its hash expires.
LEMMA EndKeeps ==
  ASSUME RedisAdapterAssumption, AdapterTyped, NEW c \in Client, Answering(c), InCall(c),
         NEW what \in {"returned", "none", "raised"}, Answer(c, what), UNCHANGED loop,
         Untouched(c),
         op[c] = "hset_expire" /\ what = "returned" =>
             \A s \in Server : Now(c) \in fields'[s] => s \in expiring'
  PROVE  ClientInv(c)'
<1>1. /\ op' = op /\ count' = count /\ selected' = selected /\ Now(c)' = Now(c)
      /\ count[c] > 0 /\ Now(c) \in ClientCall
  BY NowIsCall DEF loop, Now, Answering, InCall
<1>2. /\ told'[Now(c)] = what /\ \A k \in ClientCall : k # Now(c) => told'[k] = told[k]
      /\ phase'[c] = IF op[c] \in Send THEN "disconnect" ELSE "idle"
  BY <1>1 DEF Answer, Go, AdapterTyped
<1>3. ~InCall(c)' /\ phase'[c] # "expire"
  BY <1>2 DEF InCall
<1>4. Between(c)' /\ Writing(c)' /\ Reading(c)'
  BY <1>1, <1>2, <1>3 DEF Between, Writing, Reading
<1>5. Answering(c)'
  <2>1. ASSUME NEW k \in ClientCall, k[1] = c, k[2] > count[c]
        PROVE  /\ told'[k] = "nothing"
               /\ \A s \in Server : stream'[s][k] = 0 /\ k \notin fields'[s]
    <3>1. k # Now(c)
      <4>1. Now(c)[2] = count[c] /\ count[c] \in Nat
        BY DEF Now, AdapterTyped, RedisAdapterAssumption
      <4>2. QED
        BY <2>1, <4>1
    <3>2. QED
      BY <1>2, <2>1, <3>1 DEF Answering, Untouched
  <2>2. QED
    BY <1>1, <1>2, <1>3, <2>1 DEF Answering
<1>6. Expiring(c)'
  BY <1>1, <1>2, <1>3 DEF Expiring
<1>7. QED
  BY <1>4, <1>5, <1>6 DEF ClientInv

\* A call of c that goes on is not answered.
LEMMA GoesOn ==
  ASSUME RedisAdapterAssumption, AdapterTyped, NEW c \in Client, Answering(c), InCall(c),
         UNCHANGED <<loop, told>>, InCall(c)', Untouched(c)
  PROVE  Answering(c)'
<1>1. Now(c)' = Now(c) /\ count' = count /\ count[c] > 0
  BY DEF loop, Now, Answering, InCall
<1>2. ASSUME NEW k \in ClientCall, k[1] = c, k[2] > count[c]
      PROVE  /\ told'[k] = "nothing"
             /\ \A s \in Server : stream'[s][k] = 0 /\ k \notin fields'[s]
  <2>1. k # Now(c)
    <3>1. Now(c)[2] = count[c] /\ count[c] \in Nat
      BY DEF Now, AdapterTyped, RedisAdapterAssumption
    <3>2. QED
      BY <1>2, <3>1
  <2>2. QED
    BY <1>2, <2>1 DEF Answering, Untouched
<1>3. QED
  BY <1>1, <1>2 DEF Answering

\* A call that begins.
LEMMA BeginKeeps ==
  ASSUME RedisAdapterAssumption, AdapterTyped, NEW c \in Client, ClientInv(c),
         Begin(c), Watch
  PROVE  ClientInv(c)'
<1>1. PICK o \in Op, sel \in SUBSET Server :
        op' = [op EXCEPT ![c] = o] /\ selected' = [selected EXCEPT ![c] = sel]
        /\ todo' = [todo EXCEPT ![c] = sel]
  BY DEF Begin
<1>2. /\ count'[c] = count[c] + 1 /\ done'[c] = {} /\ phase'[c] = "command"
      /\ selected'[c] = todo'[c] /\ op'[c] \in Op
      /\ phase[c] = "idle" /\ UNCHANGED <<server, told>>
  BY <1>1 DEF Begin, Go, AdapterTyped
<1>3. count[c] \in Nat /\ count'[c] \in 1 .. MaxClientCalls
  BY <1>2 DEF Begin, AdapterTyped, RedisAdapterAssumption
<1> DEFINE k == <<c, count'[c]>>
<1>4. Now(c)' = k /\ k \in ClientCall /\ k[1] = c /\ k[2] > count[c]
  BY <1>2, <1>3 DEF Now, ClientCall
<1>5. told'[k] = "nothing" /\ \A s \in Server : stream'[s][k] = 0 /\ k \notin fields'[s]
  BY <1>2, <1>4 DEF ClientInv, Answering, server
<1>6. InCall(c)'
  BY <1>2 DEF InCall
<1>7. Between(c)'
  BY <1>2 DEF Between
<1>8. Answering(c)'
  <2>1. ASSUME NEW j \in ClientCall, j[1] = c, j[2] > count'[c]
        PROVE  /\ told'[j] = "nothing"
               /\ \A s \in Server : stream'[s][j] = 0 /\ j \notin fields'[s]
    <3>1. j[2] > count[c]
      BY <1>2, <1>3, <2>1 DEF ClientCall
    <3>2. QED
      BY <1>2, <2>1, <3>1 DEF ClientInv, Answering, server
  <2>2. QED
    BY <1>2, <1>3, <1>4, <1>5, <1>6, <2>1 DEF Answering
<1>9. Writing(c)'
  BY <1>2, <1>4, <1>5 DEF Writing
<1>10. Reading(c)'
  <2>1. op'[c] \in Get => missing'[c] = {s \in Server : ~Finds(c, s)'}
    BY <1>2 DEF Watch
  <2>2. QED
    BY <1>2, <2>1 DEF Reading
<1>11. Expiring(c)'
  BY <1>4, <1>5 DEF Expiring
<1>12. QED
  BY <1>7, <1>8, <1>9, <1>10, <1>11 DEF ClientInv

\* A command of a write that is answered.
LEMMA AnsweredKeeps ==
  ASSUME RedisAdapterAssumption, AdapterTyped, ServerInv, NEW c \in Client, ClientInv(c),
         phase[c] = "command", op[c] \in Loop, NEW s \in todo[c], Answered(c, s),
         UNCHANGED loop
  PROVE  /\ ClientInv(c)'
         /\ \A t \in Server : stream'[t][Now(c)] <= 1
<1>1. s \in Server /\ count[c] > 0 /\ Now(c) \in ClientCall /\ Now(c)' = Now(c)
  BY NowIsCall DEF AdapterTyped, ClientInv, Answering, loop, Now
<1>2. /\ Execute(c, s) /\ told' = told /\ op' = op /\ selected' = selected /\ count' = count
      /\ IF op[c] = "hset_expire"
         THEN phase'[c] = "expire" /\ at'[c] = s /\ todo'[c] = todo[c]
         ELSE phase'[c] = "command" /\ todo'[c] = todo[c] \ {s}
      /\ done'[c] = done[c] \cup {s}
  BY DEF Answered, Go, Left, Execute, loop, AdapterTyped
<1>3. InCall(c) /\ InCall(c)' /\ op[c] \notin Get /\ op[c] # "has_key"
  BY <1>2 DEF InCall, Loop, Get, Send
<1>4. Untouched(c)
  BY <1>1, <1>2, ExecuteFrame DEF Untouched
<1>5. Answering(c)'
  BY <1>2, <1>3, <1>4, GoesOn DEF ClientInv
<1>6. Between(c)'
  BY <1>2 DEF Between
<1>7. Reading(c)'
  BY <1>2, <1>3 DEF Reading
<1>8. /\ todo[c] \subseteq selected[c] /\ done[c] = selected[c] \ todo[c]
      /\ Adds(c) => \A t \in Server : stream[t][Now(c)] = IF t \in done[c] THEN 1 ELSE 0
  BY <1>3 DEF ClientInv, Writing
<1>9. ASSUME Adds(c), NEW t \in Server
      PROVE  stream'[t][Now(c)] = IF t \in done'[c] THEN 1 ELSE 0
  <2>1. stream[s] \in [ClientCall -> Nat] /\ stream \in [Server -> [ClientCall -> Nat]]
    BY <1>1 DEF AdapterTyped
  <2>2. stream' = [stream EXCEPT ![s] = [stream[s] EXCEPT ![Now(c)] = stream[s][Now(c)] + 1]]
    BY <1>2, <1>9 DEF Execute
  <2>3. CASE t = s
    <3>1. stream'[s][Now(c)] = stream[s][Now(c)] + 1
      BY <1>1, <2>1, <2>2
    <3>2. s \notin done[c]
      BY <1>8
    <3>3. QED
      BY <1>1, <1>2, <1>8, <1>9, <2>3, <3>1, <3>2
  <2>4. CASE t # s
    BY <1>2, <1>8, <1>9, <2>1, <2>2, <2>4
  <2>5. QED
    BY <2>3, <2>4
<1>10. Writing(c)'
  <2>1. todo'[c] \subseteq selected'[c]
    BY <1>2, <1>8
  <2>2. done'[c] = (selected'[c] \ todo'[c])
                       \cup (IF phase'[c] = "expire" THEN {at'[c]} ELSE {})
    BY <1>2, <1>8
  <2>3. Adds(c)' = Adds(c)
    BY <1>2 DEF Adds
  <2>4. QED
    BY <1>1, <1>9, <2>1, <2>2, <2>3 DEF Writing
<1>11. Expiring(c)'
  <2> SUFFICES ASSUME op[c] = "hset_expire", told[Now(c)] \in {"nothing", "returned"},
                      NEW t \in Server, Now(c) \in fields'[t]
               PROVE  t \in expiring' \/ t = s
    BY <1>1, <1>2 DEF Expiring
  <2>1. expiring' = expiring
    BY <1>1, <1>2 DEF Hashes, Execute, AdapterTyped
  <2>2. CASE t # s
    <3>1. fields'[t] = fields[t]
      BY <1>2, <2>2 DEF Execute, AdapterTyped
    <3>2. QED
      BY <1>1, <2>1, <3>1 DEF ClientInv, Expiring
  <2>3. QED
    BY <2>2
<1>12. ASSUME NEW t \in Server PROVE stream'[t][Now(c)] <= 1
  <2>1. CASE Adds(c)
    BY <1>9, <2>1
  <2>2. CASE ~Adds(c)
    BY <1>1, <1>2, <2>2 DEF Execute, ServerInv
  <2>3. QED
    BY <2>1, <2>2
<1>13. QED
  BY <1>5, <1>6, <1>7, <1>10, <1>11, <1>12 DEF ClientInv

\* A command of a write that ends the call, carried out or not.
LEMMA LostKeeps ==
  ASSUME RedisAdapterAssumption, AdapterTyped, ServerInv, NEW c \in Client, ClientInv(c),
         phase[c] = "command", op[c] \in Loop, NEW s \in todo[c], Lost(c, s),
         UNCHANGED loop
  PROVE  /\ ClientInv(c)'
         /\ \A t \in Server : stream'[t][Now(c)] <= 1
<1>1. s \in Server /\ count[c] > 0 /\ Now(c) \in ClientCall /\ InCall(c)
  BY NowIsCall DEF AdapterTyped, ClientInv, Answering, InCall
<1>2. Execute(c, s) /\ Answer(c, "raised")
  BY DEF Lost
<1>3. Untouched(c)
  BY <1>1, <1>2, ExecuteFrame DEF Untouched
<1>4. ClientInv(c)'
  BY <1>1, <1>2, <1>3, EndKeeps DEF ClientInv
<1>5. ASSUME NEW t \in Server PROVE stream'[t][Now(c)] <= 1
  <2>1. CASE Adds(c) /\ t = s
    <3>1. stream[s] \in [ClientCall -> Nat] /\ stream \in [Server -> [ClientCall -> Nat]]
      BY <1>1 DEF AdapterTyped
    <3>2. stream' = [stream EXCEPT ![s] = [stream[s] EXCEPT ![Now(c)] = stream[s][Now(c)] + 1]]
      BY <1>2, <2>1 DEF Execute
    <3>3. s \notin done[c] /\ stream[s][Now(c)] = 0
      BY <1>1, <2>1 DEF ClientInv, Writing
    <3>4. stream'[s][Now(c)] = stream[s][Now(c)] + 1
      BY <1>1, <3>1, <3>2
    <3>5. QED
      BY <2>1, <3>3, <3>4
  <2>2. CASE ~(Adds(c) /\ t = s)
    <3>1. stream'[t] = stream[t]
      BY <1>1, <1>2, <2>2 DEF Execute, AdapterTyped
    <3>2. QED
      BY <1>1, <3>1 DEF ServerInv
  <2>3. QED
    BY <2>1, <2>2
<1>6. QED
  BY <1>4, <1>5

\* A call that ends without a command carried out.  It may return only after it has
\* visited all servers, or when it is no write.
LEMMA AnswerKeeps ==
  ASSUME RedisAdapterAssumption, AdapterTyped, NEW c \in Client, ClientInv(c), InCall(c),
         NEW what \in {"returned", "none", "raised"}, Answer(c, what),
         UNCHANGED <<loop, server>>, what = "returned" => phase[c] # "expire"
  PROVE  ClientInv(c)'
<1>1. Untouched(c)
  BY DEF Untouched, server
<1>2. ASSUME op[c] = "hset_expire", what = "returned", NEW s \in Server, Now(c) \in fields'[s]
      PROVE  s \in expiring'
  BY <1>2 DEF ClientInv, Expiring, Answering, InCall, server
<1>3. QED
  BY <1>1, <1>2, EndKeeps DEF ClientInv

\* EXPIRE was carried out.
LEMMA ExpireKeeps ==
  ASSUME RedisAdapterAssumption, AdapterTyped, NEW c \in Client, ClientInv(c),
         ExpireCommand(c), ~Refused(c)
  PROVE  ClientInv(c)'
<1>1. /\ phase[c] = "expire" /\ ExpireKey(at[c])
      /\ UNCHANGED <<loop, at, done, value, fields, stream>>
      /\ \/ /\ todo' = [todo EXCEPT ![c] = Left(c, at[c])]
            /\ Go(c, "command")
            /\ UNCHANGED told
         \/ Answer(c, "raised") /\ UNCHANGED todo
  BY DEF ExpireCommand
<1>2. InCall(c) /\ Untouched(c)
  BY <1>1 DEF InCall, Untouched
<1>3. CASE Answer(c, "raised")
  BY <1>2, <1>1, <1>3, EndKeeps DEF ClientInv
<1>4. CASE /\ todo' = [todo EXCEPT ![c] = Left(c, at[c])]
           /\ Go(c, "command")
           /\ UNCHANGED told
  <2>1. /\ op' = op /\ selected' = selected /\ count' = count /\ Now(c)' = Now(c)
        /\ phase'[c] = "command" /\ todo'[c] = todo[c] \ {at[c]} /\ at[c] \in todo[c]
        /\ op[c] \in {"expire", "hset_expire"} /\ InCall(c)'
    BY <1>1, <1>4 DEF loop, Now, Go, Left, ClientInv, Between, AdapterTyped, InCall
  <2>2. op[c] \notin Get /\ op[c] # "has_key" /\ ~Adds(c)
    BY <2>1 DEF Get, Adds
  <2>3. Between(c)' /\ Reading(c)'
    BY <2>1, <2>2 DEF Between, Reading
  <2>4. Answering(c)'
    BY <1>1, <1>2, <1>4, <2>1, GoesOn DEF ClientInv
  <2>5. Writing(c)'
    BY <1>1, <1>2, <2>1, <2>2 DEF ClientInv, Writing, Adds
  <2>6. Expiring(c)'
    <3> SUFFICES ASSUME op[c] = "hset_expire", NEW s \in Server, Now(c) \in fields[s]
                 PROVE  s \in expiring'
      BY <1>1, <2>1 DEF Expiring
    <3>1. count[c] > 0 /\ told[Now(c)] = "nothing"
      BY <1>1, <1>2 DEF ClientInv, Answering
    <3>2. s \in expiring \/ s = at[c]
      BY <3>1 DEF ClientInv, Expiring
    <3>3. QED
      BY <1>1, <3>2 DEF ExpireKey
  <2>7. QED
    BY <2>3, <2>4, <2>5, <2>6 DEF ClientInv
<1>5. QED
  BY <1>1, <1>3, <1>4

\* EXISTS was answered: the key is missing there, or the second command is next.
LEMMA ExistsKeeps ==
  ASSUME RedisAdapterAssumption, AdapterTyped, NEW c \in Client, ClientInv(c),
         ExistsCommand(c), ~Refused(c), Watch
  PROVE  ClientInv(c)'
<1>1. /\ phase[c] = "command" /\ op[c] \in Get \cup {"expire"}
      /\ UNCHANGED <<loop, server, told>>
  BY DEF ExistsCommand
<1>2. PICK s \in todo[c] :
        IF Has(c, s)
        THEN /\ Go(c, IF op[c] \in Get THEN "get" ELSE "expire")
             /\ at' = [at EXCEPT ![c] = s]
             /\ UNCHANGED todo
        ELSE /\ todo' = [todo EXCEPT ![c] = Left(c, s)]
             /\ UNCHANGED <<phase, at>>
  BY DEF ExistsCommand
<1>3. /\ op' = op /\ selected' = selected /\ count' = count
      /\ IF Has(c, s)
         THEN /\ phase'[c] = (IF op[c] \in Get THEN "get" ELSE "expire")
              /\ at'[c] = s /\ todo'[c] = todo[c]
         ELSE phase'[c] = "command" /\ todo'[c] = todo[c] \ {s}
  BY <1>1, <1>2 DEF loop, Go, Left, AdapterTyped
<1>4. /\ InCall(c) /\ InCall(c)' /\ Untouched(c) /\ op[c] \notin Loop /\ op[c] # "has_key"
      /\ op[c] # "hset_expire"
  BY <1>1, <1>3 DEF InCall, Untouched, Loop, Get, Send, server
<1>5. Between(c)'
  BY <1>1, <1>3 DEF Between
<1>6. Answering(c)'
  BY <1>1, <1>4, GoesOn DEF ClientInv
<1>7. Writing(c)' /\ Expiring(c)'
  BY <1>3, <1>4 DEF Writing, Expiring
<1>8. Reading(c)'
  <2>1. CASE op[c] \in Get
    <3>1. missing'[c] = missing[c] \cup {t \in Server : ~Finds(c, t)'}
      BY <1>3, <1>4, <2>1, ReadGoesOn DEF ClientInv
    <3>2. s \in Server
      BY DEF AdapterTyped
    <3>3. ~Has(c, s) => s \in missing[c]
      BY <1>4, <2>1, <3>2 DEF ClientInv, Reading, Finds
    <3>4. QED
      BY <1>3, <1>4, <2>1, <3>1, <3>3 DEF ClientInv, Reading
  <2>2. CASE op[c] \notin Get
    BY <1>3, <1>4, <2>2 DEF Reading
  <2>3. QED
    BY <2>1, <2>2
<1>9. QED
  BY <1>5, <1>6, <1>7, <1>8 DEF ClientInv

\* SCAN was answered.
LEMMA ScanKeeps ==
  ASSUME RedisAdapterAssumption, AdapterTyped, NEW c \in Client, ClientInv(c),
         ScanCommand(c), ~Refused(c)
  PROVE  ClientInv(c)'
<1>1. op[c] = "keys" /\ InCall(c) /\ UNCHANGED <<loop, server, told>>
  BY DEF ScanCommand, InCall
<1>2. phase'[c] \in {"command", "scan"}
  BY DEF ScanCommand, Scan, Go, AdapterTyped
<1>3. op' = op /\ InCall(c)' /\ Untouched(c)
  BY <1>1, <1>2 DEF InCall, Untouched, loop, server
<1>4. op[c] \notin Loop \cup Get /\ op[c] # "has_key" /\ op[c] # "hset_expire"
  BY <1>1 DEF Loop, Get, Send
<1>5. Between(c)' /\ Writing(c)' /\ Reading(c)' /\ Expiring(c)'
  BY <1>1, <1>2, <1>3, <1>4 DEF Between, Writing, Reading, Expiring
<1>6. Answering(c)'
  BY <1>1, <1>3, GoesOn DEF ClientInv
<1>7. QED
  BY <1>5, <1>6 DEF ClientInv

\* The adapter of a send is disconnected; the call was answered before.
LEMMA DisconnectKeeps ==
  ASSUME NEW c \in Client, AdapterTyped, ClientInv(c), Disconnect(c)
  PROVE  ClientInv(c)'
<1>1. /\ phase[c] = "disconnect" /\ phase'[c] = "idle"
      /\ op' = op /\ count' = count /\ told' = told /\ Now(c)' = Now(c)
      /\ stream' = stream /\ fields' = fields
  BY DEF Disconnect, Go, loop, server, Now, AdapterTyped
<1>2. ~InCall(c) /\ ~InCall(c)'
  BY <1>1 DEF InCall
<1>3. Between(c)' /\ Writing(c)' /\ Reading(c)'
  BY <1>1, <1>2 DEF Between, Writing, Reading
<1>4. Answering(c)'
  BY <1>1, <1>2 DEF ClientInv, Answering
<1>5. Expiring(c)'
  BY <1>1 DEF ClientInv, Between, Expiring, Send
<1>6. QED
  BY <1>3, <1>4, <1>5 DEF ClientInv

\* Whatever step client c makes, its own invariant is kept, and no entry is added twice.
LEMMA OwnKeeps ==
  ASSUME RedisAdapterAssumption, AdapterTyped, ServerInv, NEW c \in Client, ClientInv(c),
         ClientStep(c), Watch
  PROVE  /\ ClientInv(c)'
         /\ \A s \in Server, k \in ClientCall : stream'[s][k] <= 1
<1>1. phase[c] # "idle" => Now(c) \in ClientCall
  BY NowIsCall DEF ClientInv, Answering
<1>2. stream' = stream => \A s \in Server, k \in ClientCall : stream'[s][k] <= 1
  BY DEF ServerInv
<1>3. ASSUME Refused(c), InCall(c), UNCHANGED loop
      PROVE  ClientInv(c)' /\ stream' = stream
  BY <1>3, AnswerKeeps DEF Refused, server
<1>4. CASE Begin(c)
  BY <1>2, <1>4, BeginKeeps DEF Begin, server
<1>5. CASE WriteCommand(c)
  <2>1. PICK s \in todo[c] : Answered(c, s) \/ Lost(c, s) \/ Refused(c)
    BY <1>5 DEF WriteCommand
  <2>2. phase[c] = "command" /\ op[c] \in Loop /\ UNCHANGED loop /\ InCall(c) /\ s \in Server
    BY <1>5, <2>1 DEF WriteCommand, InCall, AdapterTyped
  <2>3. CASE Refused(c)
    BY <1>2, <1>3, <2>2, <2>3
  <2>4. CASE Answered(c, s) \/ Lost(c, s)
    <3>1. Execute(c, s)
      BY <2>4 DEF Answered, Lost
    <3>2. \A k \in ClientCall \ {Now(c)}, t \in Server : stream'[t][k] = stream[t][k]
      BY <1>1, <2>2, <3>1, ExecuteFrame
    <3>3. ClientInv(c)' /\ \A t \in Server : stream'[t][Now(c)] <= 1
      BY <2>2, <2>4, AnsweredKeeps, LostKeeps
    <3>4. QED
      BY <3>2, <3>3 DEF ServerInv
  <2>5. QED
    BY <2>1, <2>3, <2>4
<1>6. CASE ExpireCommand(c)
  BY <1>2, <1>3, <1>6, ExpireKeeps DEF ExpireCommand, InCall
<1>7. CASE ExistsCommand(c)
  BY <1>2, <1>3, <1>7, ExistsKeeps DEF ExistsCommand, InCall, server
<1>8. CASE ScanCommand(c)
  BY <1>2, <1>3, <1>8, ScanKeeps DEF ScanCommand, InCall, server
<1>9. CASE HasKey(c)
  BY <1>2, <1>9, AnswerKeeps DEF HasKey, InCall, server
<1>10. CASE GetCommand(c)
  BY <1>2, <1>10, AnswerKeeps DEF GetCommand, InCall, server
<1>11. CASE Return(c)
  BY <1>2, <1>11, AnswerKeeps DEF Return, InCall, server
<1>12. CASE Disconnect(c)
  BY <1>2, <1>12, DisconnectKeeps DEF Disconnect, server
<1>13. QED
  BY <1>4, <1>5, <1>6, <1>7, <1>8, <1>9, <1>10, <1>11, <1>12 DEF ClientStep

-----------------------------------------------------------------------------
(* The invariant holds in every state                                      *)

\* Before any call.
LEMMA AdapterStarts == RedisAdapterAssumption /\ AdapterInit => AdapterInv
<1> SUFFICES ASSUME RedisAdapterAssumption, AdapterInit PROVE AdapterInv
  OBVIOUS
<1>1. AdapterTyped
  <2>1. (CHOOSE s \in Server : TRUE) \in Server
    BY DEF RedisAdapterAssumption
  <2>2. /\ phase \in [Client -> Step] /\ op \in [Client -> Op]
        /\ count \in [Client -> 0..MaxClientCalls]
        /\ selected \in [Client -> SUBSET Server] /\ todo \in [Client -> SUBSET Server]
        /\ at \in [Client -> Server] /\ done \in [Client -> SUBSET Server]
        /\ wanted \in [Client -> SUBSET ClientCall]
    BY <2>1 DEF AdapterInit, Step, Op, Get, RedisAdapterAssumption
  <2>3. conn \in [Adapter -> SUBSET Server]
    BY DEF AdapterInit, Adapter
  <2>4. /\ value \in [Server -> ClientCall \cup {NoCall}]
        /\ fields \in [Server -> SUBSET ClientCall] /\ expiring \subseteq Server
        /\ stream \in [Server -> [ClientCall -> Nat]]
    BY DEF AdapterInit
  <2>5. /\ missing \in [Client -> SUBSET Server]
        /\ found \in [Client -> SUBSET Key] /\ due \in [Client -> SUBSET Key]
        /\ told \in [ClientCall -> {"nothing", "returned", "none", "raised"}]
    BY DEF AdapterInit
  <2>6. QED
    BY <2>2, <2>3, <2>4, <2>5 DEF AdapterTyped
<1>2. ServerInv
  BY DEF AdapterInit, ServerInv
<1>3. ASSUME NEW c \in Client PROVE ClientInv(c)
  <2>1. phase[c] = "idle" /\ count[c] = 0 /\ ~InCall(c)
    BY DEF AdapterInit, InCall
  <2>2. Between(c) /\ Writing(c) /\ Reading(c) /\ Expiring(c)
    BY <2>1 DEF Between, Writing, Reading, Expiring
  <2>3. Answering(c)
    BY <2>1 DEF Answering, AdapterInit
  <2>4. QED
    BY <2>2, <2>3 DEF ClientInv
<1>4. QED
  BY <1>1, <1>2, <1>3 DEF AdapterInv

\* A connection that comes or goes and a key that expires are no step of a client.
LEMMA ServerFrame ==
  ASSUME AdapterTyped, ServerInv, NEW s \in Server,
         DisconnectName(s) \/ ConnectName(s) \/ ExpireString(s) \/ ExpireHash(s)
  PROVE  /\ ServersStep /\ \A d \in Client : Frame(d)
         /\ UNCHANGED <<phase, loop, todo, at, done, stream, found, told>>
         /\ conn' \in [Adapter -> SUBSET Server]
         /\ value' \in [Server -> ClientCall \cup {NoCall}]
         /\ fields' \in [Server -> SUBSET ClientCall] /\ expiring' \subseteq Server
<1> USE DEF loop, server
<1>1. UNCHANGED <<phase, loop, todo, at, done, stream, found, told>>
  BY DEF DisconnectName, ConnectName, ExpireString, ExpireHash
<1>2. /\ \/ UNCHANGED <<fields, expiring>>
         \/ expiring' = expiring \ {s} /\ fields' = [fields EXCEPT ![s] = {}]
      /\ value' \in {value, [value EXCEPT ![s] = NoCall]}
      /\ conn' \in {conn, [conn EXCEPT ![Shared] = conn[Shared] \ {s}],
                    [conn EXCEPT ![Shared] = conn[Shared] \cup {s}]}
  BY DEF DisconnectName, ConnectName, ExpireString, ExpireHash
<1>3. conn' \in [Adapter -> SUBSET Server] /\ value' \in [Server -> ClientCall \cup {NoCall}]
  <2>1. Shared \in Adapter /\ conn[Shared] \in SUBSET Server
    BY DEF AdapterTyped, Adapter
  <2>2. /\ [conn EXCEPT ![Shared] = conn[Shared] \ {s}] \in [Adapter -> SUBSET Server]
        /\ [conn EXCEPT ![Shared] = conn[Shared] \cup {s}] \in [Adapter -> SUBSET Server]
    BY <2>1 DEF AdapterTyped
  <2>3. [value EXCEPT ![s] = NoCall] \in [Server -> ClientCall \cup {NoCall}]
    BY DEF AdapterTyped
  <2>4. QED
    BY <1>2, <2>2, <2>3 DEF AdapterTyped
<1>4. fields' \in [Server -> SUBSET ClientCall] /\ expiring' \subseteq Server
  BY <1>2 DEF AdapterTyped
<1>5. ServersStep
  BY <1>2 DEF ServersStep, ServerInv, AdapterTyped
<1>6. ASSUME NEW d \in Client PROVE Frame(d)
  BY <1>1, <1>2 DEF Frame, Local, AdapterTyped
<1>7. QED
  BY <1>1, <1>3, <1>4, <1>5, <1>6

\* After any step.
LEMMA AdapterSteps ==
  RedisAdapterAssumption /\ AdapterInv /\ [AdapterNext]_adapterVars => AdapterInv'
<1> SUFFICES ASSUME RedisAdapterAssumption, AdapterInv, [AdapterNext]_adapterVars
             PROVE  AdapterInv'
  OBVIOUS
<1>1. AdapterTyped /\ ServerInv /\ \A c \in Client : ClientInv(c)
  BY DEF AdapterInv
<1>2. ASSUME NEW c \in Client, ClientStep(c), Watch PROVE AdapterInv'
  <2>1. Between(c) /\ Answering(c) /\ ClientInv(c)
    BY <1>1 DEF ClientInv
  <2>2. ServersStep /\ \A d \in Client \ {c} : Frame(d)
    BY <1>1, <1>2, <2>1, ClientFrame
  <2>3. ClientInv(c)' /\ \A s \in Server, k \in ClientCall : stream'[s][k] <= 1
    BY <1>1, <1>2, OwnKeeps
  <2>4. ASSUME NEW d \in Client PROVE ClientInv(d)'
    BY <1>1, <1>2, <2>2, <2>3, FrameKeeps
  <2>5. AdapterTyped'
    BY <1>1, <1>2, <2>1, ClientTyped, WatchTyped DEF AdapterTyped
  <2>6. ServerInv'
    BY <2>2, <2>3 DEF ServersStep, ServerInv
  <2>7. QED
    BY <2>4, <2>5, <2>6 DEF AdapterInv
<1>3. ASSUME NEW s \in Server, Watch,
             DisconnectName(s) \/ ConnectName(s) \/ ExpireString(s) \/ ExpireHash(s)
      PROVE  AdapterInv'
  <2>1. /\ ServersStep /\ \A d \in Client : Frame(d)
        /\ UNCHANGED <<phase, loop, todo, at, done, stream, found, told>>
        /\ conn' \in [Adapter -> SUBSET Server]
        /\ value' \in [Server -> ClientCall \cup {NoCall}]
        /\ fields' \in [Server -> SUBSET ClientCall] /\ expiring' \subseteq Server
    BY <1>1, <1>3, ServerFrame
  <2>2. \A d \in Client : ClientInv(d)'
    BY <1>1, <1>3, <2>1, FrameKeeps
  <2>3. phase' \in [Client -> Step]
    BY <1>1, <2>1 DEF AdapterTyped
  <2>4. AdapterTyped'
    BY <1>1, <1>3, <2>1, <2>3, WatchTyped DEF AdapterTyped, loop
  <2>5. ServerInv'
    BY <1>1, <2>1 DEF ServersStep, ServerInv
  <2>6. QED
    BY <2>2, <2>4, <2>5 DEF AdapterInv
<1>4. CASE UNCHANGED adapterVars
  BY <1>4 DEF adapterVars, loop, server, AdapterInv, AdapterTyped, ServerInv, ClientInv,
     Between, Answering, Writing, Reading, Expiring, InCall, Now, Adds, Has, Held, Finds
<1>5. QED
  BY <1>2, <1>3, <1>4 DEF AdapterNext

\* So it always holds.
LEMMA AdapterAlways == AdapterSpec => []AdapterInv
<1>1. RedisAdapterAssumption
  BY RedisAdapterAssumption
<1>2. QED
  BY <1>1, AdapterStarts, AdapterSteps, PTL DEF AdapterSpec

\* Every variable keeps its type; an entry is added at most once.
THEOREM AdapterTypes == AdapterSpec => []AdapterTypeOK
<1>1. AdapterInv => AdapterTypeOK
  <2> SUFFICES ASSUME AdapterInv PROVE AdapterTypeOK
    OBVIOUS
  <2>1. expiring \subseteq {s \in Server : fields[s] # {}}
    BY DEF AdapterInv, AdapterTyped, ServerInv
  <2>2. stream \in [Server -> [ClientCall -> 0..2]]
    <3>1. ASSUME NEW s \in Server PROVE stream[s] \in [ClientCall -> 0..2]
      <4>1. ASSUME NEW k \in ClientCall PROVE stream[s][k] \in 0..2
        <5>1. stream[s] \in [ClientCall -> Nat] /\ stream[s][k] <= 1
          BY DEF AdapterInv, AdapterTyped, ServerInv
        <5>2. QED
          BY <5>1
      <4>2. QED
        BY <4>1 DEF AdapterInv, AdapterTyped
    <3>2. QED
      BY <3>1 DEF AdapterInv, AdapterTyped
  <2>3. QED
    BY <2>1, <2>2 DEF AdapterInv, AdapterTyped, AdapterTypeOK
<1>2. QED
  BY <1>1, AdapterAlways, PTL

\* HashExpires: the fields that an hset_key with an expiry returned for are in a hash
\* that expires, however many clients delete it and write it again between HSET and
\* EXPIRE (redis.py:171-187).
THEOREM HashesExpire == AdapterSpec => []HashExpires
<1>1. AdapterInv => HashExpires
  BY DEF AdapterInv, ClientInv, Expiring, HashExpires
<1>2. QED
  BY <1>1, AdapterAlways, PTL

-----------------------------------------------------------------------------
(* How calls end                                                           *)

\* Whatever happens to the call of a client is a step of that client.
LEMMA OwnSteps ==
  ASSUME RedisAdapterAssumption, AdapterInv, [AdapterNext]_adapterVars, NEW c \in Client,
         ~ClientStep(c)
  PROVE  /\ told'[Now(c)] = told[Now(c)] \/ count[c] = 0
         /\ todo'[c] = todo[c]
<1>1. AdapterTyped /\ ServerInv /\ \A d \in Client : ClientInv(d)
  BY DEF AdapterInv
<1>2. Frame(c) \/ UNCHANGED adapterVars
  <2>1. ASSUME NEW d \in Client, ClientStep(d) PROVE Frame(c)
    BY <1>1, <2>1, ClientFrame DEF ClientInv
  <2>2. ASSUME NEW s \in Server,
               DisconnectName(s) \/ ConnectName(s) \/ ExpireString(s) \/ ExpireHash(s)
        PROVE  Frame(c)
    BY <1>1, <2>2, ServerFrame
  <2>3. QED
    BY <2>1, <2>2 DEF AdapterNext
<1>3. CASE UNCHANGED adapterVars
  BY <1>3 DEF adapterVars
<1>4. CASE Frame(c)
  <2>1. count[c] > 0 => Now(c) \in ClientCall
    BY <1>1, NowIsCall
  <2>2. Now(c)[1] = c /\ (count[c] = 0 \/ count[c] > 0)
    BY <1>1 DEF Now, AdapterTyped, RedisAdapterAssumption
  <2>3. QED
    BY <1>4, <2>1, <2>2 DEF Frame, Local
<1>5. QED
  BY <1>2, <1>3, <1>4

\* A call that does not raise ends after the last pass, in has_key, or with GET.
LEMMA Endings ==
  ASSUME RedisAdapterAssumption, AdapterInv, NEW c \in Client, ClientStep(c),
         NEW what \in {"returned", "none"}, Ends(c, what)
  PROVE  \/ /\ phase[c] = "command" /\ todo[c] = {}
            /\ what = IF op[c] \in Get \cup {"has_key"} THEN "none" ELSE "returned"
         \/ op[c] = "has_key" /\ what = "returned"
         \/ /\ phase[c] = "get" /\ what = IF Finds(c, at[c]) THEN "returned" ELSE "none"
<1>1. AdapterTyped /\ ClientInv(c)
  BY DEF AdapterInv
<1>2. Now(c) \in ClientCall /\ told'[Now(c)] = what /\ told'[Now(c)] # told[Now(c)]
  BY <1>1, NowIsCall DEF Ends
<1>3. \A how : Answer(c, how) => told'[Now(c)] = how
  BY <1>1, <1>2 DEF Answer, AdapterTyped
<1>4. ~Refused(c)
  BY <1>2, <1>3 DEF Refused
<1>5. \A s : ~Answered(c, s) /\ ~Lost(c, s)
  BY <1>2, <1>3 DEF Answered, Lost
<1>6. ~WriteCommand(c) /\ ~ExpireCommand(c) /\ ~ExistsCommand(c) /\ ~ScanCommand(c)
  BY <1>2, <1>3, <1>4, <1>5 DEF WriteCommand, ExpireCommand, ExistsCommand, ScanCommand
<1>7. ~Begin(c) /\ ~Disconnect(c)
  BY <1>2 DEF Begin, Disconnect
<1>8. CASE HasKey(c)
  BY <1>2, <1>3, <1>8 DEF HasKey
<1>9. CASE GetCommand(c)
  BY <1>2, <1>3, <1>9 DEF GetCommand
<1>10. CASE Return(c)
  BY <1>2, <1>3, <1>10 DEF Return
<1>11. QED
  BY <1>6, <1>7, <1>8, <1>9, <1>10 DEF ClientStep

\* ReturnedEverywhere: a write that returns was carried out on every server that it
\* selected, and an entry was added once on each, for any number of servers and
\* whatever fails (redis.py:72-141).
THEOREM WritesEverywhere == AdapterSpec => ReturnedEverywhere
<1>1. RedisAdapterAssumption /\ AdapterInv /\ [AdapterNext]_adapterVars =>
        (\A c \in Client : Ends(c, "returned") /\ op[c] \in Loop =>
            /\ done[c] = selected[c]
            /\ Adds(c) => \A s \in selected[c] : stream[s][Now(c)] = 1)
  <2> SUFFICES ASSUME RedisAdapterAssumption, AdapterInv, [AdapterNext]_adapterVars,
                      NEW c \in Client, Ends(c, "returned"), op[c] \in Loop
               PROVE  /\ done[c] = selected[c]
                      /\ Adds(c) => \A s \in selected[c] : stream[s][Now(c)] = 1
    OBVIOUS
  <2>1. ClientStep(c)
    BY OwnSteps DEF Ends
  <2>2. AdapterTyped /\ ClientInv(c)
    BY DEF AdapterInv
  <2>3. op[c] \notin Get /\ op[c] # "has_key"
    BY DEF Loop, Get, Send
  <2>4. phase[c] = "command" /\ todo[c] = {}
    BY <2>1, <2>2, <2>3, Endings DEF ClientInv, Between
  <2>5. /\ done[c] = selected[c]
        /\ Adds(c) => \A s \in Server : stream[s][Now(c)] = IF s \in done[c] THEN 1 ELSE 0
    BY <2>2, <2>4 DEF ClientInv, Writing, InCall
  <2>6. QED
    BY <2>2, <2>5 DEF AdapterTyped
<1>2. RedisAdapterAssumption
  BY RedisAdapterAssumption
<1>3. QED
  BY <1>1, <1>2, AdapterAlways, PTL DEF AdapterSpec, ReturnedEverywhere

\* MissIsReal: None is the answer only when what the call reads was missing on every
\* selected server at some time of the call, or on the one that reported the key: it went
\* away before GET, or its hash has no such field (redis.py:117-126, 189-198).
THEOREM MissesAreReal == AdapterSpec => MissIsReal
<1>1. RedisAdapterAssumption /\ AdapterInv /\ [AdapterNext]_adapterVars =>
        (\A c \in Client :
            Ends(c, "none") =>
               IF phase[c] = "get" THEN at[c] \in missing[c]
                                   ELSE selected[c] \subseteq missing[c])
  <2> SUFFICES ASSUME RedisAdapterAssumption, AdapterInv, [AdapterNext]_adapterVars,
                      NEW c \in Client, Ends(c, "none")
               PROVE  IF phase[c] = "get" THEN at[c] \in missing[c]
                                          ELSE selected[c] \subseteq missing[c]
    OBVIOUS
  <2>1. ClientStep(c)
    BY OwnSteps DEF Ends
  <2>2. AdapterTyped /\ ClientInv(c)
    BY DEF AdapterInv
  <2>3. CASE phase[c] = "get"
    BY <2>1, <2>2, <2>3, Endings DEF ClientInv, Between, Reading, InCall, AdapterTyped, Get
  <2>4. CASE phase[c] # "get"
    <3>1. phase[c] = "command" /\ todo[c] = {} /\ op[c] \in Get \cup {"has_key"}
      BY <2>1, <2>4, Endings
    <3>2. QED
      BY <2>2, <2>4, <3>1 DEF ClientInv, Reading, InCall
  <2>5. QED
    BY <2>3, <2>4
<1>2. RedisAdapterAssumption
  BY RedisAdapterAssumption
<1>3. QED
  BY <1>1, <1>2, AdapterAlways, PTL DEF AdapterSpec, MissIsReal

\* KeysComplete: what `keys` lists of a server includes every key that it held from
\* the first SCAN to the last, for any pages and any writes meanwhile
\* (redis.py:233-245).
THEOREM KeysAreComplete == AdapterSpec => KeysComplete
<1>1. RedisAdapterAssumption /\ AdapterInv /\ [AdapterNext]_adapterVars =>
        (\A c \in Client :
            op[c] = "keys" /\ phase'[c] = "command" /\ todo'[c] # todo[c]
                /\ phase[c] # "idle" =>
               (IF phase[c] = "scan" THEN due[c] ELSE Held(at[c])')
                   \subseteq found'[c])
  <2> SUFFICES ASSUME RedisAdapterAssumption, AdapterInv, [AdapterNext]_adapterVars,
                      NEW c \in Client, op[c] = "keys", phase'[c] = "command",
                      todo'[c] # todo[c], phase[c] # "idle"
               PROVE  (IF phase[c] = "scan" THEN due[c] ELSE Held(at[c])') \subseteq found'[c]
    OBVIOUS
  <2>1. ClientStep(c)
    BY OwnSteps
  <2>2. AdapterTyped /\ ClientInv(c)
    BY DEF AdapterInv
  <2>3. ScanCommand(c) /\ ~Refused(c)
    <3>1. ~Refused(c)
      BY DEF Refused
    <3>2. ~Begin(c) /\ ~WriteCommand(c) /\ ~ExistsCommand(c) /\ ~ExpireCommand(c)
      BY <2>2 DEF Begin, WriteCommand, ExistsCommand, ExpireCommand, Loop, Get, Send,
         ClientInv, Between
    <3>3. ~HasKey(c) /\ ~GetCommand(c) /\ ~Return(c) /\ ~Disconnect(c)
      BY DEF HasKey, GetCommand, Return, Disconnect
    <3>4. QED
      BY <2>1, <3>1, <3>2, <3>3 DEF ClientStep
  <2>4. PICK s \in IF phase[c] = "scan" THEN {at[c]} ELSE todo[c] :
          Scan(c, s) /\ UNCHANGED server
    BY <2>3 DEF ScanCommand
  <2>5. PICK page \in SUBSET Held(s), zero \in BOOLEAN :
          LET new == phase[c] = "command"
              all == IF new THEN page ELSE found[c] \cup page
          IN  /\ zero => (IF new THEN Held(s) ELSE due[c]) \subseteq all
              /\ found' = [found EXCEPT ![c] = all]
              /\ at' = [at EXCEPT ![c] = s]
              /\ IF LastPage(zero, page)
                 THEN Go(c, "command") /\ todo' = [todo EXCEPT ![c] = Left(c, s)]
                 ELSE Go(c, "scan") /\ UNCHANGED todo
    BY <2>4 DEF Scan
  <2>6. zero /\ at'[c] = s
    BY <2>2, <2>5 DEF LastPage, AdapterTyped
  <2>7. Held(at[c])' = Held(s)
    BY <2>4, <2>6 DEF Held, server
  <2>8. phase[c] \in {"command", "scan"}
    BY <2>3 DEF ScanCommand
  <2>9. QED
    BY <2>2, <2>5, <2>6, <2>7, <2>8 DEF AdapterTyped
<1>2. RedisAdapterAssumption
  BY RedisAdapterAssumption
<1>3. QED
  BY <1>1, <1>2, AdapterAlways, PTL DEF AdapterSpec, KeysComplete
==============================================================================
