------------------------ MODULE GlobalLifecycleProofs ------------------------
(***************************************************************************)
(* Proofs about GlobalLifecycle, for all registries, contexts and bounds:  *)
(* what a stop reaches, what is covered by a registered callback, what is  *)
(* never brought up, and who claims an instance.                           *)
(***************************************************************************)
EXTENDS GlobalLifecycle, FiniteSetTheorems, SequenceTheorems, TLAPS

-----------------------------------------------------------------------------
(* The inductive invariant, in named parts.                                *)

Frame == [next : Nat \ {0}, called : SUBSET (Instance \cup Watcher)]
AtType == {"new", "test", "claim", "init", "up", "rejected", "failed"}

\* Where the users of instances are.
InitType ==
    /\ doing \in [User -> Instance \cup {NoOne}]
    /\ place \in [User -> {"next", "init", "marked", "inited", "up"}]
    /\ conf \in [User -> SUBSET Instance]
    /\ \A u \in User : doing[u] = NoOne <=> place[u] = "next"

TypeInv ==
    /\ threads \in Seq(Instance \cup Watcher)
    /\ stops \in Seq(Frame)
    /\ loads \in 0 .. MaxLoads /\ (step = "parse" => loads \in Watcher)
    /\ watching \in {NoWatcher} \cup Watcher
    /\ step = "made" => watching \in Watcher
    /\ users \in [Instance -> SUBSET User]
    /\ owner \in [Instance -> Context \cup {NoOne}]
    /\ left \in [Context -> SUBSET Shared]
    /\ at \in [Context -> AtType]
    /\ known \in [Context -> SUBSET Shared]
    /\ initialized \subseteq Instance /\ done \subseteq Instance
    /\ crossed \subseteq Instance /\ halfway \subseteq Instance /\ asked \subseteq Instance

\* A frame of stop has called what its loop has passed.
FrameInv ==
    \A n \in 1 .. Len(stops), i \in 1 .. Len(threads) :
        i < stops[n].next => threads[i] \in stops[n].called

\* Whoever marks an instance that another has marked has crossed it.
CrossInv ==
    /\ \A u \in User : place[u] \in {"marked", "inited", "up"} => doing[u] \in initialized
    /\ \A u \in User : place[u] = "init" /\ doing[u] \in initialized => doing[u] \in crossed
    /\ \A u, v \in User : \A e \in Begun(u) \cap Begun(v) : u = v \/ e \in crossed

\* No init will change e any more, unless two users were in it at once.
Quiet(e) == e \in initialized /\ (e \in crossed \/ \A u \in User : e \notin Begun(u))

\* e is not enabled, for want of a configuration that does it.
Off(e) == e \notin asked \cup (halfway \cap Plugin)
Denied(e) == Off(e) => e \notin enabled

\* The instances of S are handled: what is enabled can be stopped, and is asked for.
Registered == ToSet(threads)
Stoppable(e) == e \in enabled => e \in Registered \cup crossed
Settled(e) == Quiet(e) /\ Denied(e) /\ Stoppable(e)
Covers(S) == \A e \in S : Settled(e)

\* Only where a configuration enables is anything enabled and used; but a plugin is
\* enabled from its constructor to the end of its first init.
DisabledInv ==
    /\ \A e \in Instance : Off(e) => users[e] = {} /\ e \notin started
    /\ \A e \in Instance \ Plugin : Denied(e)
    /\ \A e \in initialized : Denied(e) \/ \E u \in User : e \in Marked(u)
    /\ \A u \in User : place[u] \in {"inited", "up"} => Denied(doing[u])

\* What has been handled is covered, and the loops are passed in their order.
CoverInv ==
    /\ place[Config] # "next" => /\ step \in {"plugins", "inoplugs"}
                                 /\ doing[Config] \in Registry \ done
    /\ place[Config] \in {"inited", "up"} => Quiet(doing[Config])
    /\ step \in {"plugins", "inoplugs"} => Covers(done)
    /\ step = "inoplugs" => Covers(Plugin)
    /\ step \in {"loaded", "start", "serving", "down"} =>
           Covers(Plugin) /\ (watching = NoWatcher \/ Covers(InoPlug))
    /\ started \subseteq Registered \cup crossed

\* A watcher is registered before anything that follows in its own load.
WatcherInv ==
    /\ watching <= loads /\ (step = "parse" => watching # loads)
    /\ step \in {"watch", "plugins", "inoplugs"} /\ watching = loads => watching \in Registered
    /\ step = "inoplugs" => watching \in Registered
    /\ step \in {"loaded", "start", "serving", "down"} /\ watching # NoWatcher =>
           watching \in Registered

\* What a load has acquired and not registered.  The instance that it is about to
\* register does not count until the load fails.
Unregistered == Acquired \ Registered
hook == IF place[Config] = "up" THEN doing[Config] ELSE NoOne
load == {"parse", "made", "watch", "plugins", "inoplugs"}
AcquiredInv ==
    /\ IsFiniteSet(Unregistered)
    /\ Cardinality(Unregistered) <= loads
    /\ step \in load => Cardinality(Unregistered \ {hook}) <= loads - 1

\* Two contexts whose claims do not overlap: the later one will be rejected.
Past == {"init", "up", "failed"}
Entered(r) == at[r] \in {"test", "claim"} \cup Past
TooLate(r) == at[r] = "test" /\ left[r] = Shared /\ \A e \in Shared : owner[e] # NoOne
ClaimInv ==
    /\ \A r \in Context :
          /\ at[r] = "claim" => \A e \in Shared \ left[r] : owner[e] # NoOne
          /\ at[r] \in Past => \A e \in Shared : owner[e] # NoOne
          /\ known[r] \subseteq initialized
          /\ at[r] = "test" => known[r] \cap (Shared \ left[r]) = {}
          /\ at[r] \in {"claim"} \cup Past => known[r] = {}
    /\ \A r, q \in Context :
          r # q /\ Entered(r) /\ Entered(q) => {r, q} \in raced \/ TooLate(r) \/ TooLate(q)
    /\ \A e \in Instance : \A r \in users[e] \cap Context : at[r] \in Past

IInv ==
    /\ TypeInv /\ InitType /\ FrameInv
    /\ CrossInv /\ DisabledInv /\ CoverInv /\ WatcherInv
    /\ AcquiredInv /\ ClaimInv
-----------------------------------------------------------------------------
(* Types.                                                                  *)

\* The registered callbacks are those before, and the one that is appended.
LEMMA AppendRegisters ==
  ASSUME NEW S, threads \in Seq(S), NEW x \in S, threads' = Append(threads, x)
  PROVE  /\ threads' \in Seq(S) /\ Len(threads') = Len(threads) + 1
         /\ Registered' = Registered \cup {x}
         /\ \A i \in 1 .. Len(threads) : threads'[i] = threads[i]
<1>1. /\ threads' \in Seq(S) /\ Len(threads') = Len(threads) + 1
      /\ \A i \in 1 .. Len(threads) : threads'[i] = threads[i]
      /\ threads'[Len(threads) + 1] = x
  OBVIOUS
<1>2. DOMAIN threads = 1 .. Len(threads) /\ DOMAIN threads' = 1 .. Len(threads) + 1
  BY <1>1
<1>3. Registered' \subseteq Registered \cup {x}
  BY <1>1, <1>2 DEF Registered, ToSet
<1>4. Registered \cup {x} \subseteq Registered'
  BY <1>1, <1>2 DEF Registered, ToSet
<1>5. QED
  BY <1>1, <1>3, <1>4

\* The parts of the state start with their types.
LEMMA TypeInit == GlobalAssumption /\ Init => TypeInv /\ InitType
  BY DEF InitType, GlobalAssumption, Init, TypeInv, NoWatcher, AtType, Watcher

\* Every step of the launcher keeps the types.
LEMMA LauncherType ==
  ASSUME GlobalAssumption, TypeInv, InitType, LauncherStep PROVE TypeInv'
<1> USE GlobalAssumption DEF TypeInv, Go, Raise, Leave, Forget, frames, flags, claims, history
<1>0. Config \in User /\ NoOne \notin Instance
  BY DEF User, GlobalAssumption
<1>a. doing[Config] \in Instance \cup {NoOne} /\ Marked(Config) \subseteq Instance
      /\ (place[Config] # "next" => doing[Config] \in Instance)
  BY <1>0 DEF InitType, Marked
<1>1. CASE LoadConf
  BY <1>1 DEF LoadConf, GlobalAssumption, Watcher
<1>2. CASE MakeWatcher
  <2>1. loads \in Watcher
    BY <1>2 DEF MakeWatcher, At
  <2>2. QED
    BY <1>2, <2>1 DEF MakeWatcher
<1>3. CASE RegisterWatcher
  <2>1. watching \in Watcher
    BY <1>3 DEF RegisterWatcher, At
  <2>2. threads' \in Seq(Instance \cup Watcher)
    BY <1>3, <2>1 DEF RegisterWatcher
  <2>3. QED
    BY <1>3, <2>2 DEF RegisterWatcher
<1>4. CASE Prepare
  BY <1>4, <1>a DEF Prepare
<1>5. CASE EndOfLoop
  BY <1>5, <1>a DEF EndOfLoop
<1>6. CASE StartPlugins
  BY <1>6 DEF StartPlugins
<1>7. CASE StartWatcher
  BY <1>7 DEF StartWatcher
<1>8. ASSUME NEW e \in Instance, InitInstance(e) PROVE TypeInv'
  BY <1>8 DEF InitInstance, TestInit, loop
<1>9. CASE InitGoesOn
  BY <1>9, <1>a DEF InitGoesOn, InitStep, Mark, Configure, loop
<1>10. CASE InitRaises
  BY <1>10, <1>a DEF InitRaises
<1>11. ASSUME NEW e \in Instance, Skip(e) PROVE TypeInv'
  BY <1>11 DEF Skip
<1>12. CASE SafeInit
  <2>1. users' \in [Instance -> SUBSET User]
    BY <1>0, <1>12 DEF SafeInit, Using
  <2>2. QED
    BY <1>12, <1>a, <2>1 DEF SafeInit, Using, loop
<1>13. ASSUME NEW e \in Instance, Register(e) PROVE TypeInv'
  BY <1>13 DEF Register
<1>14. ASSUME NEW e \in Instance, AtStart(e) PROVE TypeInv'
  BY <1>14, <1>a DEF AtStart, inits
<1>15. QED
  BY <1>1, <1>2, <1>3, <1>4, <1>5, <1>6, <1>7, <1>8, <1>9, <1>10, <1>11, <1>12, <1>13, <1>14
     DEF LauncherStep

\* A frame that goes on, or learns what another has called, is a frame.
LEMMA CallingFrames ==
  ASSUME stops \in Seq(Frame), threads \in Seq(Instance \cup Watcher), CallbackReturns
  PROVE  /\ Len(stops) \in Nat /\ Len(stops) > 0
         /\ Innermost.next \in 1 .. Len(threads)
         /\ stops' \in Seq(Frame) /\ Len(stops') = Len(stops)
         /\ \A i \in 1 .. Len(stops) :
               /\ stops'[i].next = stops[i].next + (IF i = Len(stops) THEN 1 ELSE 0)
               /\ stops'[i].called = stops[i].called \cup {threads[Innermost.next]}
<1> DEFINE call == threads[Innermost.next]
           on(i) == [next |-> stops[i].next + (IF i = Len(stops) THEN 1 ELSE 0),
                     called |-> stops[i].called \cup {call}]
<1>1. Len(stops) \in Nat /\ Len(stops) > 0 /\ DOMAIN stops = 1 .. Len(stops)
  BY DEF CallbackReturns, Calling
<1>2. \A i \in 1 .. Len(stops) : stops[i] \in Frame
  BY <1>1
<1>3. Innermost.next \in 1 .. Len(threads)
  BY <1>1, <1>2 DEF Frame, Innermost, CallbackReturns, Calling
<1>4. call \in Instance \cup Watcher
  BY <1>3
<1>5. ASSUME NEW i \in 1 .. Len(stops) PROVE on(i) \in Frame
  <2>1. stops[i].next \in Nat \ {0} /\ stops[i].called \in SUBSET (Instance \cup Watcher)
    BY <1>2 DEF Frame
  <2>2. stops[i].next + (IF i = Len(stops) THEN 1 ELSE 0) \in Nat \ {0}
    BY <2>1
  <2>3. stops[i].called \cup {call} \in SUBSET (Instance \cup Watcher)
    BY <2>1, <1>4
  <2> HIDE DEF call
  <2>4. QED
    BY <2>2, <2>3 DEF Frame
<1>6. stops' = [i \in 1 .. Len(stops) |-> on(i)]
  BY <1>1 DEF CallbackReturns
<1> HIDE DEF on
<1>7. stops' \in [1 .. Len(stops) -> Frame]
  BY <1>5, <1>6
<1>8. stops' \in Seq(Frame) /\ Len(stops') = Len(stops)
  BY <1>1, <1>7
<1>9. ASSUME NEW i \in 1 .. Len(stops)
      PROVE /\ stops'[i].next = stops[i].next + (IF i = Len(stops) THEN 1 ELSE 0)
            /\ stops'[i].called = stops[i].called \cup {call}
  BY <1>6 DEF on
<1>10. QED
  BY <1>1, <1>3, <1>8, <1>9

\* So does every signal, and every step of a handler.
LEMMA StopType ==
  ASSUME GlobalAssumption, TypeInv, InitType, Signal \/ StopStep PROVE TypeInv'
<1> USE DEF TypeInv, Go, Leave, loop, flags, claims, history
<1>1. CASE Signal
  <2>1. [next |-> 1, called |-> {}] \in Frame
    BY DEF Frame
  <2>2. QED
    BY <1>1, <2>1 DEF Signal
<1>2. CASE CallbackReturns
  BY <1>2, CallingFrames DEF CallbackReturns, Remaining
<1>3. CASE CallbackRaises
  <2>1. Marked(Config) \subseteq Instance
    BY DEF InitType, Marked, User, GlobalAssumption
  <2>2. QED
    BY <1>3, <2>1 DEF CallbackRaises
<1>4. CASE StopReturns
  BY <1>4 DEF StopReturns, Front
<1>5. QED
  BY <1>1, <1>2, <1>3, <1>4 DEF StopStep

\* A context that handles an instance goes on in its loop or to the next one.
LEMMA HandledType ==
  ASSUME TypeInv, NEW r \in Context, NEW e \in Shared,
         NEW then \in {"claim", "init", "up"}, Handled(r, e, then)
  PROVE  /\ left' \in [Context -> SUBSET Shared]
         /\ at' \in [Context -> AtType]
<1>1. CASE left[r] = {e}
  BY <1>1 DEF Handled, Enter, TypeInv, AtType
<1>2. CASE left[r] # {e}
  BY <1>2 DEF Handled, Enter, TypeInv
<1>3. QED
  BY <1>1, <1>2

\* And every step of a context.
LEMMA ContextType ==
  ASSUME GlobalAssumption, TypeInv, InitType, NEW r \in Context, ContextStep(r) PROVE TypeInv'
<1> USE GlobalAssumption DEF TypeInv, GlobalAssumption, loop, frames, flags, history
<1>0. r \in User /\ Marked(r) \subseteq Instance
      /\ (place[r] # "next" => doing[r] \in Instance)
  BY DEF InitType, Marked, User
<1>1. CASE BeginTests(r)
  BY <1>1 DEF BeginTests, Enter, AtType
<1>2. ASSUME NEW e \in Shared, Test(r, e) PROVE TypeInv'
  <2>1. CASE Fresh(e)
    BY <1>2, <2>1, HandledType DEF Test
  <2>2. CASE ~Fresh(e)
    BY <1>2, <2>2 DEF Test, Enter, AtType
  <2>3. QED
    BY <2>1, <2>2
<1>3. ASSUME NEW e \in Shared, Claim(r, e) PROVE TypeInv'
  BY <1>3, HandledType DEF Claim
<1>4. ASSUME NEW e \in Shared, ContextInit(r, e) PROVE TypeInv'
  BY <1>4 DEF ContextInit, TestInit, claims
<1>5. CASE ContextInitGoesOn(r)
  BY <1>0, <1>5 DEF ContextInitGoesOn, InitStep, Mark, Configure, claims
<1>6. ASSUME Using(r) \/ UNCHANGED users PROVE users' \in [Instance -> SUBSET User]
  BY <1>0, <1>6 DEF Using
<1>7. ASSUME NEW e \in Shared, BringUp(r, e) PROVE TypeInv'
  <2>1. Using(r) \/ UNCHANGED users
    BY <1>7 DEF BringUp
  <2>2. UNCHANGED <<started, asked, crossed>>
    BY <1>7 DEF BringUp, Using
  <2>3. QED
    BY <1>6, <1>7, <2>1, <2>2, HandledType DEF BringUp
<1>8. CASE ContextFails(r)
  <2>1. Using(r) \/ UNCHANGED users
    BY <1>8 DEF ContextFails
  <2>2. UNCHANGED <<started, asked, crossed>>
    BY <1>8 DEF ContextFails, Using
  <2>3. QED
    BY <1>0, <1>6, <1>8, <2>1, <2>2 DEF ContextFails, Enter, Leave, AtType
<1>9. QED
  BY <1>1, <1>2, <1>3, <1>4, <1>5, <1>7, <1>8 DEF ContextStep

\* Every step keeps the types.
LEMMA TypeStep == ASSUME GlobalAssumption, TypeInv, InitType, [Next]_vars PROVE TypeInv'
<1>1. CASE UNCHANGED vars
  BY <1>1 DEF vars, loop, frames, flags, claims, history, TypeInv
<1>2. QED
  BY <1>1, LauncherType, StopType, ContextType DEF Next

-----------------------------------------------------------------------------
(* Where the users are: what a step may do to an init.                     *)

\* An instance is brought up, which its init does not see.
Rises(u) ==
    /\ place[u] = "inited" /\ Turn(u, doing[u], "up")
    /\ UNCHANGED <<flags, asked, halfway, crossed>>

\* A user goes on to the next instance, or leaves its call.
Leaves(u) ==
    /\ Turn(u, NoOne, "next") /\ halfway' = halfway \cup Marked(u)
    /\ UNCHANGED <<flags, asked, crossed>>

\* No init is touched.
Still == UNCHANGED <<doing, place, flags, asked, halfway, crossed>>

InitKind(u) ==
    \/ place[u] = "next" /\ \E e \in Instance : TestInit(u, e)
    \/ Mark(u) \/ Configure(u) \/ Rises(u) \/ Leaves(u)

\* A step of a context is one of these, of its own.
LEMMA ContextKinds ==
  ASSUME GlobalAssumption, InitType, NEW r \in Context, ContextStep(r)
  PROVE  r \in User /\ (Still \/ InitKind(r))
<1> USE DEF Still, inits, flags, history, claims
<1>0. r \in User
  BY DEF User
<1>a. ASSUME place[r] # "marked", Turn(r, NoOne, "next"),
             UNCHANGED <<flags, asked, halfway, crossed>>
      PROVE  Leaves(r)
  BY <1>a DEF Leaves, Marked
<1>1. BeginTests(r) => Still
  BY DEF BeginTests
<1>2. \A e \in Shared : Test(r, e) \/ Claim(r, e) => Still
  BY DEF Test, Claim
<1>3. ASSUME NEW e \in Shared, ContextInit(r, e) PROVE InitKind(r)
  BY <1>0, <1>3 DEF ContextInit, InitKind, InitType, GlobalAssumption
<1>4. ContextInitGoesOn(r) => InitKind(r)
  BY DEF ContextInitGoesOn, InitStep, InitKind
<1>5. ASSUME NEW e \in Shared, BringUp(r, e) PROVE InitKind(r)
  <2>1. place[r] # "marked" /\ Turn(r, NoOne, "next")
    BY <1>5 DEF BringUp, Forget
  <2>2. UNCHANGED <<flags, asked, halfway, crossed>>
    BY <1>5 DEF BringUp, Using
  <2>3. QED
    BY <1>a, <1>0, <2>1, <2>2 DEF InitKind
<1>6. CASE ContextFails(r)
  <2>1. UNCHANGED <<flags, asked, crossed>>
    BY <1>6 DEF ContextFails, Using
  <2>2. QED
    BY <1>0, <1>6, <2>1 DEF ContextFails, Leave, Forget, Leaves, InitKind
<1>7. QED
  BY <1>0, <1>1, <1>2, <1>3, <1>4, <1>5, <1>6 DEF ContextStep

\* Every step is one of these.
LEMMA Kinds ==
  ASSUME GlobalAssumption, InitType, [Next]_vars
  PROVE  Still \/ \E u \in User : InitKind(u)
<1> USE DEF Still, inits, flags, history, claims
<1>0. Config \in User /\ \A r \in Context : r \in User
  BY DEF User
<1>1. ASSUME NEW u \in User, place[u] # "marked" PROVE Marked(u) = {}
  BY <1>1 DEF Marked
<1>2. ASSUME NEW u \in User, place[u] # "marked", Turn(u, NoOne, "next"),
             UNCHANGED <<flags, asked, halfway, crossed>>
      PROVE  Leaves(u)
  BY <1>1, <1>2 DEF Leaves
<1>3. CASE LauncherStep
  <2>1. CASE LoadConf \/ MakeWatcher \/ RegisterWatcher \/ StartPlugins \/ StartWatcher
    BY <2>1 DEF LoadConf, MakeWatcher, RegisterWatcher, StartPlugins, StartWatcher
  <2>2. ASSUME Raise, UNCHANGED <<flags, asked, crossed>> PROVE Leaves(Config)
    BY <2>2 DEF Raise, Leave, Forget, Leaves
  <2>3. CASE Prepare
    BY <1>0, <2>2, <2>3 DEF Prepare, InitKind
  <2>4. CASE EndOfLoop
    <3>1. place[Config] # "marked"
      BY <1>0, <2>4 DEF EndOfLoop, InitType
    <3>2. QED
      BY <1>0, <1>2, <2>2, <2>4, <3>1 DEF EndOfLoop, InitKind, Forget
  <2>5. ASSUME NEW e \in Instance, InitInstance(e) PROVE InitKind(Config)
    BY <1>0, <2>5 DEF InitInstance, InitKind, InitType
  <2>6. CASE InitGoesOn
    BY <1>0, <2>6 DEF InitGoesOn, InitStep, InitKind
  <2>7. CASE InitRaises
    BY <1>0, <2>2, <2>7 DEF InitRaises, InitKind
  <2>8. ASSUME NEW e \in Instance, Skip(e) PROVE InitKind(Config)
    BY <1>0, <1>2, <2>8 DEF Skip, InitKind
  <2>9. CASE SafeInit
    BY <1>0, <2>2, <2>9 DEF SafeInit, Using, InitKind, Rises
  <2>10. ASSUME NEW e \in Instance, Register(e) PROVE InitKind(Config)
    BY <1>0, <1>2, <2>10 DEF Register, InitKind
  <2>11. ASSUME NEW e \in Instance, AtStart(e) PROVE Still \/ InitKind(Config)
    BY <1>0, <2>2, <2>11 DEF AtStart, InitKind
  <2>12. QED
    BY <1>0, <1>3, <2>1, <2>3, <2>4, <2>5, <2>6, <2>7, <2>8, <2>9, <2>10, <2>11 DEF LauncherStep
<1>4. CASE Signal \/ CallbackReturns \/ StopReturns
  BY <1>4 DEF Signal, CallbackReturns, StopReturns
<1>5. CASE CallbackRaises
  BY <1>0, <1>5 DEF CallbackRaises, Leave, Forget, Leaves, InitKind
<1>6. ASSUME NEW r \in Context, ContextStep(r) PROVE r \in User /\ (Still \/ InitKind(r))
  BY <1>6, ContextKinds
<1>7. CASE UNCHANGED vars
  BY <1>7 DEF vars
<1>8. QED
  BY <1>0, <1>3, <1>4, <1>5, <1>6, <1>7 DEF Next, StopStep

\* What a step may do to one user's place, and to no other's.
LEMMA OneMoves ==
  ASSUME InitType, NEW u \in User, InitKind(u)
  PROVE  \A v \in User \ {u} : /\ doing'[v] = doing[v] /\ place'[v] = place[v]
                               /\ Begun(v)' = Begun(v) /\ Marked(v)' = Marked(v)
<1>1. \E e, where : Turn(u, e, where)
  BY DEF InitKind, TestInit, Mark, Configure, Rises, Leaves
<1>2. \A v \in User \ {u} : doing'[v] = doing[v] /\ place'[v] = place[v]
  BY <1>1 DEF Turn, InitType
<1>3. QED
  BY <1>2 DEF Begun, Marked

\* Configurations are read for a load, and by a context that has claimed.
LEMMA ConfType ==
  ASSUME GlobalAssumption, InitType, [Next]_vars PROVE conf' \in [User -> SUBSET Instance]
<1> USE DEF InitType, inits, flags, history, claims
<1>1. CASE UNCHANGED conf
  BY <1>1
<1>2. ASSUME NEW u \in User, Forget(u) PROVE conf' \in [User -> SUBSET Instance]
  BY <1>2 DEF Forget
<1>3. Config \in User /\ \A r \in Context : r \in User
  BY DEF User
<1>4. CASE Prepare
  BY <1>2, <1>3, <1>4 DEF Prepare, Raise, Leave
<1>5. CASE LauncherStep
  <2>1. LoadConf \/ MakeWatcher \/ RegisterWatcher \/ StartPlugins \/ StartWatcher
          \/ InitGoesOn => UNCHANGED conf
    BY DEF LoadConf, MakeWatcher, RegisterWatcher, StartPlugins, StartWatcher, InitGoesOn,
           InitStep, Mark, Configure
  <2>2. \A e \in Instance : InitInstance(e) \/ Skip(e) \/ Register(e) => UNCHANGED conf
    BY DEF InitInstance, TestInit, Skip, Register
  <2>3. EndOfLoop \/ InitRaises \/ SafeInit => UNCHANGED conf \/ Forget(Config)
    BY DEF EndOfLoop, InitRaises, SafeInit, Raise, Leave
  <2>4. \A e \in Instance : AtStart(e) => UNCHANGED conf \/ Forget(Config)
    BY DEF AtStart, Raise, Leave
  <2>5. QED
    BY <1>1, <1>2, <1>3, <1>4, <1>5, <2>1, <2>2, <2>3, <2>4 DEF LauncherStep
<1>6. CASE Signal \/ StopStep
  BY <1>1, <1>2, <1>3, <1>6 DEF Signal, StopStep, CallbackReturns, CallbackRaises, StopReturns, Leave
<1>7. ASSUME NEW r \in Context, ContextStep(r) PROVE conf' \in [User -> SUBSET Instance]
  <2>1. CASE \E e \in Shared : Claim(r, e)
    <3>1. PICK e \in Shared : Claim(r, e)
      BY <2>1
    <3>2. PICK c \in SUBSET Shared : conf' = [conf EXCEPT ![r] = IF at'[r] = "init" THEN c ELSE {}]
      BY <3>1 DEF Claim
    <3>3. (IF at'[r] = "init" THEN c ELSE {}) \in SUBSET Instance
      BY DEF GlobalAssumption
    <3>4. QED
      BY <1>3, <3>2, <3>3
  <2>2. BeginTests(r) \/ ContextInitGoesOn(r) => UNCHANGED conf
    BY DEF BeginTests, ContextInitGoesOn, InitStep, Mark, Configure
  <2>3. \A e \in Shared : Test(r, e) \/ ContextInit(r, e) => UNCHANGED conf
    BY DEF Test, ContextInit, TestInit
  <2>4. \A e \in Shared : BringUp(r, e) => UNCHANGED conf \/ Forget(r)
    BY DEF BringUp
  <2>5. ContextFails(r) => Forget(r)
    BY DEF ContextFails, Leave
  <2>6. QED
    BY <1>1, <1>2, <1>3, <1>7, <2>1, <2>2, <2>3, <2>4, <2>5 DEF ContextStep
<1>8. CASE UNCHANGED vars
  BY <1>1, <1>8 DEF vars
<1>9. QED
  BY <1>5, <1>6, <1>7, <1>8 DEF Next

\* A user is at an instance, or between two.
LEMMA InitTypeStep == ASSUME GlobalAssumption, InitType, [Next]_vars PROVE InitType'
<1>1. conf' \in [User -> SUBSET Instance]
  BY ConfType
<1>2. CASE Still
  BY <1>1, <1>2 DEF Still, InitType
<1>3. ASSUME NEW u \in User, InitKind(u) PROVE InitType'
  <2>0. NoOne \notin Instance
    BY DEF GlobalAssumption
  <2>1. PICK e \in Instance \cup {NoOne}, where \in {"next", "init", "marked", "inited", "up"} :
            Turn(u, e, where) /\ (e = NoOne <=> where = "next")
    <3>1. CASE \E e \in Instance : TestInit(u, e)
      BY <2>0, <3>1 DEF TestInit
    <3>2. CASE Mark(u) \/ Configure(u) \/ Rises(u)
      <4>1. doing[u] # NoOne /\ doing[u] \in Instance \cup {NoOne}
        BY <3>2 DEF Mark, Configure, Rises, InitType
      <4>2. Turn(u, doing[u], "marked") \/ Turn(u, doing[u], "inited") \/ Turn(u, doing[u], "up")
        BY <3>2 DEF Mark, Configure, Rises
      <4>3. QED
        BY <4>1, <4>2
    <3>3. CASE Leaves(u)
      BY <3>3 DEF Leaves
    <3>4. QED
      BY <1>3, <3>1, <3>2, <3>3 DEF InitKind
  <2>2. /\ doing' \in [User -> Instance \cup {NoOne}]
        /\ place' \in [User -> {"next", "init", "marked", "inited", "up"}]
    BY <2>1 DEF Turn, InitType
  <2>3. \A v \in User : doing'[v] = NoOne <=> place'[v] = "next"
    BY <2>1 DEF Turn, InitType
  <2>4. QED
    BY <1>1, <2>2, <2>3 DEF InitType
<1>4. QED
  BY <1>2, <1>3, Kinds

-----------------------------------------------------------------------------
(* What a stop reaches.                                                    *)

\* All but the last element of a sequence.
LEMMA FrontIsPrefix ==
  ASSUME NEW S, NEW s \in Seq(S), s # <<>>
  PROVE  /\ Len(Front(s)) = Len(s) - 1
         /\ \A n \in 1 .. Len(s) - 1 : Front(s)[n] = s[n]
<1> DEFINE last == Len(s) - 1
<1>1. last \in Nat /\ \A n \in 1 .. last : s[n] \in S
  OBVIOUS
<1>2. Front(s) = SubSeq(s, 1, last)
  BY DEF Front
<1> HIDE DEF last
<1>3. /\ Len(SubSeq(s, 1, last)) = (IF 1 <= last THEN last - 1 + 1 ELSE 0)
      /\ \A n \in 1 .. last - 1 + 1 : SubSeq(s, 1, last)[n] = s[1 + n - 1]
  <2>1. 1 \in Int /\ last \in Int
    BY <1>1
  <2>2. QED
    BY <1>1, <2>1, SubSeqProperties
<1> DEFINE front == Front(s)
<1>4. /\ Len(front) = (IF 1 <= last THEN last - 1 + 1 ELSE 0)
      /\ \A n \in 1 .. last - 1 + 1 : front[n] = s[1 + n - 1]
  BY <1>2, <1>3, Zenon
<1> HIDE DEF front
<1>5. Len(front) = last
  BY <1>1, <1>4
<1>6. ASSUME NEW n \in 1 .. last PROVE front[n] = s[n]
  <2>1. n \in 1 .. last - 1 + 1 /\ 1 + n - 1 = n
    BY <1>1
  <2>2. QED
    BY <1>4, <2>1
<1>7. QED
  BY <1>5, <1>6, Zenon DEF last, front

\* No handler runs when a callback is registered: a frame of stop never sees the
\* list change, and what it passes it has called.
LEMMA FrameStep == ASSUME TypeInv, FrameInv, [Next]_vars PROVE FrameInv'
<1> USE DEF TypeInv, FrameInv
<1>1. CASE UNCHANGED <<threads, stops>>
  BY <1>1
<1>2. CASE stops = <<>> /\ stops' = stops
  BY <1>2
<1>3. CASE Signal
  <2>1. stops' = Append(stops, [next |-> 1, called |-> {}]) /\ threads' = threads
    BY <1>3 DEF Signal
  <2>2. /\ Len(stops') = Len(stops) + 1 /\ Len(stops) \in Nat
        /\ stops'[Len(stops) + 1] = [next |-> 1, called |-> {}]
        /\ \A n \in 1 .. Len(stops) : stops'[n] = stops[n]
    BY <2>1
  <2>3. QED
    BY <2>1, <2>2
<1>4. CASE CallbackReturns
  <2> TAKE n \in 1 .. Len(stops'), i \in 1 .. Len(threads')
  <2> HAVE i < stops'[n].next
  <2>1. threads' = threads
    BY <1>4 DEF CallbackReturns, Remaining
  <2>2. /\ n \in 1 .. Len(stops) /\ i \in 1 .. Len(threads)
        /\ stops'[n].next = stops[n].next + (IF n = Len(stops) THEN 1 ELSE 0)
        /\ stops'[n].called = stops[n].called \cup {threads[Innermost.next]}
    BY <1>4, <2>1, CallingFrames
  <2>3. stops[n].next \in Nat
    <3>1. stops[n] \in Frame
      BY <2>2
    <3>2. QED
      BY <3>1 DEF Frame
  <2>4. CASE i < stops[n].next
    BY <2>1, <2>2, <2>4
  <2>5. CASE n = Len(stops) /\ i = stops[n].next
    BY <2>1, <2>2, <2>5 DEF Innermost
  <2>6. QED
    BY <2>2, <2>3, <2>4, <2>5
<1>5. CASE CallbackRaises
  BY <1>5 DEF CallbackRaises
<1>6. CASE StopReturns
  <2>1. stops' = Front(stops) /\ threads' = threads /\ stops # <<>>
    BY <1>6 DEF StopReturns
  <2>2. Len(stops) \in Nat \ {0} /\ stops' = SubSeq(stops, 1, Len(stops) - 1)
    BY <2>1 DEF Front
  <2>3. Len(stops') = Len(stops) - 1 /\ \A n \in 1 .. Len(stops) - 1 : stops'[n] = stops[n]
    BY <2>1, FrontIsPrefix
  <2>4. ASSUME NEW n \in 1 .. Len(stops'), NEW i \in 1 .. Len(threads'), i < stops'[n].next
        PROVE  threads'[i] \in stops'[n].called
    <3>1. n \in 1 .. Len(stops) /\ i \in 1 .. Len(threads) /\ stops'[n] = stops[n]
      BY <2>1, <2>2, <2>3
    <3>2. QED
      BY <2>1, <2>4, <3>1
  <2>5. QED
    BY <2>4
<1>7. CASE LauncherStep
  <2>1. RegisterWatcher => stops = <<>> /\ stops' = stops
    BY DEF RegisterWatcher, At, frames
  <2>2. \A e \in Instance : Register(e) => stops = <<>> /\ stops' = stops
    BY DEF Register, Loading, frames
  <2>3. LoadConf \/ MakeWatcher \/ Prepare \/ EndOfLoop \/ StartPlugins \/ StartWatcher
          \/ InitGoesOn \/ InitRaises \/ SafeInit => UNCHANGED <<threads, stops>>
    BY DEF LoadConf, MakeWatcher, Prepare, EndOfLoop, StartPlugins, StartWatcher, InitGoesOn,
           InitRaises, SafeInit, frames
  <2>4. \A e \in Instance : InitInstance(e) \/ Skip(e) \/ AtStart(e) => UNCHANGED <<threads, stops>>
    BY DEF InitInstance, Skip, AtStart, frames
  <2>5. QED
    BY <1>1, <1>2, <1>7, <2>1, <2>2, <2>3, <2>4 DEF LauncherStep
<1>8. CASE \E r \in Context : ContextStep(r)
  <2>1. UNCHANGED <<threads, stops>>
    BY <1>8 DEF ContextStep, BeginTests, Test, Claim, ContextInit, ContextInitGoesOn, BringUp,
                ContextFails, frames
  <2>2. QED
    BY <1>1, <2>1
<1>9. CASE UNCHANGED vars
  BY <1>1, <1>9 DEF vars, frames
<1>10. QED
  BY <1>3, <1>4, <1>5, <1>6, <1>7, <1>8, <1>9 DEF Next, StopStep

\* A frame that ends has called what is registered, up to where a callback raised.
LEMMA FrameEnds ==
  ASSUME TypeInv, FrameInv, [Next]_vars, NEW n \in DOMAIN stops, n > Len(stops'),
         NEW i \in DOMAIN threads
  PROVE  threads[i] \in stops[n].called \/ (Calling /\ i >= stops[n].next)
<1>1. /\ Len(stops) \in Nat /\ n \in 1 .. Len(stops) /\ stops[n].next \in Nat
      /\ Len(threads) \in Nat /\ i \in 1 .. Len(threads)
  <2>1. /\ Len(stops) \in Nat /\ n \in 1 .. Len(stops) /\ stops[n] \in Frame
        /\ Len(threads) \in Nat /\ i \in 1 .. Len(threads)
    BY DEF TypeInv
  <2>2. QED
    BY <2>1 DEF Frame
<1>2. CASE Calling
  BY <1>1, <1>2 DEF FrameInv
<1>3. CASE ~Calling
  <2>1. ~CallbackReturns /\ ~CallbackRaises
    BY <1>3 DEF CallbackReturns, CallbackRaises
  <2>2. UNCHANGED vars \/ LauncherStep \/ (\E r \in Context : ContextStep(r)) => stops' = stops
    BY DEF vars, frames, LauncherStep, LoadConf, MakeWatcher, RegisterWatcher, Prepare, EndOfLoop,
           StartPlugins, StartWatcher, InitInstance, InitGoesOn, InitRaises, Skip, SafeInit,
           Register, AtStart, ContextStep, BeginTests, Test, Claim, ContextInit,
           ContextInitGoesOn, BringUp, ContextFails
  <2>3. Signal => Len(stops') = Len(stops) + 1
    BY DEF Signal, TypeInv
  <2>4. StopReturns
    BY <1>1, <2>1, <2>2, <2>3 DEF Next, StopStep
  <2>5. n = Len(stops)
    BY <1>1, <2>4 DEF StopReturns, Front, TypeInv
  <2>6. Innermost.next > Len(threads)
    BY <1>1, <1>3, <2>5, <2>4 DEF StopReturns, Calling, Innermost, TypeInv
  <2>7. QED
    BY <1>1, <2>5, <2>6 DEF FrameInv, Innermost, TypeInv
<1>4. QED
  BY <1>2, <1>3

\* However signals nest, a stop that ends has called every registered callback that
\* is not behind one that raised (dwho.config.stop).
THEOREM StopReachesAll == Spec => StopReaches
<1>1. Init => TypeInv /\ InitType /\ FrameInv
  BY TypeInit, GlobalAssumption DEF Init, FrameInv
<1>2. TypeInv /\ InitType /\ FrameInv /\ [Next]_vars => (TypeInv /\ InitType /\ FrameInv)'
  BY TypeStep, InitTypeStep, FrameStep, GlobalAssumption
<1>3. TypeInv /\ FrameInv /\ [Next]_vars =>
        [\A n \in DOMAIN stops : n > Len(stops') =>
            \A i \in DOMAIN threads :
               \/ threads[i] \in stops[n].called
               \/ Calling /\ i >= stops[n].next]_vars
  BY FrameEnds
<1>4. QED
  BY <1>1, <1>2, <1>3, PTL DEF Spec, StopReaches

-----------------------------------------------------------------------------
(* What a step leaves as it is, of an instance that no init will change.   *)

\* Whoever marks an instance that another has marked has crossed it, at every step.
LEMMA CrossStep ==
  ASSUME GlobalAssumption, TypeInv, InitType, CrossInv, [Next]_vars PROVE CrossInv'
<1>1. CASE Still
  BY <1>1 DEF Still, CrossInv, Begun, Marked, flags
<1>2. ASSUME NEW u \in User, InitKind(u) PROVE CrossInv'
  <2>0. /\ \A v \in User \ {u} : /\ doing'[v] = doing[v] /\ place'[v] = place[v]
                                 /\ Begun(v)' = Begun(v)
        /\ \A v \in User : place[v] # "next" => doing[v] \in Instance
    BY <1>2, OneMoves DEF InitType
  <2>1. initialized \subseteq initialized' /\ crossed \subseteq crossed'
    <3>1. \A e \in Instance : TestInit(u, e) => initialized' = initialized /\ crossed \subseteq crossed'
      BY DEF TestInit, flags
    <3>2. Mark(u) => initialized \subseteq initialized' /\ crossed' = crossed
      BY DEF Mark, history
    <3>3. Configure(u) \/ Rises(u) \/ Leaves(u) => initialized' = initialized /\ crossed' = crossed
      BY DEF Configure, Rises, Leaves, flags
    <3>4. QED
      BY <1>2, <3>1, <3>2, <3>3 DEF InitKind
  <2>2. place'[u] \in {"marked", "inited", "up"} => doing'[u] \in initialized'
    BY <1>2 DEF InitKind, TestInit, Mark, Configure, Rises, Leaves, Turn, flags, CrossInv, InitType
  <2>3. CASE Mark(u)
    <3>1. /\ doing' = doing /\ place' = [place EXCEPT ![u] = "marked"] /\ crossed' = crossed
          /\ initialized' = initialized \cup {doing[u]} /\ place[u] = "init"
      BY <2>3 DEF Mark, Turn, InitType, history
    <3>2. Begun(u)' = Begun(u) /\ doing[u] \in Begun(u)
      BY <3>1 DEF Begun, Marked, InitType
    <3>3. ASSUME NEW v \in User \ {u}, place'[v] = "init", doing'[v] \in initialized'
          PROVE  doing'[v] \in crossed'
      <4>1. CASE doing[v] = doing[u]
        <5>1. doing[v] \in Begun(u) \cap Begun(v)
          BY <2>0, <3>2, <3>3, <4>1 DEF Begun
        <5>2. QED
          BY <2>0, <3>1, <5>1 DEF CrossInv
      <4>2. CASE doing[v] # doing[u]
        BY <2>0, <3>1, <3>3, <4>2 DEF CrossInv
      <4>3. QED
        BY <4>1, <4>2
    <3>4. \A v \in User : Begun(v)' = Begun(v)
      BY <2>0, <3>2
    <3>5. place'[u] = "marked"
      BY <3>1 DEF InitType
    <3>6. QED
      BY <2>0, <2>1, <2>2, <3>1, <3>3, <3>4, <3>5 DEF CrossInv
  <2>4. CASE ~Mark(u)
    <3>1. initialized' = initialized
      BY <1>2, <2>4 DEF InitKind, TestInit, Configure, Rises, Leaves, flags
    <3>2. ASSUME NEW e \in Begun(u)'
          PROVE  /\ crossed' = crossed \cup ({e} \cap UNION {Begun(v) : v \in User})
                 /\ e \notin initialized /\ place'[u] = "init" /\ doing'[u] = e
      <4>1. place'[u] \in {"init", "marked"} /\ doing'[u] = e
        BY <3>2 DEF Begun, Marked
      <4>2. ~Configure(u) /\ ~Rises(u) /\ ~Leaves(u)
        BY <4>1 DEF Configure, Rises, Leaves, Turn, InitType
      <4>3. PICK x \in Instance : TestInit(u, x)
        BY <1>2, <2>4, <4>2 DEF InitKind
      <4>4. x = e /\ e \notin initialized
        BY <4>1, <4>3 DEF TestInit, Turn, InitType
      <4>5. QED
        BY <4>1, <4>3, <4>4 DEF TestInit, Turn, InitType
    <3>3. ASSUME NEW v \in User \ {u}, NEW e \in Begun(u)' \cap Begun(v)' PROVE e \in crossed'
      BY <2>0, <3>2, <3>3
    <3>4. ASSUME NEW v \in User, NEW w \in User, NEW e \in Begun(v)' \cap Begun(w)', v # w
          PROVE  e \in crossed'
      <4>1. CASE v = u \/ w = u
        BY <3>3, <3>4, <4>1
      <4>2. CASE v # u /\ w # u
        BY <2>0, <2>1, <3>4, <4>2 DEF CrossInv
      <4>3. QED
        BY <4>1, <4>2
    <3>5. ASSUME NEW v \in User, place'[v] = "init", doing'[v] \in initialized'
          PROVE  doing'[v] \in crossed'
      <4>1. CASE v = u
        <5>1. doing'[u] \in Begun(u)'
          BY <3>5, <4>1 DEF Begun
        <5>2. QED
          BY <3>1, <3>2, <3>5, <4>1, <5>1
      <4>2. CASE v # u
        BY <2>0, <2>1, <3>1, <3>5, <4>2 DEF CrossInv
      <4>3. QED
        BY <4>1, <4>2
    <3>6. \A v \in User : place'[v] \in {"marked", "inited", "up"} => doing'[v] \in initialized'
      BY <2>0, <2>1, <2>2 DEF CrossInv
    <3>7. QED
      BY <3>4, <3>5, <3>6 DEF CrossInv
  <2>5. QED
    BY <2>3, <2>4
<1>3. QED
  BY <1>1, <1>2, Kinds

\* What is known of an instance only grows.
LEMMA Grows ==
  ASSUME GlobalAssumption, TypeInv, InitType, [Next]_vars
  PROVE  /\ initialized \subseteq initialized' /\ crossed \subseteq crossed'
         /\ asked \subseteq asked' /\ \A e : Off(e)' => Off(e)
<1>1. CASE Still
  BY <1>1 DEF Still, Off, flags
<1>2. ASSUME NEW u \in User, InitKind(u)
      PROVE  /\ initialized \subseteq initialized' /\ crossed \subseteq crossed'
             /\ asked \subseteq asked' /\ \A e : Off(e)' => Off(e)
  <2>1. /\ initialized \subseteq initialized' /\ crossed \subseteq crossed'
        /\ halfway \subseteq halfway' /\ asked \subseteq asked'
    <3>1. \A e \in Instance : TestInit(u, e) => UNCHANGED <<initialized, asked>>
             /\ halfway \subseteq halfway' /\ crossed \subseteq crossed'
      BY DEF TestInit, flags
    <3>2. Mark(u) => initialized \subseteq initialized' /\ UNCHANGED <<crossed, halfway, asked>>
      BY DEF Mark, history
    <3>3. Configure(u) => asked \subseteq asked' /\ UNCHANGED <<crossed, halfway, initialized>>
      BY DEF Configure
    <3>4. Rises(u) \/ Leaves(u) => UNCHANGED <<crossed, initialized, asked>>
                                   /\ halfway \subseteq halfway'
      BY DEF Rises, Leaves, flags
    <3>5. QED
      BY <1>2, <3>1, <3>2, <3>3, <3>4 DEF InitKind
  <2>2. QED
    BY <2>1 DEF Off
<1>3. QED
  BY <1>1, <1>2, Kinds

\* Only the end of an init sets `enabled`, and to what it has read.
LEMMA EnabledBy ==
  ASSUME GlobalAssumption, TypeInv, InitType, [Next]_vars, NEW e \in Instance,
         ~(e \in enabled' <=> e \in enabled)
  PROVE  \E u \in User : /\ Configure(u) /\ doing[u] = e /\ e \in Marked(u)
                         /\ (e \in enabled' => e \in asked')
<1>1. ~Still
  BY DEF Still, flags
<1>2. PICK u \in User : InitKind(u)
  BY <1>1, Kinds
<1>3. Configure(u)
  BY <1>2 DEF InitKind, TestInit, Mark, Rises, Leaves, flags
<1>4. doing[u] \in Instance /\ doing[u] \in Marked(u)
  BY <1>3 DEF Configure, InitType, Marked
<1>5. doing[u] = e
  BY <1>3 DEF Configure, Enabled
<1>6. e \in enabled' => e \in asked'
  BY <1>3, <1>5 DEF Configure, Enabled
<1>7. QED
  BY <1>3, <1>4, <1>5, <1>6

\* What is quiet stays so, and its `enabled` stays; what is denied stays so.
LEMMA QuietKept ==
  ASSUME GlobalAssumption, TypeInv, InitType, CrossInv, [Next]_vars, NEW e \in Instance
  PROVE  /\ Quiet(e) => Quiet(e)' /\ (e \in crossed' \/ (e \in enabled' <=> e \in enabled))
         /\ Denied(e) => Denied(e)'
<1>1. ASSUME Quiet(e), e \notin crossed'
      PROVE  Quiet(e)' /\ (e \in enabled' <=> e \in enabled)
  <2>1. e \in initialized /\ e \notin crossed /\ \A u \in User : e \notin Begun(u)
    BY <1>1, Grows DEF Quiet
  <2>2. e \in enabled' <=> e \in enabled
    BY <2>1, EnabledBy DEF Begun, Marked
  <2>3. e \in initialized'
    BY <2>1, Grows
  <2>4. ASSUME NEW u \in User PROVE e \notin Begun(u)'
    <3>1. CASE Still
      BY <2>1, <3>1 DEF Still, Begun, Marked
    <3>2. ASSUME NEW v \in User, InitKind(v) PROVE e \notin Begun(u)'
      <4>1. CASE u # v
        BY <2>1, <3>2, <4>1, OneMoves
      <4>2. CASE u = v /\ (Configure(v) \/ Rises(v) \/ Leaves(v))
        <5>1. place'[v] \in {"inited", "up", "next"}
          BY <4>2 DEF Configure, Rises, Leaves, Turn, InitType
        <5>2. QED
          BY <4>2, <5>1 DEF Begun, Marked
      <4>3. CASE u = v /\ Mark(v)
        BY <2>1, <4>3 DEF Mark, Begun, Marked, Turn, InitType
      <4>4. ASSUME u = v, NEW x \in Instance, TestInit(v, x) PROVE e \notin Begun(u)'
        BY <2>1, <4>4 DEF TestInit, Begun, Marked, Turn, InitType
      <4>5. QED
        BY <3>2, <4>1, <4>2, <4>3, <4>4 DEF InitKind
    <3>3. QED
      BY <3>1, <3>2, Kinds
  <2>5. QED
    BY <2>2, <2>3, <2>4 DEF Quiet
<1>2. ASSUME Quiet(e), e \in crossed' PROVE Quiet(e)'
  BY <1>2, Grows DEF Quiet
<1>3. ASSUME Denied(e), Off(e)' PROVE e \notin enabled'
  <2>1. e \notin enabled
    BY <1>3, Grows DEF Denied
  <2>2. e \notin asked'
    BY <1>3 DEF Off
  <2>3. QED
    BY <2>1, <2>2, EnabledBy
<1>4. QED
  BY <1>1, <1>2, <1>3 DEF Denied

\* What is registered stays registered.
LEMMA RegisteredGrows ==
  ASSUME GlobalAssumption, TypeInv, InitType, [Next]_vars
  PROVE  /\ Registered \subseteq Registered'
         /\ \A e : Register(e) /\ e \in Instance => Registered' = Registered \cup {e}
         /\ RegisterWatcher => Registered' = Registered \cup {watching}
<1>1. CASE UNCHANGED threads
  <2>1. Registered' = Registered
    BY <1>1 DEF Registered
  <2>2. \A e \in Instance : ~Register(e)
    BY <1>1 DEF Register, TypeInv
  <2>3. ~RegisterWatcher
    BY <1>1 DEF RegisterWatcher, TypeInv
  <2>4. QED
    BY <2>1, <2>2, <2>3
<1>2. ASSUME NEW e \in Instance, Register(e) PROVE Registered' = Registered \cup {e}
  BY <1>2, AppendRegisters DEF Register, TypeInv
<1>3. ASSUME RegisterWatcher PROVE Registered' = Registered \cup {watching}
  <2>1. watching \in Watcher
    BY <1>3 DEF RegisterWatcher, At, TypeInv
  <2>2. QED
    BY <1>3, <2>1, AppendRegisters DEF RegisterWatcher, TypeInv
<1>4. CASE \E e \in Instance : Register(e)
  <2>1. ~RegisterWatcher
    BY <1>4 DEF Register, RegisterWatcher, Loading, At
  <2>2. QED
    BY <1>2, <1>4, <2>1
<1>5. CASE RegisterWatcher
  <2>1. \A e : ~Register(e)
    BY <1>5 DEF Register, RegisterWatcher, Loading, At
  <2>2. QED
    BY <1>3, <1>5, <2>1
<1>6. CASE LauncherStep /\ ~RegisterWatcher /\ \A e \in Instance : ~Register(e)
  <2>1. UNCHANGED threads
    BY <1>6 DEF LauncherStep, LoadConf, MakeWatcher, Prepare, EndOfLoop, StartPlugins, StartWatcher,
           InitInstance, InitGoesOn, InitRaises, Skip, SafeInit, AtStart
  <2>2. QED
    BY <1>1, <2>1
<1>7. CASE Signal \/ StopStep
  BY <1>1, <1>7 DEF Signal, StopStep, CallbackReturns, CallbackRaises, StopReturns, Remaining
<1>8. ASSUME NEW r \in Context, ContextStep(r) PROVE UNCHANGED threads
  BY <1>8 DEF ContextStep, BeginTests, Test, Claim, ContextInit, ContextInitGoesOn, BringUp,
              ContextFails
<1>9. CASE UNCHANGED vars
  BY <1>1, <1>9 DEF vars
<1>10. QED
  BY <1>1, <1>4, <1>5, <1>6, <1>7, <1>8, <1>9 DEF Next

\* What is covered stays covered.
LEMMA CoversKept ==
  ASSUME GlobalAssumption, TypeInv, InitType, CrossInv, [Next]_vars,
         NEW S \in SUBSET Instance, Covers(S)
  PROVE  \A e \in S : Settled(e)'
<1> SUFFICES ASSUME NEW e \in S PROVE Settled(e)'
  OBVIOUS
<1>1. Quiet(e) /\ Denied(e) /\ Stoppable(e) /\ e \in Instance
  BY DEF Covers, Settled
<1>2. Quiet(e)' /\ Denied(e)' /\ (e \in crossed' \/ (e \in enabled' <=> e \in enabled))
  BY <1>1, QuietKept
<1>3. Registered \subseteq Registered' /\ crossed \subseteq crossed'
  BY RegisteredGrows, Grows
<1>4. QED
  BY <1>1, <1>2, <1>3 DEF Stoppable, Settled

-----------------------------------------------------------------------------
(* What can be stopped.                                                    *)

\* The main thread, between two steps of its own, keeps what is covered.
LEMMA CoverSame ==
  ASSUME GlobalAssumption, TypeInv, InitType, CrossInv, CoverInv, [Next]_vars,
         UNCHANGED <<step, done, watching, started>>,
         doing'[Config] = doing[Config], place'[Config] = place[Config]
  PROVE  CoverInv'
<1>1. \A S \in SUBSET Instance : Covers(S) => \A e \in S : Settled(e)'
  BY CoversKept
<1>2. done \subseteq Instance /\ Plugin \subseteq Instance /\ InoPlug \subseteq Instance
  BY DEF TypeInv, Instance
<1>3. place[Config] # "next" => doing[Config] \in Instance
  BY DEF InitType, User
<1>4. place[Config] \in {"inited", "up"} => Quiet(doing[Config])'
  <2>1. ASSUME NEW e \in Instance, Quiet(e) PROVE Quiet(e)'
    BY <2>1, QuietKept
  <2>2. PICK e : e = doing[Config]
    OBVIOUS
  <2>3. place[Config] \in {"inited", "up"} => e \in Instance /\ Quiet(e)
    BY <1>3, <2>2 DEF CoverInv
  <2>4. doing'[Config] = e
    BY <2>2
  <2>5. QED
    BY <2>1, <2>3, <2>4 DEF Quiet
<1>5. Registered \subseteq Registered' /\ crossed \subseteq crossed'
  BY RegisteredGrows, Grows
<1>6. QED
  BY <1>1, <1>2, <1>4, <1>5 DEF CoverInv, Covers, Registry

\* A user that has done with an init leaves it quiet.
LEMMA InitedQuiet ==
  ASSUME GlobalAssumption, TypeInv, InitType, CrossInv, NEW u \in User, NEW e \in Instance,
         TestInit(u, e) \/ (Configure(u) /\ e = doing[u]), place'[u] = "inited"
  PROVE  Quiet(e)'
<1>1. \A v \in User \ {u} : Begun(v)' = Begun(v)
  BY DEF TestInit, Configure, Turn, InitType, Begun, Marked
<1>2. e \notin Begun(u)'
  BY DEF Begun, Marked
<1>3. CASE TestInit(u, e)
  <2>1. e \in initialized'
    BY <1>3 DEF TestInit, Turn, InitType, flags
  <2>2. e \in crossed' \/ \A v \in User : e \notin Begun(v)
    BY <1>3 DEF TestInit
  <2>3. QED
    BY <1>1, <1>2, <2>1, <2>2 DEF Quiet
<1>4. CASE Configure(u) /\ e = doing[u]
  <2>1. e \in initialized' /\ crossed' = crossed /\ e \in Begun(u)
    BY <1>4 DEF Configure, CrossInv, Begun, Marked
  <2>2. \A v \in User \ {u} : e \notin Begun(v) \/ e \in crossed
    BY <2>1 DEF CrossInv
  <2>3. QED
    BY <1>1, <1>2, <2>1, <2>2 DEF Quiet
<1>5. QED
  BY <1>3, <1>4

\* What is about to be started has been handled.
LEMMA ToStartCovered ==
  ASSUME GlobalAssumption, CoverInv, step = "start"
  PROVE  \A e \in ToStart : e \in enabled /\ Settled(e)
<1>1. Covers(Plugin) /\ (watching = NoWatcher \/ Covers(InoPlug))
  BY DEF CoverInv
<1>2. watching # NoWatcher => Covers(Instance)
  BY <1>1 DEF Covers, Instance
<1>3. CASE ToStart = enabled \cap Plugin
  BY <1>1, <1>3 DEF Covers
<1>4. CASE watching # NoWatcher /\ ToStart = enabled \cap Instance
  BY <1>2, <1>4 DEF Covers
<1>5. QED
  BY <1>3, <1>4 DEF ToStart

\* The steps of the two loops keep what is covered.
LEMMA LoopCovers ==
  ASSUME GlobalAssumption, TypeInv, InitType, CrossInv, DisabledInv, CoverInv, [Next]_vars,
         NEW e \in Instance, InitInstance(e) \/ InitGoesOn \/ SafeInit \/ Skip(e) \/ Register(e)
  PROVE  CoverInv'
<1>0. Config \in User /\ NoOne \notin Instance
  BY DEF User, GlobalAssumption
<1>1. \A S \in SUBSET Instance : Covers(S) => \A x \in S : Settled(x)'
  BY CoversKept
<1>2. done \subseteq Instance /\ Plugin \subseteq Instance /\ InoPlug \subseteq Instance
  BY DEF TypeInv, Instance
<1>3. Registered \subseteq Registered' /\ crossed \subseteq crossed'
  BY RegisteredGrows, Grows
<1>4. step \in {"plugins", "inoplugs"} /\ watching' = watching /\ started' = started
  BY DEF InitInstance, InitGoesOn, SafeInit, Skip, Register, Loading, TestInit, InitStep, Mark,
         Configure, Using, history
<1>5. started' \subseteq Registered' \cup crossed'
  BY <1>3, <1>4 DEF CoverInv
<1>6. /\ \A x \in done : Settled(x)'
      /\ step = "inoplugs" => \A x \in Plugin : Settled(x)'
  BY <1>1, <1>2, <1>4 DEF CoverInv
<1>7. CASE step' = "rest"
  <2>1. place'[Config] = "next"
    BY <1>0, <1>4, <1>7 DEF InitInstance, InitGoesOn, SafeInit, Skip, Register, loop, Raise,
       Leave, Forget, Turn, InitType
  <2>2. QED
    BY <1>5, <1>7, <2>1 DEF CoverInv
<1>8. ASSUME step' = step, \A x \in done' : Settled(x)',
             place'[Config] # "next" => doing'[Config] \in Registry \ done',
             place'[Config] \in {"inited", "up"} => Quiet(doing[Config])'
      PROVE  CoverInv'
  <2>1. Registry' = Registry
    BY <1>8 DEF Registry
  <2>2. QED
    BY <1>4, <1>5, <1>6, <1>8, <2>1 DEF CoverInv, Covers
<1>9. CASE InitInstance(e)
  <2>1. /\ step' = step /\ done' = done /\ e \in Registry \ done
        /\ doing'[Config] = e /\ TestInit(Config, e)
    BY <1>0, <1>9 DEF InitInstance, TestInit, Turn, InitType, loop
  <2>2. place'[Config] = "inited" => Quiet(e)'
    BY <1>0, <2>1, InitedQuiet
  <2>3. place'[Config] # "up"
    BY <1>0, <2>1 DEF TestInit, Turn, InitType
  <2>4. place'[Config] \in {"inited", "up"} => Quiet(doing[Config])'
    BY <2>1, <2>2, <2>3 DEF Quiet
  <2>5. QED
    BY <1>6, <1>8, <2>1, <2>4
<1>10. CASE InitGoesOn
  <2>1. PICK x : x = doing[Config]
    OBVIOUS
  <2>2. /\ step' = step /\ done' = done /\ doing'[Config] = x /\ place[Config] # "next"
        /\ x \in Instance /\ x \in Registry \ done
    BY <1>0, <1>10, <2>1 DEF InitGoesOn, InitStep, Mark, Configure, Turn, InitType, loop, CoverInv
  <2>3. place'[Config] # "up" /\ (place'[Config] = "inited" => Configure(Config))
    BY <1>0, <1>10 DEF InitGoesOn, InitStep, Mark, Configure, Turn, InitType
  <2>4. place'[Config] = "inited" => Quiet(x)'
    BY <1>0, <2>1, <2>2, <2>3, InitedQuiet
  <2>5. place'[Config] \in {"inited", "up"} => Quiet(doing[Config])'
    BY <2>2, <2>3, <2>4 DEF Quiet
  <2>6. QED
    BY <1>6, <1>8, <2>2, <2>5
<1>11. CASE SafeInit
  <2>1. CASE Raise
    BY <1>7, <2>1 DEF Raise, Go
  <2>2. CASE ~Raise
    <3>1. PICK x : x = doing[Config]
      OBVIOUS
    <3>2. /\ step' = step /\ done' = done /\ doing'[Config] = x /\ place[Config] = "inited"
          /\ x \in Instance /\ x \in Registry \ done /\ Quiet(x)
      BY <1>0, <1>11, <2>2, <3>1 DEF SafeInit, Using, Turn, InitType, loop, CoverInv
    <3>3. Quiet(x)'
      BY <3>2, QuietKept
    <3>4. Quiet(doing[Config])'
      BY <3>2, <3>3 DEF Quiet
    <3>5. QED
      BY <1>6, <1>8, <3>2, <3>4
  <2>3. QED
    BY <2>1, <2>2
<1>12. CASE Skip(e) \/ Register(e)
  <2>1. /\ step' = step /\ done' = done \cup {e} /\ place'[Config] = "next"
        /\ e = doing[Config] /\ place[Config] \in {"inited", "up"}
    BY <1>0, <1>12 DEF Skip, Register, Turn, InitType
  <2>2. Quiet(e) /\ Denied(e)
    BY <1>0, <2>1 DEF CoverInv, DisabledInv
  <2>3. Quiet(e)' /\ Denied(e)'
    BY <2>2, QuietKept
  <2>4. Stoppable(e)'
    <3>1. CASE Skip(e)
      BY <3>1 DEF Skip, Skipped, Stoppable, flags
    <3>2. CASE Register(e)
      BY <3>2, RegisteredGrows DEF Stoppable
    <3>3. QED
      BY <1>12, <3>1, <3>2
  <2>5. \A x \in done' : Settled(x)'
    BY <1>6, <2>1, <2>3, <2>4 DEF Settled
  <2>6. QED
    BY <1>8, <2>1, <2>5
<1>13. QED
  BY <1>9, <1>10, <1>11, <1>12

\* Every step keeps what is covered.
LEMMA CoverStep ==
  ASSUME GlobalAssumption, TypeInv, InitType, CrossInv, DisabledInv, CoverInv, WatcherInv,
         [Next]_vars
  PROVE  CoverInv'
<1> USE DEF loop, inits, flags, claims, history, frames
<1>0. Config \in User /\ NoOne \notin Instance /\ Config \notin Context
  BY DEF User, GlobalAssumption
<1>1. \A S \in SUBSET Instance : Covers(S) => \A x \in S : Settled(x)'
  BY CoversKept
<1>2. done \subseteq Instance /\ Plugin \subseteq Instance /\ InoPlug \subseteq Instance
  BY DEF TypeInv, Instance
<1>3. Registered \subseteq Registered' /\ crossed \subseteq crossed'
  BY RegisteredGrows, Grows
<1>4. Covers(Plugin) => Covers(Plugin)'
  BY <1>1, <1>2 DEF Covers
<1>5. Covers(InoPlug) => Covers(InoPlug)'
  BY <1>1, <1>2 DEF Covers
<1>6. ASSUME step' \notin {"plugins", "inoplugs"}, place'[Config] = "next",
             started' \subseteq Registered' \cup crossed',
             step' \in {"loaded", "start", "serving", "down"} =>
                 Covers(Plugin)' /\ (watching' = NoWatcher \/ Covers(InoPlug)')
      PROVE  CoverInv'
  BY <1>6 DEF CoverInv, Covers
<1>7. started' = started => started' \subseteq Registered' \cup crossed'
  BY <1>3 DEF CoverInv
<1>8. ASSUME Forget(Config) PROVE place'[Config] = "next"
  BY <1>0, <1>8 DEF Forget, Turn, InitType
<1>9. step \notin {"plugins", "inoplugs"} => place[Config] = "next"
  BY DEF CoverInv
<1>10. CASE LoadConf \/ MakeWatcher \/ RegisterWatcher
  <2>1. step' \in {"parse", "made", "watch"} /\ place'[Config] = "next" /\ started' = started
    BY <1>9, <1>10 DEF LoadConf, MakeWatcher, RegisterWatcher, At, Go
  <2>2. QED
    BY <1>6, <1>7, <2>1
<1>11. CASE Prepare
  <2>1. started' = started
    BY <1>11 DEF Prepare
  <2>2. CASE Raise
    BY <1>6, <1>7, <1>8, <2>1, <2>2 DEF Raise, Go, Leave
  <2>3. CASE ~Raise
    <3>1. step' = "plugins" /\ done' = {} /\ place'[Config] = "next"
      BY <1>9, <1>11, <2>3 DEF Prepare, At, Go
    <3>2. QED
      BY <1>7, <2>1, <3>1 DEF CoverInv, Covers
  <2>4. QED
    BY <2>2, <2>3
<1>12. CASE EndOfLoop
  <2>1. /\ started' = started /\ watching' = watching /\ Registry \subseteq done /\ Covers(done)
        /\ place[Config] = "next" /\ step \in {"plugins", "inoplugs"}
        /\ (step = "inoplugs" => Covers(Plugin))
    BY <1>0, <1>12 DEF EndOfLoop, Loading, CoverInv, InitType
  <2>2. Covers(Registry)
    BY <2>1 DEF Covers
  <2>3. CASE Raise
    BY <1>6, <1>7, <1>8, <2>1, <2>3 DEF Raise, Go, Leave
  <2>4. CASE step = "plugins" /\ Go("inoplugs") /\ UNCHANGED inits
    <3>1. Covers(Plugin)'
      BY <1>4, <2>2, <2>4 DEF Registry
    <3>2. step' = "inoplugs" /\ done' = {} /\ place'[Config] = "next"
      BY <2>1, <2>4 DEF Go
    <3>3. QED
      BY <1>7, <2>1, <3>1, <3>2 DEF CoverInv, Covers
  <2>5. CASE (step = "inoplugs" \/ watching = NoWatcher) /\ Go("loaded") /\ Forget(Config)
    <3>1. CASE step = "inoplugs"
      <4>1. Covers(Plugin)' /\ Covers(InoPlug)'
        BY <1>4, <1>5, <2>1, <2>2, <3>1 DEF Registry
      <4>2. QED
        BY <1>6, <1>7, <1>8, <2>1, <2>5, <4>1 DEF Go
    <3>2. CASE step = "plugins" /\ watching = NoWatcher
      <4>1. Covers(Plugin)'
        BY <1>4, <2>2, <3>2 DEF Registry
      <4>2. QED
        BY <1>6, <1>7, <1>8, <2>1, <2>5, <3>2, <4>1 DEF Go
    <3>3. QED
      BY <2>1, <2>5, <3>1, <3>2
  <2>6. QED
    BY <1>12, <2>3, <2>4, <2>5 DEF EndOfLoop
<1>13. ASSUME step \in {"loaded", "start", "serving"}, watching' = watching
       PROVE  Covers(Plugin)' /\ (watching' = NoWatcher \/ Covers(InoPlug)')
  BY <1>4, <1>5, <1>13 DEF CoverInv
<1>14. CASE StartPlugins
  BY <1>6, <1>7, <1>9, <1>13, <1>14 DEF StartPlugins, At, Go
<1>15. CASE StartWatcher
  <2>1. watching # NoWatcher => watching \in Registered
    BY <1>15 DEF StartWatcher, At, WatcherInv
  <2>2. started' \subseteq Registered' \cup crossed'
    BY <1>3, <1>15, <2>1 DEF StartWatcher, CoverInv
  <2>3. QED
    BY <1>6, <1>9, <1>13, <1>15, <2>2 DEF StartWatcher, At, Go
<1>16. ASSUME NEW e \in Instance, AtStart(e) PROVE CoverInv'
  <2>1. e \in Registered \cup crossed
    BY <1>16, ToStartCovered DEF AtStart, At, Settled, Stoppable
  <2>2. started' \subseteq started \cup {e} /\ watching' = watching /\ step = "start"
    BY <1>16 DEF AtStart, At
  <2>3. started' \subseteq Registered' \cup crossed'
    BY <1>3, <2>1, <2>2 DEF CoverInv
  <2>4. CASE Raise
    BY <1>6, <1>8, <2>3, <2>4 DEF Raise, Go, Leave
  <2>5. CASE ~Raise
    <3>1. step' = step /\ place' = place
      BY <1>16, <2>5 DEF AtStart
    <3>2. QED
      BY <1>6, <1>9, <1>13, <2>2, <2>3, <3>1
  <2>6. QED
    BY <2>4, <2>5
<1>17. CASE InitRaises
  BY <1>6, <1>7, <1>8, <1>17 DEF InitRaises, Raise, Go, Leave
<1>18. ASSUME NEW e \in Instance, InitInstance(e) \/ InitGoesOn \/ SafeInit \/ Skip(e) \/ Register(e)
       PROVE  CoverInv'
  BY <1>18, LoopCovers
<1>19. CASE InitGoesOn \/ SafeInit
  <2>1. doing[Config] \in Instance
    BY <1>0, <1>19 DEF InitGoesOn, InitStep, Mark, Configure, SafeInit, Using, InitType
  <2>2. QED
    BY <1>18, <1>19, <2>1
<1>20. CASE LauncherStep
  BY <1>10, <1>11, <1>12, <1>14, <1>15, <1>16, <1>17, <1>18, <1>19, <1>20 DEF LauncherStep
<1>21. CASE Signal \/ CallbackReturns \/ StopReturns
  BY <1>21, CoverSame DEF Signal, CallbackReturns, StopReturns
<1>22. CASE CallbackRaises
  <2>1. place'[Config] = "next" /\ started' = started /\ watching' = watching
        /\ step' = IF step = "serving" THEN "down" ELSE "rest"
    BY <1>8, <1>22 DEF CallbackRaises, Leave, Go
  <2>2. QED
    BY <1>6, <1>7, <1>13, <2>1
<1>23. ASSUME NEW r \in Context, ContextStep(r) PROVE CoverInv'
  <2>1. UNCHANGED <<step, done, watching, started>>
    BY <1>23 DEF ContextStep, BeginTests, Test, Claim, ContextInit, TestInit, ContextInitGoesOn,
       InitStep, Mark, Configure, BringUp, ContextFails, Using
  <2>2. /\ BeginTests(r) => UNCHANGED <<doing, place>>
        /\ \A e \in Shared : Test(r, e) \/ Claim(r, e) => UNCHANGED <<doing, place>>
    BY DEF BeginTests, Test, Claim
  <2>3. \A e \in Shared : ContextInit(r, e) \/ BringUp(r, e) => \E x, where : Turn(r, x, where)
    BY DEF ContextInit, TestInit, BringUp, Forget
  <2>4. ContextInitGoesOn(r) \/ ContextFails(r) => \E x, where : Turn(r, x, where)
    BY DEF ContextInitGoesOn, InitStep, Mark, Configure, ContextFails, Leave, Forget
  <2>5. doing'[Config] = doing[Config] /\ place'[Config] = place[Config]
    BY <1>0, <1>23, <2>2, <2>3, <2>4 DEF ContextStep, Turn, InitType
  <2>6. QED
    BY <2>1, <2>5, CoverSame
<1>24. CASE UNCHANGED vars
  BY <1>24, CoverSame DEF vars
<1>25. QED
  BY <1>20, <1>21, <1>22, <1>23, <1>24 DEF Next, StopStep

\* A watcher that a load has made is registered before that load goes on.
LEMMA WatcherStep ==
  ASSUME GlobalAssumption, TypeInv, InitType, WatcherInv, [Next]_vars PROVE WatcherInv'
<1> USE DEF loop, inits, flags, claims, history, frames
<1>0. loads \in Nat /\ watching \in Nat /\ Registered \subseteq Registered'
  BY RegisteredGrows DEF TypeInv, GlobalAssumption, Watcher, NoWatcher
<1>1. ASSUME loads' = loads, watching' = watching,
             step' = "rest" \/ step' = step \/ (step = "serving" /\ step' = "down")
      PROVE  WatcherInv'
  BY <1>0, <1>1 DEF WatcherInv
<1>2. CASE LoadConf
  BY <1>0, <1>2 DEF LoadConf, Go, WatcherInv
<1>3. CASE MakeWatcher
  BY <1>0, <1>3 DEF MakeWatcher, Go, WatcherInv
<1>4. CASE RegisterWatcher
  BY <1>0, <1>4, RegisteredGrows DEF RegisterWatcher, Go, WatcherInv
<1>5. CASE Prepare
  <2>1. loads' = loads /\ watching' = watching /\ step \in {"parse", "watch"}
        /\ step' \in {"plugins", "rest"}
    BY <1>5 DEF Prepare, At, Go, Raise
  <2>2. QED
    BY <1>0, <2>1 DEF WatcherInv
<1>6. CASE EndOfLoop
  <2>1. /\ loads' = loads /\ watching' = watching /\ step \in {"plugins", "inoplugs"}
        /\ \/ step = "plugins" /\ watching = loads /\ step' = "inoplugs"
           \/ step' = "rest"
           \/ (step = "inoplugs" \/ watching = NoWatcher) /\ step' = "loaded"
    BY <1>6 DEF EndOfLoop, Loading, Go, Raise
  <2>2. QED
    BY <1>0, <2>1 DEF WatcherInv
<1>7. CASE StartPlugins \/ StartWatcher
  <2>1. loads' = loads /\ watching' = watching /\ step \in {"loaded", "start"}
        /\ step' \in {"start", "serving"}
    BY <1>7 DEF StartPlugins, StartWatcher, At, Go
  <2>2. QED
    BY <1>0, <2>1 DEF WatcherInv
<1>8. ASSUME NEW e \in Instance, InitInstance(e) \/ Skip(e) \/ Register(e) \/ AtStart(e)
      PROVE  WatcherInv'
  <2>1. loads' = loads /\ watching' = watching /\ (step' = step \/ step' = "rest")
    BY <1>8 DEF InitInstance, Skip, Register, AtStart, Raise, Go
  <2>2. QED
    BY <1>1, <2>1
<1>9. CASE InitGoesOn \/ InitRaises \/ SafeInit
  <2>1. loads' = loads /\ watching' = watching /\ (step' = step \/ step' = "rest")
    BY <1>9 DEF InitGoesOn, InitRaises, SafeInit, Raise, Go
  <2>2. QED
    BY <1>1, <2>1
<1>10. CASE Signal \/ StopStep
  <2>1. loads' = loads /\ watching' = watching
        /\ (step' = "rest" \/ step' = step \/ (step = "serving" /\ step' = "down"))
    BY <1>10 DEF Signal, StopStep, CallbackReturns, CallbackRaises, StopReturns, Go
  <2>2. QED
    BY <1>1, <2>1
<1>11. ASSUME NEW r \in Context, ContextStep(r) PROVE WatcherInv'
  <2>1. loads' = loads /\ watching' = watching /\ step' = step
    BY <1>11 DEF ContextStep, BeginTests, Test, Claim, ContextInit, ContextInitGoesOn, BringUp,
       ContextFails
  <2>2. QED
    BY <1>1, <2>1
<1>12. CASE UNCHANGED vars
  BY <1>1, <1>12 DEF vars
<1>13. QED
  BY <1>2, <1>3, <1>4, <1>5, <1>6, <1>7, <1>8, <1>9, <1>10, <1>11, <1>12 DEF Next, LauncherStep

-----------------------------------------------------------------------------
(* What a load leaves unregistered.                                        *)

\* A step that neither acquires nor registers, and enters no further load.
LEMMA AcquiredKept ==
  ASSUME GlobalAssumption, TypeInv, AcquiredInv, loads' = loads, Unregistered' \subseteq Unregistered,
         step' \in load => step \in load /\ hook \in {hook', NoOne}
  PROVE  AcquiredInv'
<1>1. IsFiniteSet(Unregistered) /\ NoOne \notin Unregistered
  BY DEF AcquiredInv, Unregistered, Acquired, GlobalAssumption
<1>2. IsFiniteSet(Unregistered') /\ Cardinality(Unregistered') <= Cardinality(Unregistered)
  BY <1>1, FS_Subset
<1>3. Cardinality(Unregistered) \in Nat /\ Cardinality(Unregistered') \in Nat /\ loads \in Nat
  BY <1>1, <1>2, FS_CardinalityType DEF TypeInv, GlobalAssumption
<1>4. CASE step' \in load
  <2>1. Unregistered' \ {hook'} \subseteq Unregistered \ {hook}
    BY <1>1, <1>4
  <2>2. IsFiniteSet(Unregistered \ {hook}) /\ IsFiniteSet(Unregistered' \ {hook'})
    BY <1>1, <1>2, FS_Subset
  <2>3. Cardinality(Unregistered' \ {hook'}) <= Cardinality(Unregistered \ {hook})
    BY <2>1, <2>2, FS_Subset
  <2>4. Cardinality(Unregistered' \ {hook'}) \in Nat /\ Cardinality(Unregistered \ {hook}) \in Nat
    BY <2>2, FS_CardinalityType
  <2>5. QED
    BY <1>2, <1>3, <1>4, <2>3, <2>4 DEF AcquiredInv
<1>5. QED
  BY <1>2, <1>3, <1>4 DEF AcquiredInv

\* safe_init acquires before anything is registered, one instance at a time.
LEMMA AcquiredSafeInit ==
  ASSUME GlobalAssumption, TypeInv, InitType, AcquiredInv, SafeInit
  PROVE  AcquiredInv'
<1>0. PICK e : e = doing[Config]
  OBVIOUS
<1>1. /\ loads' = loads /\ loads \in Nat /\ Registered' = Registered /\ e \in Instance
      /\ step \in {"plugins", "inoplugs"} /\ hook = NoOne
      /\ users' = [users EXCEPT ![e] = @ \cup {Config}]
  BY <1>0 DEF SafeInit, Using, Loading, Registered, hook, TypeInv, InitType, User, GlobalAssumption
<1> DEFINE others == Unregistered \ {e}
<1>2. \A x \in Instance \ {e} : users'[x] = users[x]
  BY <1>1 DEF TypeInv
<1>3. Unregistered' \subseteq Instance /\ Unregistered \subseteq Instance
      /\ \A x \in Instance \ {e} : x \in Unregistered' <=> x \in Unregistered
  BY <1>1, <1>2 DEF Unregistered, Acquired
<1>4. Unregistered' \ {e} = others /\ Unregistered' \subseteq others \cup {e}
  BY <1>3
<1>5. IsFiniteSet(others) /\ Cardinality(others) \in Nat /\ Cardinality(others) <= loads - 1
  <2>1. IsFiniteSet(others) /\ IsFiniteSet(Unregistered)
        /\ Cardinality(others) <= Cardinality(Unregistered)
    BY FS_Subset DEF AcquiredInv
  <2>2. Unregistered \ {hook} = Unregistered
    BY <1>1, <1>3 DEF GlobalAssumption
  <2>3. Cardinality(Unregistered) <= loads - 1
    BY <1>1, <2>2 DEF AcquiredInv, load
  <2>4. QED
    BY <1>1, <2>1, <2>3, FS_CardinalityType
<1>6. IsFiniteSet(others \cup {e}) /\ Cardinality(others \cup {e}) = Cardinality(others) + 1
  BY <1>5, FS_AddElement
<1>7. IsFiniteSet(Unregistered') /\ Cardinality(Unregistered') <= Cardinality(others \cup {e})
      /\ Cardinality(Unregistered') \in Nat
  BY <1>4, <1>6, FS_Subset, FS_CardinalityType
<1> HIDE DEF others
<1>8. Cardinality(Unregistered') <= loads
  BY <1>1, <1>5, <1>6, <1>7
<1>9. step' = "rest" \/ hook' = e
  BY <1>0 DEF SafeInit, Raise, Go, Turn, hook, InitType, User
<1>10. QED
  BY <1>1, <1>4, <1>5, <1>7, <1>8, <1>9 DEF AcquiredInv, load

\* A call of load_conf leaves at most one instance acquired and not registered.
LEMMA AcquiredStep ==
  ASSUME GlobalAssumption, TypeInv, InitType, CoverInv, AcquiredInv, [Next]_vars
  PROVE  AcquiredInv'
<1> USE DEF flags, claims, history, frames, loop, inits
<1>0. Config \in User /\ NoOne \notin Instance /\ Config \notin Context
  BY DEF User, GlobalAssumption
<1>1. ASSUME UNCHANGED <<loads, users>>,
             step' \in load => step \in load /\ hook \in {hook', NoOne}
      PROVE  AcquiredInv'
  <2>1. Unregistered' \subseteq Unregistered
    BY <1>1, RegisteredGrows DEF Unregistered, Acquired
  <2>2. QED
    BY <1>1, <2>1, AcquiredKept
<1>2. hook = NoOne \/ step \in {"plugins", "inoplugs"}
  BY DEF hook, CoverInv
<1>3. CASE LoadConf
  <2>1. loads' = loads + 1 /\ hook' = NoOne /\ Unregistered' = Unregistered
    BY <1>2, <1>3 DEF LoadConf, At, Unregistered, Acquired, Registered, hook
  <2>2. Unregistered' \ {hook'} = Unregistered
    BY <2>1 DEF Unregistered, Acquired, GlobalAssumption
  <2>3. Cardinality(Unregistered) \in Nat /\ loads \in Nat
    BY FS_CardinalityType DEF AcquiredInv, TypeInv, GlobalAssumption
  <2>4. Cardinality(Unregistered' \ {hook'}) = Cardinality(Unregistered)
    BY <2>2
  <2>5. QED
    BY <2>1, <2>3, <2>4 DEF AcquiredInv
<1>4. CASE MakeWatcher \/ RegisterWatcher \/ Prepare
  <2>1. UNCHANGED <<loads, users>> /\ step \in load /\ hook = NoOne
    BY <1>2, <1>4 DEF MakeWatcher, RegisterWatcher, Prepare, At, load
  <2>2. QED
    BY <1>1, <2>1
<1>5. CASE EndOfLoop \/ InitRaises
  <2>1. /\ UNCHANGED <<loads, users>> /\ step \in load
        /\ (EndOfLoop => hook = NoOne) /\ (InitRaises => step' = "rest")
    BY <1>0, <1>5 DEF EndOfLoop, InitRaises, Loading, load, hook, InitType, Raise, Go
  <2>2. QED
    BY <1>1, <1>5, <2>1 DEF load
<1>6. CASE StartPlugins \/ StartWatcher
  <2>1. UNCHANGED <<loads, users>> /\ step' \notin load
    BY <1>6 DEF StartPlugins, StartWatcher, Go, load
  <2>2. QED
    BY <1>1, <2>1
<1>7. ASSUME NEW e \in Instance, InitInstance(e) PROVE AcquiredInv'
  <2>1. UNCHANGED <<loads, users>> /\ step \in load /\ hook = NoOne
    BY <1>0, <1>7 DEF InitInstance, TestInit, Loading, load, hook, InitType
  <2>2. QED
    BY <1>1, <2>1
<1>8. CASE InitGoesOn
  <2>1. UNCHANGED <<loads, users>> /\ step \in load /\ hook = NoOne
    BY <1>0, <1>8 DEF InitGoesOn, InitStep, Mark, Configure, Loading, load, hook, InitType
  <2>2. QED
    BY <1>1, <2>1
<1>9. ASSUME NEW e \in Instance, Skip(e) PROVE AcquiredInv'
  <2>1. UNCHANGED <<loads, users>> /\ step \in load /\ hook = NoOne
    BY <1>0, <1>9 DEF Skip, Loading, load, hook, InitType
  <2>2. QED
    BY <1>1, <2>1
<1>10. CASE SafeInit
  BY <1>10, AcquiredSafeInit
<1>11. ASSUME NEW e \in Instance, Register(e) PROVE AcquiredInv'
  <2>1. Registered' = Registered \cup {e}
    BY <1>11, RegisteredGrows
  <2>2. /\ loads' = loads /\ users' = users /\ hook = e /\ hook' = NoOne /\ step' = step
        /\ step \in load
    BY <1>0, <1>11 DEF Register, Loading, hook, Turn, InitType, load
  <2>3. Unregistered' = Unregistered \ {hook} /\ NoOne \notin Unregistered'
    BY <2>1, <2>2 DEF Unregistered, Acquired, GlobalAssumption
  <2>4. IsFiniteSet(Unregistered')
        /\ Cardinality(Unregistered' \ {hook'}) = Cardinality(Unregistered')
    <3>1. Unregistered' \ {hook'} = Unregistered'
      BY <2>2, <2>3
    <3>2. QED
      BY <2>3, <3>1, FS_Subset DEF AcquiredInv
  <2>5. Cardinality(Unregistered') <= loads - 1 /\ Cardinality(Unregistered') \in Nat /\ loads \in Nat
    BY <2>2, <2>3, <2>4, FS_CardinalityType DEF AcquiredInv, TypeInv, GlobalAssumption
  <2>6. QED
    BY <2>2, <2>4, <2>5 DEF AcquiredInv
<1>12. ASSUME NEW e \in Instance, AtStart(e) PROVE AcquiredInv'
  <2>1. UNCHANGED <<loads, users>> /\ step' \notin load
    BY <1>12 DEF AtStart, At, Go, Raise, load
  <2>2. QED
    BY <1>1, <2>1
<1>13. CASE Signal \/ CallbackReturns \/ StopReturns
  <2>1. UNCHANGED <<loads, users, step, hook>>
    BY <1>13 DEF Signal, CallbackReturns, StopReturns, hook
  <2>2. QED
    BY <1>1, <2>1
<1>14. CASE CallbackRaises
  <2>1. UNCHANGED <<loads, users>> /\ step' \notin load
    BY <1>14 DEF CallbackRaises, Go, load
  <2>2. QED
    BY <1>1, <2>1
<1>15. ASSUME NEW r \in Context, ContextStep(r) PROVE AcquiredInv'
  <2>1. UNCHANGED <<loads, step>>
    BY <1>15 DEF ContextStep, BeginTests, Test, Claim, ContextInit, ContextInitGoesOn, BringUp,
       ContextFails
  <2>2. ASSUME NEW e \in Instance PROVE Config \in users'[e] <=> Config \in users[e]
    <3>1. CASE Using(r)
      BY <1>0, <2>2, <3>1 DEF Using, TypeInv
    <3>2. CASE ~Using(r)
      BY <1>15, <3>2 DEF ContextStep, BeginTests, Test, Claim, ContextInit, TestInit,
         ContextInitGoesOn, InitStep, Mark, Configure, BringUp, ContextFails
    <3>3. QED
      BY <3>1, <3>2
  <2>3. (\E u \in User : InitKind(u) /\ u # Config) \/ Still
    <3>1. r # Config /\ r \in User
      BY <1>0 DEF User
    <3>2. QED
      BY <1>15, <3>1, ContextKinds
  <2>4. hook' = hook
    BY <1>0, <2>3, OneMoves DEF hook, Still
  <2>5. Unregistered' \subseteq Unregistered
    BY <2>2, RegisteredGrows DEF Unregistered, Acquired
  <2>6. QED
    BY <2>1, <2>4, <2>5, AcquiredKept
<1>16. CASE UNCHANGED vars
  BY <1>1, <1>16 DEF vars, hook
<1>17. QED
  BY <1>3, <1>4, <1>5, <1>6, <1>7, <1>8, <1>9, <1>10, <1>11, <1>12, <1>13, <1>14, <1>15, <1>16
     DEF Next, LauncherStep, StopStep

-----------------------------------------------------------------------------
(* What stays down.                                                        *)

\* Who is brought up, or started, is enabled.
LEMMA WhoIsUsed ==
  ASSUME GlobalAssumption, TypeInv, InitType, [Next]_vars, NEW e \in Instance
  PROVE  /\ \/ users'[e] = users[e]
            \/ \E u \in User : place[u] = "inited" /\ doing[u] = e /\ e \in enabled
         /\ e \in started' => e \in started \/ AtStart(e)
<1> USE DEF flags, history, claims
<1>1. ASSUME NEW u \in User, Using(u)
      PROVE  \/ users'[e] = users[e]
             \/ \E v \in User : place[v] = "inited" /\ doing[v] = e /\ e \in enabled
  BY <1>1 DEF Using, Skipped, TypeInv
<1>2. Config \in User /\ \A r \in Context : r \in User
  BY DEF User
<1>3. CASE SafeInit
  BY <1>1, <1>2, <1>3 DEF SafeInit, Using
<1>4. ASSUME NEW x \in Instance, AtStart(x) PROVE users' = users /\ started' \subseteq started \cup {x}
  BY <1>4 DEF AtStart
<1>5. CASE StartWatcher
  <2>1. Instance \cap Watcher = {} /\ watching \in {NoWatcher} \cup Watcher
    BY DEF GlobalAssumption, TypeInv
  <2>2. QED
    BY <1>5, <2>1 DEF StartWatcher
<1>6. CASE LoadConf \/ MakeWatcher \/ RegisterWatcher \/ Prepare \/ EndOfLoop \/ StartPlugins
             \/ InitGoesOn \/ InitRaises
  BY <1>6 DEF LoadConf, MakeWatcher, RegisterWatcher, Prepare, EndOfLoop, StartPlugins, InitGoesOn,
     InitStep, Mark, Configure, InitRaises
<1>7. ASSUME NEW x \in Instance, InitInstance(x) \/ Skip(x) \/ Register(x)
      PROVE  UNCHANGED <<users, started>>
  BY <1>7 DEF InitInstance, TestInit, Skip, Register
<1>8. CASE LauncherStep
  BY <1>3, <1>4, <1>5, <1>6, <1>7, <1>8 DEF LauncherStep
<1>9. CASE Signal \/ StopStep
  BY <1>9 DEF Signal, StopStep, CallbackReturns, CallbackRaises, StopReturns
<1>10. ASSUME NEW r \in Context, ContextStep(r)
       PROVE  started' = started /\ (Using(r) \/ users' = users)
  BY <1>10 DEF ContextStep, BeginTests, Test, Claim, ContextInit, TestInit,
     ContextInitGoesOn, InitStep, Mark, Configure, BringUp, ContextFails, Using
<1>11. CASE UNCHANGED vars
  BY <1>11 DEF vars
<1>12. QED
  BY <1>1, <1>2, <1>8, <1>9, <1>10, <1>11 DEF Next

\* init, of the global lifecycle or of a context, enables what it has read, or leaves
\* the default when it is not carried to its end.
LEMMA DisabledStep ==
  ASSUME GlobalAssumption, TypeInv, InitType, CrossInv, CoverInv, DisabledInv, [Next]_vars
  PROVE  DisabledInv'
<1>0. initialized \subseteq initialized' /\ \A e : Off(e)' => Off(e)
  BY Grows
<1>1. ASSUME NEW e \in Instance, Off(e)' PROVE users'[e] = {} /\ e \notin started'
  <2>1. Off(e) /\ users[e] = {} /\ e \notin started
    BY <1>0, <1>1 DEF DisabledInv
  <2>2. ASSUME NEW u \in User, place[u] = "inited", doing[u] = e PROVE e \notin enabled
    BY <2>1, <2>2 DEF DisabledInv, Denied
  <2>3. AtStart(e) => FALSE
    BY <2>1, ToStartCovered DEF AtStart, At, Settled, Denied
  <2>4. QED
    BY <2>1, <2>2, <2>3, WhoIsUsed
<1>2. ASSUME NEW e \in Instance \ Plugin PROVE Denied(e)'
  BY <1>2, QuietKept DEF DisabledInv
<1>3. ASSUME NEW e \in initialized' PROVE Denied(e)' \/ \E u \in User : e \in Marked(u)'
  <2>1. e \in Instance
    BY <1>3, TypeStep DEF TypeInv
  <2>2. CASE Denied(e)
    BY <2>1, <2>2, QuietKept
  <2>3. ASSUME NEW u \in User, e \in Marked(u), ~Denied(e)'
        PROVE  \E v \in User : e \in Marked(v)'
    <3>1. place[u] = "marked" /\ doing[u] = e
      BY <2>3 DEF Marked
    <3>2. CASE Still
      BY <2>3, <3>1, <3>2 DEF Still, Marked
    <3>3. ASSUME NEW v \in User, InitKind(v) PROVE \E w \in User : e \in Marked(w)'
      <4>1. CASE u # v
        BY <2>3, <3>3, <4>1, OneMoves
      <4>2. CASE u = v /\ Configure(v)
        <5>1. e \notin enabled' \/ e \in conf[u] \/ e \in InoPlug
          BY <2>1, <3>1, <4>2 DEF Configure, Enabled, Instance
        <5>2. e \in conf[u] => e \in asked'
          BY <3>1, <4>2 DEF Configure
        <5>3. e \in InoPlug => Denied(e)'
          BY <1>2, <2>1 DEF GlobalAssumption
        <5>4. QED
          BY <2>3, <5>1, <5>2, <5>3 DEF Denied, Off
      <4>3. CASE u = v /\ Leaves(v)
        <5>1. e \in halfway'
          BY <2>3, <4>3 DEF Leaves
        <5>2. QED
          BY <1>2, <2>1, <2>3, <5>1 DEF Denied, Off
      <4>4. QED
        BY <3>1, <3>3, <4>1, <4>2, <4>3 DEF InitKind, Mark, Rises
    <3>4. QED
      BY <3>2, <3>3, Kinds
  <2>4. CASE e \in initialized
    BY <2>2, <2>3, <2>4 DEF DisabledInv
  <2>5. CASE e \notin initialized
    <3>1. PICK u \in User : Mark(u) /\ doing[u] = e
      BY <1>3, <2>5, Kinds DEF Still, InitKind, TestInit, Mark, Configure, Rises, Leaves, flags
    <3>2. e \in Marked(u)'
      BY <3>1 DEF Mark, Turn, InitType, Marked
    <3>3. QED
      BY <3>2
  <2>6. QED
    BY <2>4, <2>5
<1>4. ASSUME NEW u \in User, place'[u] \in {"inited", "up"} PROVE Denied(doing[u])'
  <2>1. PICK e : e = doing'[u]
    OBVIOUS
  <2>2. e \in Instance
    BY <1>4, <2>1, InitTypeStep DEF InitType
  <2>3. CASE doing[u] = e /\ place[u] \in {"inited", "up"}
    <3>1. Denied(e)
      BY <2>3 DEF DisabledInv
    <3>2. Denied(e)'
      BY <2>2, <3>1, QuietKept
    <3>3. QED
      BY <2>1, <3>2 DEF Denied, Off
  <2>4. CASE TestInit(u, e)
    <3>1. e \in initialized
      BY <1>4, <2>4 DEF TestInit, Turn, InitType
    <3>2. CASE Denied(e)
      <4>1. Denied(e)'
        BY <2>2, <3>2, QuietKept
      <4>2. QED
        BY <2>1, <4>1 DEF Denied, Off
    <3>3. ASSUME NEW v \in User, e \in Marked(v) PROVE Denied(e)'
      <4>1. e \in halfway'
        BY <2>4, <3>3 DEF TestInit
      <4>2. QED
        BY <1>2, <2>2, <4>1 DEF Denied, Off
    <3>4. Denied(e)'
      BY <2>2, <3>1, <3>2, <3>3, QuietKept DEF DisabledInv
    <3>5. QED
      BY <2>1, <3>4 DEF Denied, Off
  <2>5. CASE Configure(u)
    <3>1. doing[u] = e /\ place[u] = "marked"
      BY <2>1, <2>5 DEF Configure, Turn, InitType
    <3>2. e \notin enabled' \/ e \in asked' \/ e \in InoPlug
      BY <2>2, <2>5, <3>1 DEF Configure, Enabled, Instance
    <3>3. Denied(e)'
      BY <1>2, <2>2, <3>2 DEF Denied, Off, GlobalAssumption
    <3>4. QED
      BY <2>1, <3>3 DEF Denied, Off
  <2>6. \/ doing[u] = e /\ place[u] \in {"inited", "up"}
        \/ TestInit(u, e) \/ Configure(u)
    <3>1. CASE Still
      BY <1>4, <2>1, <3>1 DEF Still
    <3>2. ASSUME NEW v \in User, InitKind(v), v # u
          PROVE  doing[u] = e /\ place[u] \in {"inited", "up"}
      BY <1>4, <2>1, <3>2, OneMoves
    <3>3. CASE InitKind(u)
      <4>1. ~Mark(u) /\ ~Leaves(u)
        BY <1>4 DEF Mark, Leaves, Turn, InitType
      <4>2. Rises(u) => doing[u] = e /\ place[u] = "inited"
        BY <2>1 DEF Rises, Turn, InitType
      <4>3. \A x \in Instance : TestInit(u, x) => x = e
        BY <2>1 DEF TestInit, Turn, InitType
      <4>4. QED
        BY <3>3, <4>1, <4>2, <4>3 DEF InitKind
    <3>4. QED
      BY <3>1, <3>2, <3>3, Kinds
  <2>7. QED
    BY <2>3, <2>4, <2>5, <2>6
<1>5. QED
  BY <1>1, <1>2, <1>3, <1>4 DEF DisabledInv

-----------------------------------------------------------------------------
(* Who claims an instance.                                                 *)

\* What a context has tested and claimed, whatever it is doing.
ContextInv(r) ==
    /\ at[r] = "claim" => \A e \in Shared \ left[r] : owner[e] # NoOne
    /\ at[r] \in Past => \A e \in Shared : owner[e] # NoOne
    /\ known[r] \subseteq initialized
    /\ at[r] = "test" => known[r] \cap (Shared \ left[r]) = {}
    /\ at[r] \in {"claim"} \cup Past => known[r] = {}
Apart(r, q) == r # q /\ Entered(r) /\ Entered(q) => {r, q} \in raced \/ TooLate(r) \/ TooLate(q)
UsesOwned == \A e \in Instance : \A r \in users[e] \cap Context : at[r] \in Past

\* What is said of one context, of two, and of what they use.
LEMMA ClaimParts ==
  ClaimInv <=> /\ \A r \in Context : ContextInv(r)
               /\ \A r, q \in Context : Apart(r, q)
               /\ UsesOwned
  BY DEF Past, ClaimInv, ContextInv, Apart, UsesOwned

\* A step of one context keeps what is known of the others, if what is claimed stays
\* so and what is initialized too.
LEMMA OthersKept ==
  ASSUME TypeInv, ClaimInv, NEW r \in Context,
         \A q \in Context \ {r} : at'[q] = at[q] /\ left'[q] = left[q] /\ known'[q] = known[q],
         \A e \in Shared : owner[e] # NoOne => owner'[e] # NoOne,
         initialized \subseteq initialized', raced \subseteq raced'
  PROVE  /\ \A q \in Context \ {r} : ContextInv(q)' /\ (TooLate(q) => TooLate(q)')
         /\ \A p, q \in Context \ {r} : Apart(p, q)'
<1>1. ASSUME NEW q \in Context \ {r} PROVE ContextInv(q)' /\ (TooLate(q) => TooLate(q)')
  <2>1. ContextInv(q)
    BY ClaimParts
  <2>2. QED
    BY <2>1 DEF Past, ContextInv, TooLate
<1>2. ASSUME NEW p \in Context \ {r}, NEW q \in Context \ {r} PROVE Apart(p, q)'
  <2>1. Apart(p, q)
    BY ClaimParts
  <2>2. at'[p] = at[p] /\ at'[q] = at[q]
    OBVIOUS
  <2>3. QED
    BY <1>1, <2>1, <2>2 DEF Past, Apart, Entered
<1>3. QED
  BY <1>1, <1>2

\* The loop of a context goes on, or it is at the start of the next one.
LEMMA HandledOne ==
  ASSUME TypeInv, NEW r \in Context, NEW e, NEW then, Handled(r, e, then)
  PROVE  /\ \/ left[r] = {e} /\ at'[r] = then /\ left'[r] = Shared
            \/ left[r] # {e} /\ at'[r] = at[r] /\ left'[r] = left[r] \ {e}
         /\ \A q \in Context \ {r} : at'[q] = at[q] /\ left'[q] = left[q]
<1>1. CASE left[r] = {e}
  BY <1>1 DEF Handled, Enter, TypeInv
<1>2. CASE left[r] # {e}
  BY <1>2 DEF Handled, Enter, TypeInv
<1>3. QED
  BY <1>1, <1>2

\* A context that begins after another has claimed is too late.
LEMMA BeginClaims ==
  ASSUME GlobalAssumption, TypeInv, ClaimInv, NEW r \in Context, BeginTests(r) PROVE ClaimInv'
<1>1. /\ at[r] = "new" /\ at'[r] = "test" /\ left'[r] = Shared /\ known'[r] = initialized \cap Shared
      /\ \A q \in Context \ {r} : at'[q] = at[q] /\ left'[q] = left[q] /\ known'[q] = known[q]
      /\ UNCHANGED <<owner, initialized, users>>
      /\ raced' = raced \cup {{r, q} : q \in {c \in Context \ {r} : at[c] \in {"test", "claim"}}}
  BY DEF BeginTests, Enter, TypeInv, flags, history
<1>2. /\ \A q \in Context \ {r} : ContextInv(q)' /\ (TooLate(q) => TooLate(q)')
      /\ \A p, q \in Context \ {r} : Apart(p, q)'
  BY <1>1, OthersKept
<1>3. ContextInv(r)'
  BY <1>1 DEF Past, ContextInv
<1>4. ASSUME NEW q \in Context \ {r} PROVE Apart(r, q)' /\ Apart(q, r)'
  <2>1. CASE at[q] \in {"test", "claim"}
    <3>1. {r, q} \in raced' /\ {q, r} \in raced'
      BY <1>1, <2>1
    <3>2. QED
      BY <3>1 DEF Apart
  <2>2. CASE at[q] \in Past
    <3>1. ContextInv(q)
      BY ClaimParts
    <3>2. TooLate(r)'
      BY <1>1, <2>2, <3>1 DEF Past, ContextInv, TooLate
    <3>3. QED
      BY <3>2 DEF Apart
  <2>3. CASE at[q] \notin {"test", "claim"} \cup Past
    BY <1>1, <2>3 DEF Past, Apart, Entered
  <2>4. QED
    BY <2>1, <2>2, <2>3
<1>5. UsesOwned'
  <2>1. UsesOwned
    BY ClaimParts
  <2>2. \A e \in Instance : r \notin users[e]
    BY <1>1, <2>1 DEF Past, UsesOwned
  <2>3. QED
    BY <1>1, <2>1, <2>2 DEF Past, UsesOwned
<1>6. \A p, q \in Context : Apart(p, q)'
  BY <1>2, <1>4 DEF Apart
<1>7. \A q \in Context : ContextInv(q)'
  BY <1>2, <1>3
<1>8. QED
  BY <1>5, <1>6, <1>7, ClaimParts DEF Past, ClaimInv, ContextInv, Apart, UsesOwned

\* Nothing is too late while an instance is free.
LEMMA TestClaims ==
  ASSUME GlobalAssumption, TypeInv, ClaimInv, NEW r \in Context, NEW e \in Shared, Test(r, e)
  PROVE  ClaimInv'
<1>1. /\ at[r] = "test" /\ e \in left[r] /\ left[r] \subseteq Shared
      /\ UNCHANGED <<owner, initialized, users, known, raced>>
  BY DEF Test, TypeInv, flags, history
<1>2. \A q \in Context \ {r} : at'[q] = at[q] /\ left'[q] = left[q]
  BY HandledOne DEF Test, Enter, TypeInv
<1>3. /\ \A q \in Context \ {r} : ContextInv(q)' /\ (TooLate(q) => TooLate(q)')
      /\ \A p, q \in Context \ {r} : Apart(p, q)'
  BY <1>1, <1>2, OthersKept
<1>4. ContextInv(r) /\ UsesOwned /\ (\A q \in Context : Apart(r, q) /\ Apart(q, r))
  BY ClaimParts
<1>5. UsesOwned'
  <2>1. \A x \in Instance : r \notin users[x]
    BY <1>1, <1>4 DEF Past, UsesOwned
  <2>2. QED
    BY <1>1, <1>2, <1>4, <2>1 DEF Past, UsesOwned
<1>6. CASE Fresh(e)
  <2>1. \/ left[r] = {e} /\ at'[r] = "claim" /\ left'[r] = Shared
        \/ left[r] # {e} /\ at'[r] = "test" /\ left'[r] = left[r] \ {e}
    BY <1>1, <1>6, HandledOne DEF Test
  <2>2. e \notin known[r] /\ known[r] \subseteq Shared
    BY <1>4, <1>6 DEF Past, ContextInv, Fresh, TypeInv
  <2>3. ContextInv(r)'
    <3>1. known[r] \cap (Shared \ left[r]) = {}
      BY <1>1, <1>4 DEF Past, ContextInv
    <3>2. left[r] = {e} => known[r] = {}
      BY <2>2, <3>1
    <3>3. known[r] \cap (Shared \ (left[r] \ {e})) = {}
      BY <2>2, <3>1
    <3>4. known' = known /\ initialized' = initialized /\ known[r] \subseteq initialized
      BY <1>1, <1>4 DEF Past, ContextInv
    <3>5. QED
      BY <2>1, <3>2, <3>3, <3>4 DEF Past, ContextInv
  <2>4. \A q \in Context : ~TooLate(q)
    BY <1>6 DEF TooLate, Fresh
  <2>5. ASSUME NEW q \in Context \ {r} PROVE Apart(r, q)' /\ Apart(q, r)'
    <3>1. Entered(q) => {r, q} \in raced /\ {q, r} \in raced
      BY <1>1, <1>4, <2>4 DEF Past, Apart, Entered
    <3>2. QED
      BY <1>1, <1>2, <3>1 DEF Past, Apart, Entered
  <2>6. QED
    BY <1>3, <1>5, <2>3, <2>5 DEF Past, ClaimInv, ContextInv, Apart, UsesOwned
<1>7. CASE ~Fresh(e)
  <2>1. at'[r] = "rejected"
    BY <1>7 DEF Test, Enter, TypeInv
  <2>2. ContextInv(r)'
    BY <1>1, <1>4, <2>1 DEF Past, ContextInv
  <2>3. \A q \in Context : Apart(r, q)' /\ Apart(q, r)'
    BY <2>1 DEF Past, Apart, Entered
  <2>4. QED
    BY <1>3, <1>5, <2>2, <2>3 DEF Past, ClaimInv, ContextInv, Apart, UsesOwned
<1>8. QED
  BY <1>6, <1>7

\* A claim is never withdrawn here.
LEMMA ClaimClaims ==
  ASSUME GlobalAssumption, TypeInv, ClaimInv, NEW r \in Context, NEW e \in Shared, Claim(r, e)
  PROVE  ClaimInv'
<1>1. /\ at[r] = "claim" /\ e \in left[r] /\ left[r] \subseteq Shared
      /\ UNCHANGED <<initialized, users, known, raced>>
      /\ owner' = [owner EXCEPT ![e] = r] /\ r # NoOne
  BY DEF Claim, TypeInv, flags, history, GlobalAssumption
<1>2. /\ \/ left[r] = {e} /\ at'[r] = "init" /\ left'[r] = Shared
         \/ left[r] # {e} /\ at'[r] = "claim" /\ left'[r] = left[r] \ {e}
      /\ \A q \in Context \ {r} : at'[q] = at[q] /\ left'[q] = left[q]
  BY <1>1, HandledOne DEF Claim
<1>3. owner'[e] # NoOne /\ \A x \in Shared : owner[x] # NoOne => owner'[x] # NoOne
  BY <1>1 DEF TypeInv, GlobalAssumption
<1>4. /\ \A q \in Context \ {r} : ContextInv(q)' /\ (TooLate(q) => TooLate(q)')
      /\ \A p, q \in Context \ {r} : Apart(p, q)'
  BY <1>1, <1>2, <1>3, OthersKept
<1>5. ContextInv(r) /\ UsesOwned /\ (\A q \in Context : Apart(r, q) /\ Apart(q, r))
  BY ClaimParts
<1>6. UsesOwned'
  <2>1. \A x \in Instance : r \notin users[x]
    BY <1>1, <1>5 DEF Past, UsesOwned
  <2>2. QED
    BY <1>1, <1>2, <1>5, <2>1 DEF Past, UsesOwned
<1>7. ContextInv(r)'
  <2>1. \A x \in Shared \ left[r] : owner'[x] # NoOne
    BY <1>1, <1>3, <1>5 DEF Past, ContextInv
  <2>2. \A x \in Shared \ (left[r] \ {e}) : owner'[x] # NoOne
    BY <1>3, <2>1
  <2>3. left[r] = {e} => \A x \in Shared : owner'[x] # NoOne
    BY <2>2
  <2>4. known'[r] = {} /\ known'[r] \subseteq initialized'
    BY <1>1, <1>5 DEF Past, ContextInv
  <2>5. QED
    BY <1>2, <2>2, <2>3, <2>4 DEF Past, ContextInv
<1>8. ASSUME NEW q \in Context \ {r} PROVE Apart(r, q)' /\ Apart(q, r)'
  <2>1. Entered(q) => ({r, q} \in raced /\ {q, r} \in raced) \/ TooLate(q)
    <3>1. {r, q} = {q, r} /\ Apart(r, q) /\ ~TooLate(r) /\ Entered(r)
      BY <1>1, <1>5 DEF TooLate, Entered
    <3>2. QED
      BY <3>1 DEF Apart
  <2>2. Entered(q)' => Entered(q)
    BY <1>2 DEF Past, Entered
  <2>3. QED
    BY <1>1, <1>4, <2>1, <2>2 DEF Apart
<1>9. QED
  BY <1>4, <1>6, <1>7, <1>8 DEF Past, ClaimInv, ContextInv, Apart, UsesOwned

\* Bringing up is left to the contexts that have claimed.
LEMMA BringUpClaims ==
  ASSUME GlobalAssumption, TypeInv, ClaimInv, NEW r \in Context,
         at[r] \in Past, at'[r] \in Past, UNCHANGED <<owner, known, raced>>,
         initialized \subseteq initialized',
         \A x \in Instance : users'[x] \subseteq users[x] \cup {r},
         \A q \in Context \ {r} : at'[q] = at[q] /\ left'[q] = left[q]
  PROVE  ClaimInv'
<1>1. /\ \A q \in Context \ {r} : ContextInv(q)' /\ (TooLate(q) => TooLate(q)')
      /\ \A p, q \in Context \ {r} : Apart(p, q)'
  BY OthersKept
<1>2. ContextInv(r) /\ UsesOwned /\ (\A q \in Context : Apart(r, q) /\ Apart(q, r))
  BY ClaimParts
<1>3. UsesOwned'
  BY <1>2 DEF Past, UsesOwned
<1>4. ContextInv(r)'
  BY <1>2 DEF Past, ContextInv
<1>5. ASSUME NEW q \in Context \ {r} PROVE Apart(r, q)' /\ Apart(q, r)'
  <2>1. Entered(q) => ({r, q} \in raced /\ {q, r} \in raced) \/ TooLate(q)
    <3>1. {r, q} = {q, r} /\ Apart(r, q) /\ ~TooLate(r) /\ Entered(r)
      BY <1>2 DEF Past, TooLate, Entered
    <3>2. QED
      BY <3>1 DEF Apart
  <2>2. Entered(q)' => Entered(q)
    BY DEF Entered
  <2>3. QED
    BY <1>1, <2>1, <2>2 DEF Apart
<1>6. QED
  BY <1>1, <1>3, <1>4, <1>5 DEF ClaimInv, ContextInv, Apart, UsesOwned

\* So they do from step to step of an init.
LEMMA InitClaims ==
  ASSUME GlobalAssumption, TypeInv, InitType, ClaimInv, NEW r \in Context, [Next]_vars,
         \/ \E e \in Shared : ContextInit(r, e) \/ BringUp(r, e)
         \/ ContextInitGoesOn(r) \/ ContextFails(r)
  PROVE  ClaimInv'
<1>1. initialized \subseteq initialized'
  BY Grows
<1>2. \A x \in Instance : users'[x] \subseteq users[x] \cup {r}
  <2>1. CASE Using(r)
    BY <2>1 DEF Using, TypeInv
  <2>2. CASE ~Using(r)
    BY <2>2 DEF ContextInit, TestInit, BringUp, ContextInitGoesOn, InitStep, Mark, Configure,
       ContextFails, history
  <2>3. QED
    BY <2>1, <2>2
<1>3. at[r] = "init" /\ UNCHANGED <<owner, known, raced>>
  BY DEF ContextInit, BringUp, ContextInitGoesOn, ContextFails, claims
<1>4. at'[r] \in Past /\ \A q \in Context \ {r} : at'[q] = at[q] /\ left'[q] = left[q]
  <2>1. ASSUME NEW e \in Shared, BringUp(r, e)
        PROVE at'[r] \in Past /\ \A q \in Context \ {r} : at'[q] = at[q] /\ left'[q] = left[q]
    BY <1>3, <2>1, HandledOne DEF BringUp, Past
  <2>2. ContextFails(r) =>
          at'[r] \in Past /\ \A q \in Context \ {r} : at'[q] = at[q] /\ left'[q] = left[q]
    BY DEF ContextFails, Enter, TypeInv, Past
  <2>3. ContextInitGoesOn(r) \/ (\E e \in Shared : ContextInit(r, e)) =>
          at'[r] \in Past /\ \A q \in Context \ {r} : at'[q] = at[q] /\ left'[q] = left[q]
    BY <1>3 DEF ContextInitGoesOn, ContextInit, claims, Past
  <2>4. QED
    BY <2>1, <2>2, <2>3
<1>5. QED
  BY <1>1, <1>2, <1>3, <1>4, BringUpClaims DEF Past

\* The global lifecycle initializes instances, but claims none.
LEMMA ClaimStep ==
  ASSUME GlobalAssumption, TypeInv, InitType, ClaimInv, [Next]_vars PROVE ClaimInv'
<1> USE DEF flags, claims, history, frames, loop
<1>1. ASSUME UNCHANGED claims, initialized \subseteq initialized',
             \A e \in Instance : users'[e] \cap Context = users[e] \cap Context
      PROVE  ClaimInv'
  <2>1. UNCHANGED <<owner, at, left, known, raced>>
    BY <1>1
  <2>2. ASSUME NEW r \in Context PROVE ContextInv(r)'
    <3>1. ContextInv(r)
      BY ClaimParts
    <3>2. QED
      BY <1>1, <2>1, <3>1 DEF Past, ContextInv
  <2>3. ASSUME NEW r \in Context, NEW q \in Context PROVE Apart(r, q)'
    <3>1. Apart(r, q)
      BY ClaimParts
    <3>2. QED
      BY <2>1, <3>1 DEF Past, Apart, Entered, TooLate
  <2>4. UsesOwned'
    <3>1. UsesOwned
      BY ClaimParts
    <3>2. QED
      BY <1>1, <2>1, <3>1 DEF Past, UsesOwned
  <2>5. QED
    BY <2>2, <2>3, <2>4 DEF Past, ClaimInv, ContextInv, Apart, UsesOwned
<1>2. CASE UNCHANGED <<claims, initialized, users>>
  BY <1>1, <1>2
<1>3. CASE SafeInit
  <2>1. \A x \in Instance : users'[x] \cap Context = users[x] \cap Context
    BY <1>3 DEF SafeInit, Using, TypeInv, GlobalAssumption
  <2>2. QED
    BY <1>1, <1>3, <2>1 DEF SafeInit
<1>4. CASE InitGoesOn
  <2>1. UNCHANGED claims /\ users' = users
    BY <1>4 DEF InitGoesOn, InitStep, Mark, Configure
  <2>2. QED
    BY <1>1, <2>1, Grows
<1>5. CASE LauncherStep
  <2>1. LoadConf \/ MakeWatcher \/ RegisterWatcher \/ Prepare \/ EndOfLoop \/ StartPlugins
          \/ StartWatcher \/ InitRaises => ClaimInv'
    BY <1>2 DEF LoadConf, MakeWatcher, RegisterWatcher, Prepare, EndOfLoop, StartPlugins,
       StartWatcher, InitRaises
  <2>2. \A e \in Instance : InitInstance(e) \/ Skip(e) \/ Register(e) \/ AtStart(e) => ClaimInv'
    BY <1>2 DEF InitInstance, TestInit, Skip, Register, AtStart
  <2>3. QED
    BY <1>3, <1>4, <1>5, <2>1, <2>2 DEF LauncherStep
<1>6. CASE Signal \/ StopStep
  BY <1>2, <1>6 DEF Signal, StopStep, CallbackReturns, CallbackRaises, StopReturns
<1>7. CASE UNCHANGED vars
  BY <1>2, <1>7 DEF vars
<1>8. ASSUME NEW r \in Context, ContextStep(r) PROVE ClaimInv'
  BY <1>8, BeginClaims, TestClaims, ClaimClaims, InitClaims DEF ContextStep
<1>9. QED
  BY <1>5, <1>6, <1>7, <1>8 DEF Next

-----------------------------------------------------------------------------
(* The invariant, and what follows from it.                                *)

\* The invariant holds when the process starts.
LEMMA InitInv == GlobalAssumption /\ Init => IInv
<1> SUFFICES ASSUME GlobalAssumption, Init PROVE IInv
  OBVIOUS
<1>1. FrameInv
  BY DEF Init, FrameInv
<1>2. ClaimInv
  BY DEF Init, ClaimInv, Entered, Past
<1>3. Config \in User /\ \A u \in User : place[u] = "next" /\ Begun(u) = {}
  BY DEF Init, User, Begun, Marked
<1>4. CrossInv /\ CoverInv /\ DisabledInv /\ WatcherInv
  BY <1>3 DEF Init, CrossInv, CoverInv, DisabledInv, WatcherInv, Denied, NoWatcher
<1>5. AcquiredInv
  <2>1. Unregistered = {} /\ loads = 0 /\ step = "rest"
    BY DEF Init, Unregistered, Acquired
  <2>2. QED
    BY <2>1, FS_EmptySet DEF AcquiredInv, load
<1>6. QED
  BY <1>1, <1>2, <1>4, <1>5, TypeInit DEF IInv

\* The conjunction of the parts is inductive.
LEMMA Invariance == Spec => []IInv
<1>1. Init => IInv
  BY InitInv, GlobalAssumption
<1>2. IInv /\ [Next]_vars => IInv'
  BY TypeStep, InitTypeStep, FrameStep, CrossStep, DisabledStep, CoverStep, WatcherStep,
     AcquiredStep, ClaimStep, GlobalAssumption DEF IInv
<1>3. QED
  BY <1>1, <1>2, PTL DEF Spec

\* However loads fail and are repeated, what was started can be stopped unless a context
\* was in its init with load_conf, and each call of load_conf leaves at most one
\* instance that nothing will release.
THEOREM StartedIsCovered == Spec => []Covered
<1>1. IInv => Covered
  BY DEF IInv, CoverInv, AcquiredInv, Covered, Unregistered, Registered
<1>2. QED
  BY <1>1, Invariance, PTL

\* Whatever configurations are read one after the other, and wherever an init is left or
\* met by another user, an instance is brought up or started only if its init has read a
\* configuration that enables it, or if it is a plugin with a half-done init.
THEOREM DisabledIsNotUsed == Spec => []DisabledStaysDown
<1>1. IInv => DisabledStaysDown
  BY DEF IInv, DisabledInv, Off, DisabledStaysDown
<1>2. QED
  BY <1>1, Invariance, PTL

\* The two loops of initialize keep contexts apart unless they overlap there.
THEOREM OwnedByOne == Spec => []OneOwner
<1>1. ASSUME IInv, NEW e \in Instance, NEW r \in users[e] \cap Context PROVE e \notin known[r]
  BY <1>1 DEF IInv, ClaimInv
<1>2. ASSUME IInv, NEW e \in Instance, NEW r \in users[e] \cap Context,
             NEW q \in users[e] \cap Context, r # q
      PROVE  {r, q} \in raced
  <2>1. at[r] \in Past /\ at[q] \in Past
    BY <1>2 DEF IInv, ClaimInv
  <2>2. Entered(r) /\ Entered(q) /\ ~TooLate(r) /\ ~TooLate(q)
    BY <2>1 DEF Past, Entered, TooLate
  <2>3. QED
    BY <1>2, <2>2 DEF IInv, ClaimInv
<1>3. IInv => OneOwner
  BY <1>1, <1>2 DEF OneOwner
<1>4. QED
  BY <1>3, Invariance, PTL
=============================================================================
