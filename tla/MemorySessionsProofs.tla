------------------------ MODULE MemorySessionsProofs ------------------------
(***************************************************************************)
(* Proofs about MemorySessions, for every number of clients and tokens,    *)
(* every capacity, TTL and clock resolution.                               *)
(***************************************************************************)
EXTENDS MemorySessions, FiniteSetTheorems, TLAPS

-----------------------------------------------------------------------------
(* Arithmetic of the expiry computations.                                  *)

\* A product of durations is a duration.
LEMMA Duration == ASSUME NEW a \in Nat, NEW b \in Nat PROVE a * b \in Nat
  BY SMT

\* Scaling durations keeps their order.
LEMMA Scaling ==
  ASSUME NEW a \in Int, NEW b \in Int, NEW c \in Nat, a <= b
  PROVE  a * c <= b * c
  BY SMT

\* Rounding the remaining life down to seconds never exceeds it.
LEMMA RenewalBound ==
  ASSUME NEW abs \in Nat, NEW now \in Nat, SessionAssumption
  PROVE  /\ RenewalTTL(abs, now) \in Int
         /\ RenewalTTL(abs, now) * Second <= abs - now
<1> DEFINE q == (abs - now) \div Second
<1>1. q \in Int /\ q * Second <= abs - now
  BY SMT DEF SessionAssumption
<1>2. RenewalTTL(abs, now) \in Int /\ RenewalTTL(abs, now) <= q
  BY <1>1 DEF RenewalTTL, Sooner, SessionAssumption
<1>3. RenewalTTL(abs, now) * Second <= q * Second
  <2>1. Second \in Nat
    BY DEF SessionAssumption
  <2> HIDE DEF q
  <2> QED BY <1>1, <1>2, <2>1, Scaling
<1>4. RenewalTTL(abs, now) * Second \in Int /\ q * Second \in Int
  BY <1>1, <1>2 DEF SessionAssumption
<1> HIDE DEF q
<1> QED BY <1>1, <1>2, <1>3, <1>4

\* The idle TTL fits in the absolute one, in ticks as in seconds.
LEMMA IdleFits ==
  ASSUME SessionAssumption
  PROVE  /\ IdleTTL * Second \in Nat \ {0}
         /\ AbsoluteTTL * Second \in Nat
         /\ IdleTTL * Second <= AbsoluteTTL * Second
  BY SMT DEF SessionAssumption

-----------------------------------------------------------------------------
(* The inductive invariant, in named parts.                                *)

\* The lock is held exactly between the two halves of create and of touch.
LockInv == \A c \in Client : pc[c] \in {"storing", "touching"} <=> lock = c

\* What the locals of a call say of the store.
CallInv ==
    \A c \in Client :
        /\ call[c].now <= clock
        /\ pc[c] \in {"draw", "storing"} =>
               call[c].abs = call[c].now + AbsoluteTTL * Second
        /\ pc[c] = "storing" =>
               call[c].token \in Token /\ record[call[c].token] = 0
        /\ pc[c] \in {"check", "expire", "ttl", "touch", "touching"} =>
               /\ call[c].token \in Token
               /\ record[call[c].token] = call[c].abs
               /\ call[c].abs > 0
        /\ pc[c] = "expire" => call[c].abs <= clock
        /\ pc[c] \in {"touch", "touching"} =>
               call[c].now + call[c].ttl * Second <= call[c].abs
        /\ pc[c] = "touching" => entry[call[c].token] # Absent

\* A token that was never stored has left no trace.
RecordInv ==
    \A t \in Token :
        record[t] = 0 => entry[t] = Absent /\ granted[t] = 0 /\ t \notin denied

\* What callers were told, against what is stored.
StoreInv == RecordInv /\ GrantWithinLifetime /\ NoResurrection /\ GrantHonoured

IInv == TypeOK /\ LockInv /\ CallInv /\ StoreInv

-----------------------------------------------------------------------------
(* Type correctness.                                                       *)

\* Init and every step keep the variables in their types (TypeOK), whatever the
\* constants: in particular a renewal's TTL is never negative when it is used.
LEMMA TypeInit == ASSUME SessionAssumption, MemoryAssumption, Init PROVE TypeOK
  BY
     DEF SessionAssumption, MemoryAssumption, Init, ManagerInit, TypeOK, ManagerTypeOK,
         Call, NoCall, Step, Absent, Draws

\* Every step keeps the types.
LEMMA TypeStep ==
  ASSUME SessionAssumption, MemoryAssumption, TypeOK, [Next]_vars
  PROVE  TypeOK'
<1> USE SessionAssumption, MemoryAssumption DEF TypeOK, ManagerTypeOK
<1>1. NoCall \in Call
  BY DEF NoCall, Call, Draws, SessionAssumption
<1>2. CASE UNCHANGED vars
  BY <1>2 DEF vars, managerVars
<1>3. CASE Tick
  BY <1>3 DEF Tick
<1>4. ASSUME NEW c \in Client, ClientStep(c)
      PROVE  TypeOK'
  <2>0. /\ call[c] \in Call
        /\ call[c].token \in Token \cup {NoToken}
        /\ call[c].now \in Nat /\ call[c].abs \in Nat /\ call[c].ttl \in Nat
        /\ call[c].draws \in 0 .. Draws - 1
    <3>1. call[c] \in Call
      OBVIOUS
    <3> QED BY <3>1 DEF Call
  <2>1. CASE BeginCreate(c, Unused) /\ UNCHANGED <<entry, lock>>
    <3>1. clock + AbsoluteTTL * Second \in Nat
      BY IdleFits
    <3> QED BY <2>1, <3>1, <1>1 DEF BeginCreate, Continue, Step, Call, NoCall
  <2>2. CASE CheckLifetime(c) /\ UNCHANGED <<entry, lock>>
    BY <2>2, <1>1 DEF CheckLifetime, Continue, Return, Step
  <2>3. CASE ComputeTTL(c) /\ UNCHANGED <<entry, lock>>
    <3> DEFINE ttl == RenewalTTL(call[c].abs, clock)
               l == [call[c] EXCEPT !.now = clock, !.ttl = ttl]
    <3>1. ttl \in Int
      BY <2>0, RenewalBound
    <3>2. ttl >= 1 => l \in Call
      <4> SUFFICES ASSUME ttl >= 1 PROVE l \in Call
        OBVIOUS
      <4> DEFINE m == [call[c] EXCEPT !.now = clock]
      <4> HIDE DEF ttl
      <4>1. m \in Call /\ ttl \in Nat
        BY <2>0, <3>1 DEF Call
      <4>2. [m EXCEPT !.ttl = ttl] \in Call
        <5> HIDE DEF m
        <5> QED BY <4>1 DEF Call
      <4> QED BY <4>2
    <3>5. l.token = call[c].token
      BY <2>0, <3>1 DEF Call
    <3> HIDE DEF l, ttl
    <3>3. CASE ttl < 1
      BY <2>3, <3>3, <1>1 DEF ComputeTTL, Return, Continue, Step, ttl
    <3>4. CASE ~(ttl < 1)
      <4>1. Continue(c, "touch", l) /\ UNCHANGED <<clock, record, granted, denied, revoked, entry, lock>>
        BY <2>3, <3>4 DEF ComputeTTL, l, ttl
      <4>2. l \in Call
        BY <3>1, <3>2, <3>4
      <4> QED BY <2>0, <2>3, <4>1, <4>2, <3>5 DEF ComputeTTL, Continue, Step
    <3> QED BY <3>3, <3>4
  <2>4. CASE CreateCollides(c)
    BY <2>4, <1>1 DEF CreateCollides, Collide, Continue, Return, Step, Call, Draws
  <2>5. CASE CreateFull(c)
    BY <2>5, <1>1 DEF CreateFull, CreateRoom, Purged, Absent, Return, Continue, Step
  <2>6. CASE CreateCheck(c)
    BY <2>6, <1>1
       DEF CreateCheck, CreateRoom, Purged, Absent, Continue, Step, Call, Unused
  <2>7. CASE CreateStore(c)
    <3>1. clock + IdleTTL * Second \in Nat /\ call[c].now + IdleTTL * Second \in Nat
      BY <2>0, IdleFits
    <3> QED BY <2>7, <2>0, <3>1, <1>1
           DEF CreateStore, Grant, Later, Return, Continue, Step, MemoryAssumption
  <2>8. CASE ExpireSession(c)
    BY <2>8, <1>1 DEF ExpireSession, Deny, Return, Continue, Step, Absent
  <2>9. CASE TouchCheck(c)
    BY <2>9, <1>1 DEF TouchCheck, Deny, Return, Continue, Step, Absent
  <2>10. CASE TouchStore(c)
    <3>1. clock + call[c].ttl * Second \in Nat /\ call[c].now + call[c].ttl * Second \in Nat
      BY <2>0, Duration DEF SessionAssumption
    <3> QED BY <2>10, <3>1, <1>1
           DEF TouchStore, Grant, Later, Return, Continue, Step, MemoryAssumption
  <2>11. ASSUME NEW t \in Token, NEW r \in BOOLEAN, BackendRead(c, t, r)
         PROVE  TypeOK'
    <3> DEFINE l == Reading(t, r)
    <3>1. l \in Call
      <4>1. record[t] \in Nat /\ r \in BOOLEAN /\ t \in Token
        OBVIOUS
      <4> QED BY <4>1 DEF Reading, Call, Draws
    <3>2. l.token = t
      BY DEF Reading
    <3> HIDE DEF l
    <3>3. CASE Live(t)
      <4>1. Continue(c, "check", l) /\ UNCHANGED <<clock, record, granted, denied, revoked, entry, lock>>
        BY <2>11, <3>3 DEF BackendRead, l
      <4> QED BY <4>1, <3>1, <3>2 DEF Continue, Step
    <3>4. CASE ~Live(t)
      BY <2>11, <3>4, <1>1 DEF BackendRead, Deny, Return, Continue, Step, Absent
    <3> QED BY <3>3, <3>4
  <2>12. ASSUME NEW t \in Token, Revoke(c, t)
         PROVE  TypeOK'
    BY <2>12 DEF Revoke, Absent
  <2> QED
    BY <1>4, <2>1, <2>2, <2>3, <2>4, <2>5, <2>6, <2>7, <2>8, <2>9, <2>10, <2>11, <2>12
       DEF ClientStep
<1> QED BY <1>2, <1>3, <1>4 DEF Next

-----------------------------------------------------------------------------

-----------------------------------------------------------------------------
(* The invariant is inductive.                                             *)

\* A step that leaves the store and what callers were told leaves StoreInv.
LEMMA StoreUnchanged ==
  ASSUME StoreInv, UNCHANGED <<clock, record, granted, denied, revoked, entry>>
  PROVE  StoreInv'
  BY DEF StoreInv, RecordInv, GrantWithinLifetime, NoResurrection, GrantHonoured

\* Init establishes the invariant.
LEMMA InvInit == ASSUME SessionAssumption, MemoryAssumption, Init PROVE IInv
<1>1. TypeOK
  BY TypeInit
<1>2. LockInv /\ CallInv
  BY DEF Init, ManagerInit, LockInv, CallInv, NoCall, MemoryAssumption
<1>3. StoreInv
  BY
     DEF Init, ManagerInit, StoreInv, RecordInv, GrantWithinLifetime, NoResurrection,
         GrantHonoured
<1> QED BY <1>1, <1>2, <1>3 DEF IInv

\* Every step, of the clock or of a client, preserves it.
LEMMA InvStep ==
  ASSUME SessionAssumption, MemoryAssumption, IInv, [Next]_vars
  PROVE  IInv'
<1> USE SessionAssumption, MemoryAssumption DEF Absent
<1>0. /\ TypeOK /\ LockInv /\ CallInv /\ StoreInv
      /\ TypeOK' /\ NoCall \in Call
  BY TypeStep DEF IInv, NoCall, Call, Draws
<1> USE DEF TypeOK, ManagerTypeOK
<1>2. CASE UNCHANGED vars
  <2>1. LockInv' /\ CallInv'
    BY <1>2, <1>0 DEF vars, managerVars, LockInv, CallInv
  <2> QED BY <2>1, <1>0, <1>2, StoreUnchanged DEF vars, managerVars, IInv
<1>3. CASE Tick
  <2>1. LockInv'
    BY <1>3, <1>0 DEF Tick, LockInv
  <2>2. CallInv'
    BY <1>3, <1>0 DEF Tick, CallInv, Call
  <2>3. StoreInv'
    BY <1>3, <1>0
       DEF Tick, StoreInv, RecordInv, GrantWithinLifetime, NoResurrection, GrantHonoured
  <2> QED BY <2>1, <2>2, <2>3, <1>0 DEF IInv
<1>4. ASSUME NEW c \in Client, ClientStep(c)
      PROVE  IInv'
  <2>0. IInv' <=> LockInv' /\ CallInv' /\ StoreInv'
    BY <1>0 DEF IInv
  <2>1. CASE BeginCreate(c, Unused) /\ UNCHANGED <<entry, lock>>
    <3>1. LockInv'
      BY <2>1, <1>0 DEF BeginCreate, Continue, LockInv
    <3>2. CallInv'
      BY <2>1, <1>0 DEF BeginCreate, Continue, CallInv
    <3>3. StoreInv'
      BY <2>1, <1>0, StoreUnchanged DEF BeginCreate
    <3> QED BY <2>0, <3>1, <3>2, <3>3
  <2>2. CASE CheckLifetime(c) /\ UNCHANGED <<entry, lock>>
    <3>1. LockInv'
      BY <2>2, <1>0 DEF CheckLifetime, Return, Continue, LockInv
    <3>2. CallInv'
      BY <2>2, <1>0 DEF CheckLifetime, NoCall, Return, Continue, CallInv
    <3>3. StoreInv'
      BY <2>2, <1>0, StoreUnchanged DEF CheckLifetime
    <3> QED BY <2>0, <3>1, <3>2, <3>3
  <2>3. CASE ComputeTTL(c) /\ UNCHANGED <<entry, lock>>
    <3>1. LockInv'
      BY <2>3, <1>0 DEF ComputeTTL, Return, Continue, LockInv
    <3>2. CallInv'
      <4> DEFINE ttl == RenewalTTL(call[c].abs, clock)
      <4>1. /\ call[c] \in Call /\ call[c].abs \in Nat
            /\ ttl \in Int /\ ttl * Second <= call[c].abs - clock
        BY <1>0, RenewalBound DEF Call
      <4>2. clock + ttl * Second <= call[c].abs
        <5>1. ttl * Second \in Int
          BY <4>1
        <5> QED BY <4>1, <5>1, <1>0
      <4> HIDE DEF ttl
      <4>3. CASE ttl < 1
        BY <4>3, <2>3, <1>0 DEF ComputeTTL, NoCall, Return, Continue, CallInv, ttl
      <4>4. CASE ~(ttl < 1)
        <5> DEFINE l == [call[c] EXCEPT !.now = clock, !.ttl = ttl]
        <5>1. Continue(c, "touch", l) /\ UNCHANGED <<clock, record, entry>>
          BY <4>4, <2>3 DEF ComputeTTL, ttl
        <5>2. /\ l.now = clock /\ l.ttl = ttl
              /\ l.abs = call[c].abs /\ l.token = call[c].token
          BY <4>1
        <5> HIDE DEF l
        <5>3. pc[c] = "ttl"
          BY <2>3 DEF ComputeTTL
        <5> QED BY <5>1, <5>2, <5>3, <4>2, <1>0 DEF Continue, CallInv
      <4> QED BY <4>3, <4>4
    <3>3. StoreInv'
      BY <2>3, <1>0, StoreUnchanged DEF ComputeTTL
    <3> QED BY <2>0, <3>1, <3>2, <3>3
  <2>4. CASE CreateCollides(c)
    <3>1. LockInv'
      BY <2>4, <1>0 DEF CreateCollides, Collide, Return, Continue, LockInv
    <3>2. CallInv'
      BY <2>4, <1>0 DEF CreateCollides, Collide, NoCall, Return, Continue, CallInv, Call
    <3>3. StoreInv'
      BY <2>4, <1>0, StoreUnchanged DEF CreateCollides
    <3> QED BY <2>0, <3>1, <3>2, <3>3
  <2>5. CASE CreateFull(c)
    <3>1. LockInv'
      BY <2>5, <1>0 DEF CreateFull, Return, Continue, LockInv
    <3>2. CallInv'
      BY <2>5, <1>0 DEF CreateFull, NoCall, Return, Continue, LockInv, CallInv
    <3>3. StoreInv'
      BY <2>5, <1>0
         DEF CreateFull, CreateRoom, Purged, Live, StoreInv, RecordInv,
             GrantWithinLifetime, NoResurrection, GrantHonoured
    <3> QED BY <2>0, <3>1, <3>2, <3>3
  <2>6. CASE CreateCheck(c)
    <3>1. LockInv'
      BY <2>6, <1>0 DEF CreateCheck, Continue, LockInv
    <3>2. CallInv'
      BY <2>6, <1>0 DEF CreateCheck, Unused, Continue, LockInv, CallInv
    <3>3. StoreInv'
      BY <2>6, <1>0
         DEF CreateCheck, CreateRoom, Purged, Live, StoreInv, RecordInv,
             GrantWithinLifetime, NoResurrection, GrantHonoured
    <3> QED BY <2>0, <3>1, <3>2, <3>3
  <2>7. CASE CreateStore(c)
    <3>1. LockInv'
      BY <2>7, <1>0 DEF CreateStore, Return, Continue, LockInv
    <3>2. CallInv'
      BY <2>7, <1>0, IdleFits
         DEF CreateStore, NoCall, Return, Continue, LockInv, CallInv
    <3>3. StoreInv'
      <4> DEFINE t == call[c].token
      <4>1. /\ t \in Token /\ record[t] = 0 /\ pc[c] = "storing"
            /\ call[c].now \in Nat /\ call[c].now <= clock
            /\ call[c].abs = call[c].now + AbsoluteTTL * Second
        BY <2>7, <1>0 DEF CreateStore, CallInv, Call
      <4>2. /\ IdleTTL * Second \in Nat \ {0}
            /\ AbsoluteTTL * Second \in Nat
            /\ IdleTTL * Second <= AbsoluteTTL * Second
        BY IdleFits
      <4>3. granted[t] = 0 /\ t \notin denied
        BY <4>1, <1>0 DEF StoreInv, RecordInv
      <4>4. /\ record' = [record EXCEPT ![t] = call[c].abs]
            /\ entry' = [entry EXCEPT ![t] = clock + IdleTTL * Second]
            /\ granted' = [granted EXCEPT ![t] = call[c].now + IdleTTL * Second]
            /\ UNCHANGED <<clock, denied, revoked>>
        <5>1. Later(granted[t], call[c].now + IdleTTL * Second)
                  = call[c].now + IdleTTL * Second
          BY <4>1, <4>2, <4>3 DEF Later
        <5> QED BY <2>7, <5>1 DEF CreateStore, Grant
      <4> HIDE DEF t
      <4>5. RecordInv' /\ NoResurrection'
        BY <1>0, <4>1, <4>2, <4>3, <4>4 DEF StoreInv, RecordInv, NoResurrection
      <4>6. GrantWithinLifetime'
        BY <1>0, <4>1, <4>2, <4>4 DEF StoreInv, GrantWithinLifetime
      <4>7. GrantHonoured'
        BY <1>0, <4>1, <4>2, <4>4 DEF StoreInv, GrantHonoured
      <4> QED BY <4>5, <4>6, <4>7 DEF StoreInv
    <3> QED BY <2>0, <3>1, <3>2, <3>3
  <2>8. CASE ExpireSession(c)
    <3>1. LockInv'
      BY <2>8, <1>0 DEF ExpireSession, Deny, Return, Continue, LockInv
    <3>2. CallInv'
      BY <2>8, <1>0 DEF ExpireSession, Deny, NoCall, Return, Continue, LockInv, CallInv
    <3>3. StoreInv'
      BY <2>8, <1>0
         DEF ExpireSession, Deny, CallInv, StoreInv, RecordInv, GrantWithinLifetime,
             NoResurrection, GrantHonoured
    <3> QED BY <2>0, <3>1, <3>2, <3>3
  <2>9. CASE TouchCheck(c)
    <3>1. LockInv'
      BY <2>9, <1>0 DEF TouchCheck, Deny, Return, Continue, LockInv
    <3>2. CallInv'
      BY <2>9, <1>0
         DEF TouchCheck, Deny, Live, NoCall, Return, Continue, LockInv, CallInv, Call
    <3>3. StoreInv'
      <4>1. CASE Live(call[c].token)
        BY <4>1, <2>9, <1>0, StoreUnchanged DEF TouchCheck
      <4>2. CASE ~Live(call[c].token)
        <5> DEFINE t == call[c].token
        <5>1. /\ t \in Token /\ record[t] # 0 /\ entry[t] <= clock
          BY <4>2, <2>9, <1>0 DEF TouchCheck, CallInv, Live
        <5>2. /\ entry' = [entry EXCEPT ![t] = 0]
              /\ denied' = denied \cup {t}
              /\ UNCHANGED <<clock, record, granted, revoked>>
          BY <4>2, <2>9 DEF TouchCheck, Deny
        <5> HIDE DEF t
        <5> QED BY <5>1, <5>2, <1>0
               DEF StoreInv, RecordInv, GrantWithinLifetime, NoResurrection, GrantHonoured
      <4> QED BY <4>1, <4>2
    <3> QED BY <2>0, <3>1, <3>2, <3>3
  <2>10. CASE TouchStore(c)
    <3>1. LockInv'
      BY <2>10, <1>0 DEF TouchStore, Return, Continue, LockInv
    <3>2. CallInv'
      BY <2>10, <1>0 DEF TouchStore, NoCall, Return, Continue, LockInv, CallInv
    <3>3. StoreInv'
      BY <2>10, <1>0
         DEF TouchStore, Grant, Later, CallInv, StoreInv, RecordInv, GrantWithinLifetime,
             NoResurrection, GrantHonoured, Call
    <3> QED BY <2>0, <3>1, <3>2, <3>3
  <2>11. ASSUME NEW t \in Token, NEW r \in BOOLEAN, BackendRead(c, t, r)
         PROVE  IInv'
    <3>1. LockInv'
      BY <2>11, <1>0 DEF BackendRead, Deny, Return, Continue, LockInv
    <3>2. CallInv'
      BY <2>11, <1>0
         DEF BackendRead, Live, Deny, Reading, NoCall, Return, Continue, LockInv,
             CallInv, StoreInv, RecordInv
    <3>3. StoreInv'
      BY <2>11, <1>0
         DEF BackendRead, Presents, Live, Deny, Reading, Return, Continue, LockInv,
             CallInv, StoreInv, RecordInv, GrantWithinLifetime, NoResurrection,
             GrantHonoured
    <3> QED BY <2>0, <3>1, <3>2, <3>3
  <2>12. ASSUME NEW t \in Token, Revoke(c, t)
         PROVE  IInv'
    <3>1. LockInv'
      BY <2>12, <1>0 DEF Revoke, LockInv
    <3>2. CallInv'
      BY <2>12, <1>0 DEF Revoke, LockInv, CallInv
    <3>3. StoreInv'
      BY <2>12, <1>0
         DEF Revoke, Presents, StoreInv, RecordInv, GrantWithinLifetime, NoResurrection,
             GrantHonoured
    <3> QED BY <2>0, <3>1, <3>2, <3>3
  <2> QED
    BY <1>4, <2>1, <2>2, <2>3, <2>4, <2>5, <2>6, <2>7, <2>8, <2>9, <2>10, <2>11, <2>12
       DEF ClientStep
<1> QED BY <1>2, <1>3, <1>4 DEF Next

-----------------------------------------------------------------------------
(* The capacity.  It is no part of IInv: only the lock is needed for it.   *)

\* While a create is between its two halves, the room it found is still there.
RoomInv ==
    /\ Cardinality(Stored(entry)) <= Capacity
    /\ \A c \in Client : pc[c] = "storing" => Cardinality(Stored(entry)) < Capacity

\* Deleting entries never takes up room.
LEMMA FewerStored ==
  ASSUME IsFiniteSet(Token), NEW e, NEW f, Stored(f) \subseteq Stored(e)
  PROVE  /\ Cardinality(Stored(e)) \in Nat /\ Cardinality(Stored(f)) \in Nat
         /\ Cardinality(Stored(f)) <= Cardinality(Stored(e))
<1>1. Stored(e) \subseteq Token
  BY DEF Stored
<1>2. IsFiniteSet(Stored(e))
  BY <1>1, FS_Subset
<1> QED BY <1>2, FS_Subset, FS_CardinalityType

\* Adding an element to a finite set adds at most one to its size.
LEMMA OneMore ==
  ASSUME NEW S, NEW x, IsFiniteSet(S)
  PROVE  /\ IsFiniteSet(S \cup {x})
         /\ Cardinality(S) \in Nat /\ Cardinality(S \cup {x}) \in Nat
         /\ Cardinality(S \cup {x}) <= Cardinality(S) + 1
<1>1. Cardinality(S) \in Nat
  BY FS_CardinalityType
<1>2. IsFiniteSet(S \cup {x})
  BY FS_AddElement
<1>3. Cardinality(S \cup {x}) = IF x \in S THEN Cardinality(S) ELSE Cardinality(S) + 1
  BY FS_AddElement
<1> QED BY <1>1, <1>2, <1>3

\* Storing under one token takes up at most one more place.
LEMMA OneMoreStored ==
  ASSUME IsFiniteSet(Token), NEW e, NEW f, NEW t \in Token,
         Stored(f) \subseteq Stored(e) \cup {t}
  PROVE  /\ Cardinality(Stored(e)) \in Nat /\ Cardinality(Stored(f)) \in Nat
         /\ Cardinality(Stored(f)) <= Cardinality(Stored(e)) + 1
<1>1. IsFiniteSet(Stored(e))
  <2>1. Stored(e) \subseteq Token
    BY DEF Stored
  <2> QED BY <2>1, FS_Subset
<1>2. /\ IsFiniteSet(Stored(e) \cup {t})
      /\ Cardinality(Stored(e) \cup {t}) \in Nat
      /\ Cardinality(Stored(e) \cup {t}) <= Cardinality(Stored(e)) + 1
  BY <1>1, OneMore
<1>3. IsFiniteSet(Stored(f)) /\ Cardinality(Stored(f)) <= Cardinality(Stored(e) \cup {t})
  <2> DEFINE S == Stored(e) \cup {t}
  <2>1. Stored(f) \in SUBSET S /\ IsFiniteSet(S)
    BY <1>2
  <2> HIDE DEF S
  <2>2. IsFiniteSet(Stored(f)) /\ Cardinality(Stored(f)) <= Cardinality(S)
    BY <2>1, FS_Subset
  <2> QED BY <2>2 DEF S
<1> QED BY <1>1, <1>2, <1>3, FS_CardinalityType

\* Init and every step keep the room that a create in progress relies on.
LEMMA RoomStep ==
  ASSUME SessionAssumption, MemoryAssumption, IInv, RoomInv, [Next]_vars
  PROVE  RoomInv'
<1>0. /\ IsFiniteSet(Token) /\ Capacity \in Nat
      /\ TypeOK /\ LockInv
      /\ pc \in [Client -> Step] /\ entry \in [Token -> Nat]
      /\ Cardinality(Stored(entry)) \in Nat
  BY FewerStored DEF IInv, TypeOK, ManagerTypeOK
<1>1. ASSUME Stored(entry') \subseteq Stored(entry),
             \A c \in Client : pc'[c] = "storing" => pc[c] = "storing"
      PROVE  RoomInv'
  BY <1>0, <1>1, FewerStored DEF RoomInv
<1>2. CASE UNCHANGED vars
  BY <1>2, <1>1 DEF vars, managerVars
<1>3. CASE Tick
  BY <1>3, <1>1 DEF Tick
<1>4. ASSUME NEW c \in Client, ClientStep(c)
      PROVE  RoomInv'
  <2>1. CASE \/ (BeginCreate(c, Unused) \/ CheckLifetime(c) \/ ComputeTTL(c))
                /\ UNCHANGED <<entry, lock>>
             \/ CreateCollides(c)
    BY <2>1, <1>0, <1>1
       DEF BeginCreate, CheckLifetime, ComputeTTL, CreateCollides, Collide, Return,
           Continue
  <2>2. CASE CreateFull(c)
    BY <2>2, <1>0, <1>1 DEF CreateFull, CreateRoom, Purged, Stored, Return, Continue
  <2>3. CASE CreateCheck(c)
    <3>1. Cardinality(Stored(entry')) < Capacity
      BY <2>3 DEF CreateCheck
    <3>2. Cardinality(Stored(entry')) \in Nat
      <4>1. Stored(entry') \subseteq Stored(entry')
        OBVIOUS
      <4> QED BY <4>1, <1>0, FewerStored
    <3> QED BY <3>1, <3>2, <1>0 DEF RoomInv
  <2>4. CASE CreateStore(c)
    <3> DEFINE t == call[c].token
    <3>1. t \in Token
      BY <2>4 DEF CreateStore, IInv, CallInv
    <3>2. Stored(entry') \subseteq Stored(entry) \cup {t}
      BY <2>4, <1>0 DEF CreateStore, Stored
    <3>3. Cardinality(Stored(entry)) < Capacity
      BY <2>4 DEF CreateStore, RoomInv
    <3> HIDE DEF t
    <3>4. Cardinality(Stored(entry')) <= Capacity
      BY <3>1, <3>2, <3>3, <1>0, OneMoreStored
    <3>5. \A d \in Client : pc'[d] # "storing"
      BY <2>4, <1>0 DEF CreateStore, LockInv, Return, Continue
    <3> QED BY <3>4, <3>5 DEF RoomInv
  <2>5. CASE ExpireSession(c)
    BY <2>5, <1>0, <1>1 DEF ExpireSession, Deny, Stored, Return, Continue
  <2>6. CASE TouchCheck(c)
    BY <2>6, <1>0, <1>1 DEF TouchCheck, Deny, Stored, Return, Continue
  <2>7. CASE TouchStore(c)
    <3> DEFINE t == call[c].token
    <3>1. t \in Token /\ entry[t] # Absent
      BY <2>7 DEF TouchStore, IInv, CallInv
    <3>2. Stored(entry') \subseteq Stored(entry)
      BY <2>7, <3>1, <1>0 DEF TouchStore, Stored
    <3> QED BY <2>7, <3>2, <1>0, <1>1 DEF TouchStore, Return, Continue
  <2>8. ASSUME NEW t \in Token, NEW r \in BOOLEAN, BackendRead(c, t, r)
        PROVE  RoomInv'
    BY <2>8, <1>0, <1>1 DEF BackendRead, Deny, Stored, Return, Continue
  <2>9. ASSUME NEW t \in Token, Revoke(c, t)
        PROVE  RoomInv'
    BY <2>9, <1>0, <1>1 DEF Revoke, Stored
  <2> QED
    BY <1>4, <2>1, <2>2, <2>3, <2>4, <2>5, <2>6, <2>7, <2>8, <2>9 DEF ClientStep
<1> QED BY <1>2, <1>3, <1>4 DEF Next

-----------------------------------------------------------------------------
(* The theorems.                                                           *)

\* IInv holds of every reachable state.
LEMMA Invariance == ASSUME SessionAssumption, MemoryAssumption PROVE Spec => []IInv
<1>1. Init => IInv
  BY InvInit
<1>2. IInv /\ [Next]_vars => IInv'
  BY InvStep
<1> QED BY <1>1, <1>2, PTL DEF Spec

\* Every variable keeps its type; a token in use is never NoToken.
THEOREM TypeCorrect == Spec => []TypeOK
<1>1. IInv => TypeOK
  BY DEF IInv
<1> QED BY <1>1, Invariance, SessionAssumption, MemoryAssumption, PTL

\* A token seen gone stays gone, however renewals and revocations interleave.
THEOREM NeverResurrected == Spec => []NoResurrection
<1>1. IInv => NoResurrection
  BY DEF IInv, StoreInv
<1> QED BY <1>1, Invariance, SessionAssumption, MemoryAssumption, PTL

\* An unexpired, unrevoked grant finds its session stored at least as long.
THEOREM GrantsHonoured == Spec => []GrantHonoured
<1>1. IInv => GrantHonoured
  BY DEF IInv, StoreInv
<1> QED BY <1>1, Invariance, SessionAssumption, MemoryAssumption, PTL

\* No expiry given to a caller lies beyond the absolute lifetime.
THEOREM GrantsWithinLifetime == Spec => []GrantWithinLifetime
<1>1. IInv => GrantWithinLifetime
  BY DEF IInv, StoreInv
<1> QED BY <1>1, Invariance, SessionAssumption, MemoryAssumption, PTL

\* Every grant is for a token that no call saw gone before.
THEOREM GrantsOnlyLive == Spec => DeniedNeverGranted
<1>1. IInv /\ [Next]_vars =>
         [\A t \in Token : granted'[t] # granted[t] => t \notin denied]_vars
  <2> SUFFICES ASSUME IInv, Next,
                      NEW t \in Token, granted'[t] # granted[t]
               PROVE  t \notin denied
    OBVIOUS
  <2>1. PICK c \in Client : ClientStep(c)
    BY DEF Next, Tick
  <2>2. \/ CreateStore(c) /\ t = call[c].token
        \/ TouchStore(c) /\ t = call[c].token
    BY <2>1
       DEF ClientStep, BeginCreate, CheckLifetime, ComputeTTL, CreateCollides,
           CreateFull, CreateCheck, CreateStore, ExpireSession, TouchCheck, TouchStore,
           BackendRead, Revoke, Grant, IInv, TypeOK, ManagerTypeOK
  <2>3. CASE CreateStore(c) /\ t = call[c].token
    BY <2>3 DEF CreateStore, IInv, CallInv, StoreInv, RecordInv
  <2>4. CASE TouchStore(c) /\ t = call[c].token
    BY <2>4 DEF TouchStore, IInv, CallInv, StoreInv, NoResurrection
  <2> QED BY <2>2, <2>3, <2>4
<1> QED BY <1>1, Invariance, SessionAssumption, MemoryAssumption, PTL
       DEF Spec, DeniedNeverGranted

\* The store is never fuller than its capacity, whatever creates are in progress.
THEOREM CapacityKept == Spec => []CapacityRespected
<1>1. Init => RoomInv
  <2> SUFFICES ASSUME Init PROVE RoomInv
    OBVIOUS
  <2>1. Stored(entry) = {}
    BY DEF Init, Stored
  <2>2. Cardinality(Stored(entry)) = 0
    BY <2>1, FS_EmptySet
  <2> QED BY <2>2, MemoryAssumption DEF RoomInv
<1>2. IInv /\ RoomInv /\ [Next]_vars => RoomInv'
  BY RoomStep, SessionAssumption, MemoryAssumption
<1>3. IInv /\ RoomInv => CapacityRespected
  <2> SUFFICES ASSUME IInv, RoomInv PROVE CapacityRespected
    OBVIOUS
  <2> DEFINE U == {call[c].token : c \in {d \in Client : pc[d] = "storing"}}
  <2>0. /\ IsFiniteSet(Token) /\ Capacity \in Nat
        /\ Stored(entry) \subseteq Token
        /\ \A c, d \in Client : pc[c] = "storing" /\ pc[d] = "storing" => c = d
    BY SessionAssumption, MemoryAssumption DEF Stored, IInv, LockInv
  <2>1. CASE U = {}
    <3>1. Stored(entry) \cup U = Stored(entry)
      BY <2>1
    <3> QED BY <3>1 DEF CapacityRespected, RoomInv
  <2>2. CASE U # {}
    <3>1. PICK c \in Client : pc[c] = "storing"
      BY <2>2
    <3>2. U = {call[c].token}
      BY <2>0, <3>1
    <3>3. Cardinality(Stored(entry)) < Capacity
      BY <3>1 DEF RoomInv
    <3> HIDE DEF U
    <3>4. IsFiniteSet(Stored(entry)) /\ Cardinality(Stored(entry)) \in Nat
      BY <2>0, FS_Subset, FS_CardinalityType
    <3>5. /\ Cardinality(Stored(entry) \cup {call[c].token}) \in Nat
          /\ Cardinality(Stored(entry) \cup {call[c].token})
                 <= Cardinality(Stored(entry)) + 1
      BY <3>4, OneMore
    <3>6. Cardinality(Stored(entry) \cup U) <= Capacity
      BY <2>0, <3>2, <3>3, <3>4, <3>5
    <3> QED BY <3>6 DEF CapacityRespected, U
  <2> QED BY <2>1, <2>2
<1> QED BY <1>1, <1>2, <1>3, Invariance, SessionAssumption, MemoryAssumption, PTL
       DEF Spec

-----------------------------------------------------------------------------
(* The refinement: every step of the backend and of its callers is a step  *)
(* of the storage contract, or leaves the contract's variables alone.      *)

\* Lazy deletion, purge and expiry on read only take away overdue entries.
LEMMA OverdueOnly ==
  ASSUME TypeOK, entry' \in [Token -> Nat], clock' = clock, UNCHANGED <<record, revoked>>,
         \A t \in Token : \/ entry'[t] = entry[t]
                          \/ entry'[t] = Absent /\ (entry[t] <= clock \/ record[t] <= clock)
  PROVE  Contract!Age
<1>1. entry' = [t \in Token |-> entry'[t]]
  OBVIOUS
<1> QED BY <1>1 DEF Contract!Age, Contract!Absent, Absent

\* Every step of the manager and its backend is one of the contract, or a stutter.
LEMMA StepImplementsContract ==
  ASSUME SessionAssumption, MemoryAssumption, IInv, [Next]_vars
  PROVE  [Contract!Next]_Contract!vars
<1>0. /\ TypeOK /\ clock \in Nat /\ entry \in [Token -> Nat] /\ record \in [Token -> Nat]
      /\ call \in [Client -> Call] /\ CallInv /\ RecordInv /\ NoResurrection
  BY DEF IInv, TypeOK, ManagerTypeOK, StoreInv
<1>1. CASE UNCHANGED vars
  BY <1>1 DEF vars, managerVars, Contract!vars
<1>2. CASE Tick
  <2>1. entry' = [t \in Token |-> entry'[t]]
    BY <1>2, <1>0 DEF Tick
  <2>2. Contract!Age
    BY <1>2, <2>1 DEF Tick, Contract!Age
  <2> QED BY <2>2 DEF Contract!Next
<1>3. ASSUME NEW c \in Client, ClientStep(c)
      PROVE  [Contract!Next]_Contract!vars
  <2>0. entry' \in [Token -> Nat]
    BY TypeStep, <1>0 DEF TypeOK
  <2>1. CASE \/ (BeginCreate(c, Unused) \/ CheckLifetime(c) \/ ComputeTTL(c))
                /\ UNCHANGED <<entry, lock>>
             \/ CreateCollides(c)
    BY <2>1 DEF BeginCreate, CheckLifetime, ComputeTTL, CreateCollides, Contract!vars
  <2>2. CASE CreateFull(c) \/ CreateCheck(c)
    <3>1. \A t \in Token : \/ entry'[t] = entry[t]
                           \/ entry'[t] = Absent /\ (entry[t] <= clock \/ record[t] <= clock)
      BY <2>2, <1>0 DEF CreateFull, CreateCheck, CreateRoom, Purged, Live
    <3>2. Contract!Age
      BY <2>2, <3>1, <2>0, <1>0, OverdueOnly DEF CreateFull, CreateCheck
    <3> QED BY <3>2 DEF Contract!Next
  <2>3. CASE CreateStore(c)
    <3> DEFINE t == call[c].token
    <3>1. /\ t \in Token /\ record[t] = 0 /\ entry[t] = Absent
          /\ call[c].abs = call[c].now + AbsoluteTTL * Second /\ call[c].now \in Nat
      BY <2>3, <1>0 DEF CreateStore, CallInv, RecordInv, Call
    <3>2. IdleTTL * Second \in Nat \ {0} /\ AbsoluteTTL * Second \in Nat \ {0}
      BY IdleFits
    <3>3. /\ record' = [record EXCEPT ![t] = call[c].abs]
          /\ entry' = [entry EXCEPT ![t] = clock + IdleTTL * Second]
          /\ UNCHANGED <<clock, revoked>>
      BY <2>3 DEF CreateStore
    <3> HIDE DEF t
    <3>4. Contract!Admit(t)
      BY <3>1, <3>2, <3>3, <1>0 DEF Contract!Admit, Contract!Absent, Absent
    <3> QED BY <3>1, <3>4 DEF Contract!Next
  <2>4. CASE ExpireSession(c)
    <3>1. \A t \in Token : \/ entry'[t] = entry[t]
                           \/ entry'[t] = Absent /\ (entry[t] <= clock \/ record[t] <= clock)
      BY <2>4, <1>0 DEF ExpireSession, CallInv
    <3>2. Contract!Age
      BY <2>4, <3>1, <2>0, <1>0, OverdueOnly DEF ExpireSession
    <3> QED BY <3>2 DEF Contract!Next
  <2>5. CASE TouchCheck(c)
    <3>1. \A t \in Token : \/ entry'[t] = entry[t]
                           \/ entry'[t] = Absent /\ (entry[t] <= clock \/ record[t] <= clock)
      BY <2>5, <1>0 DEF TouchCheck, Live
    <3>2. Contract!Age
      BY <2>5, <3>1, <2>0, <1>0, OverdueOnly DEF TouchCheck
    <3> QED BY <3>2 DEF Contract!Next
  <2>6. CASE TouchStore(c)
    <3> DEFINE t == call[c].token
               e == Later(entry[t], clock + call[c].ttl * Second)
    <3>1. t \in Token /\ entry[t] # Absent /\ entry[t] \in Nat
      BY <2>6, <1>0 DEF TouchStore, CallInv
    <3>2. e >= entry[t]
      <4>1. clock + call[c].ttl * Second \in Nat
        BY <1>0, Duration DEF Call
      <4> QED BY <4>1, <3>1 DEF Later
    <3>3. entry' = [entry EXCEPT ![t] = e] /\ UNCHANGED <<clock, record, revoked>>
      BY <2>6 DEF TouchStore
    <3> HIDE DEF t, e
    <3>4. Contract!Extend(t)
      BY <3>1, <3>2, <3>3, <1>0 DEF Contract!Extend, Contract!Absent, Absent
    <3> QED BY <3>1, <3>4 DEF Contract!Next
  <2>7. ASSUME NEW t \in Token, NEW r \in BOOLEAN, BackendRead(c, t, r)
        PROVE  [Contract!Next]_Contract!vars
    <3>1. \A u \in Token : \/ entry'[u] = entry[u]
                           \/ entry'[u] = Absent /\ (entry[u] <= clock \/ record[u] <= clock)
      BY <2>7, <1>0 DEF BackendRead, Live
    <3>2. Contract!Age
      BY <2>7, <3>1, <2>0, <1>0, OverdueOnly DEF BackendRead
    <3> QED BY <3>2 DEF Contract!Next
  <2>8. ASSUME NEW t \in Token, Revoke(c, t)
        PROVE  [Contract!Next]_Contract!vars
    BY <2>8 DEF Revoke, Contract!Next, Contract!Revoke, Contract!Absent, Absent
  <2> QED
    BY <1>3, <2>1, <2>2, <2>3, <2>4, <2>5, <2>6, <2>7, <2>8 DEF ClientStep
<1> QED BY <1>1, <1>2, <1>3 DEF Next

\* SessionManager's callers over MemorySessionBackend see what the storage contract
\* of SessionBackend promises: the backend refines SessionContract.
THEOREM RefinesContract == Spec => ImplementsContract
<1>1. Init => Contract!Init
  BY DEF Init, ManagerInit, Contract!Init, Contract!Absent, Absent
<1>2. IInv /\ [Next]_vars => [Contract!Next]_Contract!vars
  BY StepImplementsContract, SessionAssumption, MemoryAssumption
<1> QED BY <1>1, <1>2, Invariance, SessionAssumption, MemoryAssumption, PTL
       DEF Spec, ImplementsContract, Contract!Spec
=============================================================================
