--------------------------- MODULE MemorySessions ---------------------------
(***************************************************************************)
(* SessionManager over MemorySessionBackend, with concurrent clients.  The *)
(* backend's lock is held over two clock readings in create and in touch   *)
(* (the expiry test of _read, then clock() + ttl), so each is two steps    *)
(* with the lock held in between; read and delete are one step.            *)
(***************************************************************************)
EXTENDS SessionManager

CONSTANTS
    Capacity,
    NoClient

ASSUME MemoryAssumption ==
    /\ Capacity \in Nat \ {0}
    /\ NoClient \notin Client

VARIABLES
    entry,   \* _values: entry[t] is the expiry stored under t, or Absent
    lock     \* the client inside the backend's RLock, or NoClient

vars == <<managerVars, entry, lock>>

TypeOK ==
    /\ ManagerTypeOK
    /\ entry \in [Token -> Nat]
    /\ lock \in Client \cup {NoClient}

Init ==
    /\ ManagerInit
    /\ entry = [t \in Token |-> Absent]
    /\ lock = NoClient

Stored(e) == {t \in Token : e[t] # Absent}
Live(t) == entry[t] > clock

\* Every expired key deleted: create's loop over list(self._values).
Purged == [t \in Token |-> IF Live(t) THEN entry[t] ELSE Absent]

Tick ==
    /\ clock < MaxClock
    /\ clock' = clock + 1
    /\ UNCHANGED <<pc, call, record, granted, denied, revoked, entry, lock>>

-----------------------------------------------------------------------------
\* create, first half: a drawn token collides with a live key, or it is new; a
\* full store is purged, and one that stays full raises RuntimeError.
CreateCollides(c) ==
    /\ pc[c] = "draw" /\ lock = NoClient
    /\ \E t \in Token : Live(t)
    /\ Collide(c)
    /\ UNCHANGED <<clock, record, granted, denied, revoked, entry, lock>>

CreateRoom == IF Cardinality(Stored(entry)) >= Capacity THEN Purged ELSE entry

CreateFull(c) ==
    /\ pc[c] = "draw" /\ lock = NoClient
    /\ Cardinality(Stored(CreateRoom)) >= Capacity
    /\ entry' = CreateRoom
    /\ Return(c)
    /\ UNCHANGED <<clock, record, granted, denied, revoked, lock>>

\* Mutant: the capacity test is off by one.
CreateCheck_OffByOne(c) ==
    /\ pc[c] = "draw" /\ lock = NoClient
    /\ Cardinality(Stored(CreateRoom)) <= Capacity
    /\ entry' = CreateRoom
    /\ lock' = c
    /\ \E t \in Unused : Continue(c, "storing", [call[c] EXCEPT !.token = t])
    /\ UNCHANGED <<clock, record, granted, denied, revoked>>

CreateCheck(c) ==
    /\ pc[c] = "draw" /\ lock = NoClient
    /\ Cardinality(Stored(CreateRoom)) < Capacity
    /\ entry' = CreateRoom
    /\ lock' = c
    /\ \E t \in Unused : Continue(c, "storing", [call[c] EXCEPT !.token = t])
    /\ UNCHANGED <<clock, record, granted, denied, revoked>>

\* create, second half: the entry is written, the lock released and the grant
\* returned, its expiry computed from the reading taken before the draw.
CreateStore(c) ==
    /\ pc[c] = "storing"
    /\ LET t == call[c].token
       IN  /\ entry' = [entry EXCEPT ![t] = clock + IdleTTL * Second]
           /\ record' = [record EXCEPT ![t] = call[c].abs]
           /\ Grant(t, call[c].now + IdleTTL * Second)
    /\ lock' = NoClient
    /\ Return(c)
    /\ UNCHANGED <<clock, denied, revoked>>

\* read (or the read that opens a renew): _read deletes an expired key.
BackendRead(c, t, renewing) ==
    /\ Presents(c, t) /\ lock = NoClient
    /\ IF Live(t)
       THEN /\ Continue(c, "check", Reading(t, renewing))
            /\ UNCHANGED <<entry, denied>>
       ELSE /\ entry' = [entry EXCEPT ![t] = Absent]
            /\ Deny(c, t)
    /\ UNCHANGED <<clock, record, granted, revoked, lock>>

\* read of a session past its absolute expiry deletes it.
ExpireSession(c) ==
    /\ pc[c] = "expire" /\ lock = NoClient
    /\ entry' = [entry EXCEPT ![call[c].token] = Absent]
    /\ Deny(c, call[c].token)
    /\ UNCHANGED <<clock, record, granted, revoked, lock>>

\* Mutant: the lock is not held from the test to the store.
TouchCheck_Unlocked(c) ==
    /\ pc[c] = "touch" /\ lock = NoClient
    /\ LET t == call[c].token
       IN  IF Live(t)
           THEN Continue(c, "touching", call[c]) /\ UNCHANGED <<entry, denied>>
           ELSE entry' = [entry EXCEPT ![t] = Absent] /\ Deny(c, t)
    /\ UNCHANGED <<clock, record, granted, revoked, lock>>

\* touch, first half: the entry may be gone since the read that opened the renew.
TouchCheck(c) ==
    /\ pc[c] = "touch" /\ lock = NoClient
    /\ LET t == call[c].token
       IN  IF Live(t)
           THEN /\ lock' = c
                /\ Continue(c, "touching", call[c])
                /\ UNCHANGED <<entry, denied>>
           ELSE /\ entry' = [entry EXCEPT ![t] = Absent]
                /\ Deny(c, t)
                /\ UNCHANGED lock
    /\ UNCHANGED <<clock, record, granted, revoked>>

\* Mutant: the expiry is replaced, not extended.
TouchStore_Shortens(c) ==
    /\ pc[c] = "touching"
    /\ LET t == call[c].token
       IN  /\ entry' = [entry EXCEPT ![t] = clock + call[c].ttl * Second]
           /\ Grant(t, call[c].now + call[c].ttl * Second)
    /\ lock' = NoClient
    /\ Return(c)
    /\ UNCHANGED <<clock, record, denied, revoked>>

\* touch, second half: keep the later of the two expiries, release, grant.
TouchStore(c) ==
    /\ pc[c] = "touching"
    /\ LET t == call[c].token
       IN  /\ entry' = [entry EXCEPT ![t] = Later(@, clock + call[c].ttl * Second)]
           /\ Grant(t, call[c].now + call[c].ttl * Second)
    /\ lock' = NoClient
    /\ Return(c)
    /\ UNCHANGED <<clock, record, denied, revoked>>

\* revoke: one backend.delete.
Revoke(c, t) ==
    /\ Presents(c, t) /\ lock = NoClient
    /\ entry' = [entry EXCEPT ![t] = Absent]
    /\ denied' = denied \cup {t}
    /\ revoked' = revoked \cup {t}
    /\ UNCHANGED <<clock, pc, call, record, granted, lock>>

ClientStep(c) ==
    \/ BeginCreate(c, Unused) /\ UNCHANGED <<entry, lock>>
    \/ CheckLifetime(c) /\ UNCHANGED <<entry, lock>>
    \/ ComputeTTL(c) /\ UNCHANGED <<entry, lock>>
    \/ CreateCollides(c) \/ CreateFull(c) \/ CreateCheck(c) \/ CreateStore(c)
    \/ ExpireSession(c) \/ TouchCheck(c) \/ TouchStore(c)
    \/ \E t \in Token : \/ \E r \in BOOLEAN : BackendRead(c, t, r)
                        \/ Revoke(c, t)

Next == Tick \/ \E c \in Client : ClientStep(c)

Spec == Init /\ [][Next]_vars

-----------------------------------------------------------------------------
\* A key that was reported absent, expired or deleted is never stored again, not
\* even by a renew that read it before (touch: "cannot resurrect").
NoResurrection == \A t \in denied : entry[t] = Absent

\* A caller holding an unrevoked grant that has not expired finds its session: no
\* purge, collision, concurrent older renewal or lazy deletion takes it away.
GrantHonoured ==
    \A t \in Token \ revoked :
        clock < granted[t] => entry[t] >= granted[t]

\* The store never exceeds its capacity, the create in progress included.
CapacityRespected ==
    Cardinality(Stored(entry) \cup
                {call[c].token : c \in {d \in Client : pc[d] = "storing"}}) <= Capacity

\* No renew hands out a grant for a token that some call already saw gone.
DeniedNeverGranted ==
    [][\A t \in Token : granted'[t] # granted[t] => t \notin denied]_vars

\* The backend implements the storage contract.
Contract == INSTANCE SessionContract
ImplementsContract == Contract!Spec
=============================================================================
