---------------------------- MODULE RedisSessions ----------------------------
(***************************************************************************)
(* SessionManager over RedisSessionBackend.  Each backend call is one      *)
(* command, which the server executes atomically and on which the key's    *)
(* expiry is enforced; the touch script is one command too.                *)
(*                                                                         *)
(* The client has finite timeouts: a call may raise while its command is   *)
(* still on its way, and the server may execute that command later, or     *)
(* never.  The manager catches nothing, so the caller's operation ends.    *)
(* The server's clock is taken to run at the rate of the manager's.        *)
(***************************************************************************)
EXTENDS SessionManager

CONSTANT MaxLost    \* bound: calls that raise in a behaviour

ASSUME RedisAssumption == MaxLost \in Nat

VARIABLES
    entry,      \* entry[t]: when the server will expire the key of t, or Absent
    inflight,   \* commands whose callers gave up before the server executed them
    lost        \* how many calls raised so far

vars == <<managerVars, entry, inflight, lost>>

Command == [op : {"SET", "EVAL", "DEL"}, token : Token, abs : Nat, ttl : Nat]

TypeOK ==
    /\ ManagerTypeOK
    /\ entry \in [Token -> Nat]
    /\ inflight \subseteq Command
    /\ lost \in 0 .. MaxLost

Init ==
    /\ ManagerInit
    /\ entry = [t \in Token |-> Absent]
    /\ inflight = {}
    /\ lost = 0

\* A draw repeats neither a dead token nor one whose SET is still on its way.
Drawable == Unused \ {m.token : m \in inflight}

\* Time passes; the server drops the keys that reach their expiry.
Tick ==
    /\ clock < MaxClock
    /\ clock' = clock + 1
    /\ entry' = [t \in Token |-> IF entry[t] <= clock' THEN Absent ELSE entry[t]]
    /\ UNCHANGED <<pc, call, record, granted, denied, revoked, inflight, lost>>

-----------------------------------------------------------------------------
(* The commands, as the server executes them.                              *)

\* SET key value EX ttl NX
SetIfAbsent(t, abs, ttl) ==
    IF entry[t] = Absent
    THEN /\ entry' = [entry EXCEPT ![t] = clock + ttl * Second]
         /\ record' = [record EXCEPT ![t] = abs]
    ELSE UNCHANGED <<entry, record>>

\* Mutants: a missing key is inserted; a longer expiry is shortened.
TouchDeadline_Inserts(t, ttl) == Later(entry[t], clock + ttl * Second)
TouchDeadline_Shortens(t, ttl) ==
    IF entry[t] = Absent THEN Absent ELSE clock + ttl * Second

\* TOUCH_SCRIPT: PTTL -2 answers 0; PEXPIRE only when it lengthens.
TouchDeadline(t, ttl) ==
    IF entry[t] = Absent THEN Absent ELSE Later(entry[t], clock + ttl * Second)

TouchScript(t, ttl) ==
    /\ entry' = [entry EXCEPT ![t] = TouchDeadline(t, ttl)]
    /\ UNCHANGED record

\* DEL key
Delete(t) ==
    /\ entry' = [entry EXCEPT ![t] = Absent]
    /\ UNCHANGED record

-----------------------------------------------------------------------------
(* Calls that return.                                                      *)

CreateCollides(c) ==
    /\ pc[c] = "draw"
    /\ \E t \in Token : entry[t] # Absent
    /\ Collide(c)
    /\ UNCHANGED <<clock, record, granted, denied, revoked, entry, inflight, lost>>

Create(c) ==
    /\ pc[c] = "draw"
    /\ \E t \in Drawable : /\ SetIfAbsent(t, call[c].abs, IdleTTL)
                           /\ Grant(t, call[c].now + IdleTTL * Second)
    /\ Return(c)
    /\ UNCHANGED <<clock, denied, revoked, inflight, lost>>

BackendRead(c, t, renewing) ==
    /\ Presents(c, t)
    /\ IF entry[t] # Absent
       THEN /\ Continue(c, "check", Reading(t, renewing))
            /\ UNCHANGED denied
       ELSE Deny(c, t)
    /\ UNCHANGED <<clock, record, granted, revoked, entry, inflight, lost>>

ExpireSession(c) ==
    /\ pc[c] = "expire"
    /\ Delete(call[c].token)
    /\ Deny(c, call[c].token)
    /\ UNCHANGED <<clock, granted, revoked, inflight, lost>>

Touch(c) ==
    /\ pc[c] = "touch"
    /\ LET t == call[c].token
       IN  /\ TouchScript(t, call[c].ttl)
           /\ IF entry[t] = Absent
              THEN Deny(c, t) /\ UNCHANGED granted
              ELSE /\ Grant(t, call[c].now + call[c].ttl * Second)
                   /\ Return(c)
                   /\ UNCHANGED denied
    /\ UNCHANGED <<clock, revoked, inflight, lost>>

Revoke(c, t) ==
    /\ Presents(c, t)
    /\ Delete(t)
    /\ denied' = denied \cup {t}
    /\ revoked' = revoked \cup {t}
    /\ UNCHANGED <<clock, pc, call, granted, inflight, lost>>

-----------------------------------------------------------------------------
(* Calls that raise: the command m is left on its way.                     *)

GiveUp(c, m) ==
    /\ lost < MaxLost
    /\ lost' = lost + 1
    /\ inflight' = inflight \cup {m}
    /\ Return(c)
    /\ UNCHANGED <<clock, record, granted, denied, revoked, entry>>

CreateLost(c) ==
    /\ pc[c] = "draw"
    /\ \E t \in Drawable :
          GiveUp(c, [op |-> "SET", token |-> t, abs |-> call[c].abs, ttl |-> IdleTTL])

TouchLost(c) ==
    /\ pc[c] = "touch"
    /\ GiveUp(c, [op |-> "EVAL", token |-> call[c].token, abs |-> 0,
                  ttl |-> call[c].ttl])

\* The delete of an explicit revoke, or of a read past the absolute expiry.
DeleteLost(c, t) ==
    /\ \/ Presents(c, t)
       \/ pc[c] = "expire" /\ t = call[c].token
    /\ GiveUp(c, [op |-> "DEL", token |-> t, abs |-> 0, ttl |-> 0])

\* The server executes a command nobody waits for any more.
ExecuteLate(m) ==
    /\ inflight' = inflight \ {m}
    /\ \/ m.op = "SET" /\ SetIfAbsent(m.token, m.abs, m.ttl) /\ UNCHANGED revoked
       \/ m.op = "EVAL" /\ TouchScript(m.token, m.ttl) /\ UNCHANGED revoked
       \/ m.op = "DEL" /\ Delete(m.token) /\ revoked' = revoked \cup {m.token}
    /\ UNCHANGED <<clock, pc, call, granted, denied, lost>>

ClientStep(c) ==
    \/ BeginCreate(c, Drawable) /\ UNCHANGED <<entry, inflight, lost>>
    \/ CheckLifetime(c) /\ UNCHANGED <<entry, inflight, lost>>
    \/ ComputeTTL(c) /\ UNCHANGED <<entry, inflight, lost>>
    \/ CreateCollides(c) \/ Create(c) \/ CreateLost(c)
    \/ ExpireSession(c) \/ Touch(c) \/ TouchLost(c)
    \/ \E t \in Token : \/ \E r \in BOOLEAN : BackendRead(c, t, r)
                        \/ Revoke(c, t)
                        \/ DeleteLost(c, t)

Next ==
    \/ Tick
    \/ \E c \in Client : ClientStep(c)
    \/ \E m \in inflight : ExecuteLate(m)

Spec == Init /\ [][Next]_vars

-----------------------------------------------------------------------------
\* An unexpired grant whose token no DEL was executed for finds its session, late
\* commands included: the script never shortens, SET NX never overwrites.
GrantHonoured ==
    \A t \in Token \ revoked :
        clock < granted[t] => entry[t] >= granted[t]

\* The backend implements the storage contract: a token reported absent or deleted
\* stays so, and no touch, not even one executed long after its caller gave up,
\* brings it back (TOUCH_SCRIPT).
Contract == INSTANCE SessionContract
ImplementsContract == Contract!Spec
=============================================================================
