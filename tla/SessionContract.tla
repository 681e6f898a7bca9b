--------------------------- MODULE SessionContract ---------------------------
(***************************************************************************)
(* What dwho.sessions.SessionBackend promises its callers, whatever the    *)
(* storage: a keyed store whose entries carry a deadline.  A key is stored *)
(* at most once, its deadline never moves back, and the only two ways out  *)
(* are a revocation and the passing of time.  Nothing here knows of locks, *)
(* lazy deletion, callers or the steps of an operation.                    *)
(***************************************************************************)
EXTENDS Integers

CONSTANT Token

VARIABLES
    clock,    \* time, in clock ticks
    record,   \* record[t]: the absolute expiry written with t, 0 if never stored
    entry,    \* entry[t]: the storage deadline of t, Absent if t is not stored
    revoked   \* tokens a caller asked to delete

vars == <<clock, record, entry, revoked>>

Absent == 0

Init ==
    /\ clock = 0
    /\ record = [t \in Token |-> 0]
    /\ entry = [t \in Token |-> Absent]
    /\ revoked = {}

\* create: conditional on absence; no stored key is overwritten or moved.
Admit(t) ==
    /\ record[t] = 0 /\ entry[t] = Absent
    /\ record'[t] > 0 /\ entry'[t] > clock
    /\ record' = [record EXCEPT ![t] = record'[t]]
    /\ entry' = [entry EXCEPT ![t] = entry'[t]]
    /\ UNCHANGED <<clock, revoked>>

\* touch: never inserts a key and never shortens its deadline.
Extend(t) ==
    /\ entry[t] # Absent
    /\ entry'[t] >= entry[t]
    /\ entry' = [entry EXCEPT ![t] = entry'[t]]
    /\ UNCHANGED <<clock, record, revoked>>

\* Time passes, and overdue keys (idle or absolute expiry reached) may go.
Age ==
    /\ clock' \in {clock, clock + 1}
    /\ entry' = [t \in Token |-> entry'[t]]
    /\ \A t \in Token : \/ entry'[t] = entry[t]
                        \/ /\ entry'[t] = Absent
                           /\ entry[t] <= clock' \/ record[t] <= clock'
    /\ UNCHANGED <<record, revoked>>

\* delete: the key is gone at once.
Revoke(t) ==
    /\ entry' = [entry EXCEPT ![t] = Absent]
    /\ revoked' = revoked \cup {t}
    /\ UNCHANGED <<clock, record>>

Next ==
    \/ Age
    \/ \E t \in Token : Admit(t) \/ Extend(t) \/ Revoke(t)

Spec == Init /\ [][Next]_vars
==============================================================================
