--------------------------- MODULE SessionManager ---------------------------
(***************************************************************************)
(* dwho.sessions.SessionManager: the steps of create, read, renew and      *)
(* revoke that the manager takes between two calls of its backend.  A call *)
(* of a client (a request thread) is cut wherever the code reads the clock *)
(* or calls the backend; MemorySessions and RedisSessions add the calls of *)
(* the backend and the next-state relation.                                *)
(*                                                                         *)
(* Time is a whole number of clock ticks, Second of them to a second, so   *)
(* that a clock reading may fall inside a second as time.time() does.      *)
(*                                                                         *)
(* A token stands for its SHA-256 key.  256 random bits: a draw may hit    *)
(* the key of a live session, which the code retries, but it never repeats *)
(* the token of a dead one.  The session record is immutable once stored,  *)
(* so record[t] is both what was written under t and what reading t yields.*)
(***************************************************************************)
EXTENDS Integers, FiniteSets

CONSTANTS
    Client,       \* request threads that share one manager
    Token,        \* bound: the tokens a behaviour may draw
    NoToken,
    IdleTTL,      \* seconds
    AbsoluteTTL,  \* seconds
    Second,       \* clock ticks in a second
    MaxClock      \* bound: the last instant of a behaviour

ASSUME SessionAssumption ==
    /\ NoToken \notin Token
    /\ IsFiniteSet(Token) /\ IsFiniteSet(Client)
    /\ IdleTTL \in Nat \ {0} /\ AbsoluteTTL \in Nat
    /\ IdleTTL <= AbsoluteTTL
    /\ Second \in Nat \ {0}
    /\ MaxClock \in Nat

VARIABLES
    clock,     \* manager and backend read the same clock
    pc,        \* pc[c]: the next step of the call c is in, "idle" between calls
    call,      \* call[c]: the local variables of that call
    record,    \* record[t]: absolute_expires_at stored under t, 0 if never stored
    granted,   \* history: the latest expires_at a caller was given for t, or 0
    denied,    \* history: tokens some backend call has reported absent or deleted
    revoked    \* history: tokens passed to revoke

managerVars == <<clock, pc, call, record, granted, denied, revoked>>

Absent == 0
Draws == 3

NoCall == [token |-> NoToken, now |-> 0, abs |-> 0, ttl |-> 0,
           draws |-> 0, renewing |-> FALSE]

Call == [token : Token \cup {NoToken}, now : Nat, abs : Nat, ttl : Nat,
         draws : 0 .. Draws - 1, renewing : BOOLEAN]

Step == {"idle", "draw", "storing", "check", "expire", "ttl", "touch", "touching"}

ManagerTypeOK ==
    /\ clock \in Nat
    /\ pc \in [Client -> Step]
    /\ call \in [Client -> Call]
    /\ \A c \in Client : pc[c] \notin {"idle", "draw"} => call[c].token \in Token
    /\ record \in [Token -> Nat]
    /\ granted \in [Token -> Nat]
    /\ denied \subseteq Token
    /\ revoked \subseteq Token

ManagerInit ==
    /\ clock = 0
    /\ pc = [c \in Client |-> "idle"]
    /\ call = [c \in Client |-> NoCall]
    /\ record = [t \in Token |-> 0]
    /\ granted = [t \in Token |-> 0]
    /\ denied = {}
    /\ revoked = {}

-----------------------------------------------------------------------------
Later(a, b) == IF a >= b THEN a ELSE b
Sooner(a, b) == IF a <= b THEN a ELSE b

Unused == {t \in Token : record[t] = 0}

\* Mutant: the remaining lifetime does not bound the renewal.
RenewalTTL_Unbounded(abs, now) == IdleTTL

\* What _ttl(min(idle_ttl, int(absolute_expires_at - now))) leaves, in seconds.
RenewalTTL(abs, now) == Sooner(IdleTTL, (abs - now) \div Second)

\* The locals of a read (or of a renew) once backend.read returned a record.
Reading(t, renewing) ==
    [token |-> t, now |-> 0, abs |-> record[t], ttl |-> 0, draws |-> 0,
     renewing |-> renewing]

\* The call of c goes on with step s; its locals become l.
Continue(c, s, l) ==
    /\ pc' = [pc EXCEPT ![c] = s]
    /\ call' = [call EXCEPT ![c] = l]

\* The call of c returns or raises; its locals are gone.
Return(c) == Continue(c, "idle", NoCall)

\* A caller receives SessionGrant(t, session, e).
Grant(t, e) == granted' = [granted EXCEPT ![t] = Later(@, e)]

-----------------------------------------------------------------------------
\* create: read the clock, build the record.  The second conjunct is the bound
\* on tokens: more of the drawable ones are left than calls that will draw one.
BeginCreate(c, drawable) ==
    /\ pc[c] = "idle"
    /\ Cardinality(drawable) >
           Cardinality({d \in Client : pc[d] \in {"draw", "storing"}})
    /\ Continue(c, "draw", [NoCall EXCEPT !.now = clock,
                                          !.abs = clock + AbsoluteTTL * Second])
    /\ UNCHANGED <<clock, record, granted, denied, revoked>>

\* backend.create answered False: draw again, give up after the third draw.
Collide(c) ==
    IF call[c].draws + 1 < Draws
    THEN Continue(c, "draw", [call[c] EXCEPT !.draws = @ + 1])
    ELSE Return(c)

\* read, after backend.read returned the record: compare the absolute expiry
\* with a new clock reading.  A plain read then returns the session.
CheckLifetime(c) ==
    /\ pc[c] = "check"
    /\ CASE call[c].abs <= clock -> Continue(c, "expire", call[c])
         [] call[c].abs > clock /\ call[c].renewing -> Continue(c, "ttl", call[c])
         [] OTHER -> Return(c)
    /\ UNCHANGED <<clock, record, granted, denied, revoked>>

\* renew, after read returned the session: a second clock reading fixes the TTL.
ComputeTTL(c) ==
    /\ pc[c] = "ttl"
    /\ LET ttl == RenewalTTL(call[c].abs, clock)
       IN  IF ttl < 1
           THEN Return(c)
           ELSE Continue(c, "touch", [call[c] EXCEPT !.now = clock, !.ttl = ttl])
    /\ UNCHANGED <<clock, record, granted, denied, revoked>>

\* A caller presents a token it was granted: read when ~r, renew when r.
Presents(c, t) == pc[c] = "idle" /\ granted[t] > 0

\* The backend answered that t is not stored: read and renew return None.
Deny(c, t) ==
    /\ denied' = denied \cup {t}
    /\ Return(c)

-----------------------------------------------------------------------------
\* No expires_at handed to a caller lies beyond the absolute lifetime that the
\* session was created with (SessionManager.renew: min with the remaining life).
GrantWithinLifetime == \A t \in Token : granted[t] <= record[t]
=============================================================================
