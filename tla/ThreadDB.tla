------------------------------- MODULE ThreadDB -------------------------------
(***************************************************************************)
(* DWhoAbstractDB of dwho.classes.abstract, as the SQL objects of          *)
(* dwho.classes.objects use it: one connection per thread, found by the    *)
(* identity of the thread, which the operating system gives again to a     *)
(* later thread; and the setter that closes what dead threads left.        *)
(*                                                                         *)
(* `_db` maps an identity to the connections of its thread; one connection *)
(* name stands for all.  A thread that starts or ends does so under        *)
(* threading._active_limbo_lock, the lock the setter sweeps under.         *)
(*                                                                         *)
(* What a statement does depends on its request alone (module Statements), *)
(* so requests are told apart only by whether it is what was asked for.    *)
(***************************************************************************)
EXTENDS Statements, FiniteSets

CONSTANTS Thread, Ident, NoThread, MaxConns, MaxWrites

ASSUME ThreadDBAssumption ==
    /\ NoThread \notin Thread
    /\ MaxConns \in Nat /\ MaxWrites \in Nat

Conn == 1..MaxConns
NoConn == 0                         \* {'conn': None, 'cursor': None}
Write == Thread \X (1..MaxWrites)   \* the statements: a thread and its count

VARIABLES
    pc,         \* where each thread is
    ident,      \* the identity of a thread, once it has started
    limbo,      \* who holds _active_limbo_lock
    keys,       \* the identities that are keys of _db
    named,      \* those whose value holds the name: {name: {...}}, not {}
    conn,       \* conn[i]: _db[i][name]['conn']
    todo,       \* the keys that the sweep in progress still has to visit
    size,       \* the keys of _db when that sweep began
    opened,     \* how many connections were opened
    open,       \* the connections that this process has not closed
    dropped,    \* the connections that the server has dropped
    pending,    \* pending[c]: the statements run on c and not committed
    committed,  \* the statements the database has committed
    writes,     \* how many calls of the SQL methods a thread made
    told,       \* told[w]: what that call answered
    stray       \* history: a statement ran that is not what was asked for

dbvars == <<keys, named, conn>>
sqlvars == <<opened, open, dropped, pending, committed>>
callvars == <<writes, told, stray>>
vars == <<pc, ident, limbo, dbvars, todo, size, sqlvars, callvars>>

Step == {"unborn", "idle", "query", "commit", "set", "sweep", "dead"}

TypeOK ==
    /\ pc \in [Thread -> Step]
    /\ ident \in [Thread -> Ident]
    /\ limbo \in Thread \cup {NoThread}
    /\ named \subseteq keys /\ keys \subseteq Ident
    /\ conn \in [Ident -> Conn \cup {NoConn}]
    /\ todo \subseteq keys /\ size \subseteq keys
    /\ opened \in 0..MaxConns
    /\ open \subseteq Conn /\ dropped \subseteq Conn
    /\ pending \in [Conn -> SUBSET Write]
    /\ committed \subseteq Write
    /\ writes \in [Thread -> 0..MaxWrites]
    /\ told \in [Write -> {"nothing", "returned", "read", "raised"}]
    /\ stray \in BOOLEAN

Init ==
    /\ pc = [t \in Thread |-> "unborn"]
    /\ ident \in [Thread -> Ident]      \* read only once the thread started
    /\ limbo = NoThread
    /\ keys = {} /\ named = {} /\ conn = [i \in Ident |-> NoConn]
    /\ todo = {} /\ size = {}
    /\ opened = 0 /\ open = {} /\ dropped = {}
    /\ pending = [c \in Conn |-> {}] /\ committed = {}
    /\ writes = [t \in Thread |-> 0]
    /\ told = [w \in Write |-> "nothing"]
    /\ stray = FALSE

Alive(t) == pc[t] \notin {"unborn", "dead"}
Active == {ident[t] : t \in {u \in Thread : Alive(u)}}      \* threading._active
Go(t, step) == pc' = [pc EXCEPT ![t] = step]

\* thread_get_ident(), the key a thread reads and writes _db under.
Slot_Shared(t) == CHOOSE i \in Ident : TRUE
Slot(t) == ident[t]

\* The getter of `db` adds an entry for a thread that has none.
Entered(i) == keys \cup {i}

\* The call that a thread is in, and its end.
Now(t) == <<t, writes[t]>>
Answer(t, what) ==
    /\ told' = [told EXCEPT ![Now(t)] = what]
    /\ Go(t, "idle")
    /\ UNCHANGED writes

-----------------------------------------------------------------------------
(* Threads start and end                                                   *)

Start(t) ==
    /\ pc[t] = "unborn" /\ limbo = NoThread /\ ident[t] \notin Active
    /\ Go(t, "idle")
    /\ UNCHANGED <<ident, limbo, dbvars, todo, size, sqlvars, callvars>>

End(t) ==
    /\ pc[t] = "idle" /\ limbo = NoThread
    /\ Go(t, "dead")
    /\ UNCHANGED <<ident, limbo, dbvars, todo, size, sqlvars, callvars>>

-----------------------------------------------------------------------------
(* db_connect, and the method that calls it                                *)

Connected(c) == c \in open \ dropped

\* The new connection, after the old one has been closed.
Reopened_Leaking(i) == open \cup {opened + 1}
Reopened(i) == (open \ {conn[i]}) \cup {opened + 1}

\* connect(): the connection found is kept, or replaced, or cannot be replaced
\* and stays recorded although it is closed.
Connect(t) ==
    LET i == Slot(t)
    IN  /\ pc[t] = "idle" /\ writes[t] < MaxWrites
        /\ writes' = [writes EXCEPT ![t] = @ + 1]
        /\ keys' = Entered(i) /\ named' = named \cup {i}
        /\ \/ /\ i \in named /\ Connected(conn[i])
              /\ Go(t, "query")
              /\ UNCHANGED <<conn, opened, open, pending, told>>
           \/ /\ ~ (i \in named /\ Connected(conn[i])) /\ opened < MaxConns
              /\ opened' = opened + 1
              /\ open' = Reopened(i)
              /\ conn' = [conn EXCEPT ![i] = opened']
              /\ pending' = [c \in Conn |-> IF c = conn[i] THEN {} ELSE pending[c]]
              /\ Go(t, "query")
              /\ UNCHANGED told
           \/ /\ ~ (i \in named /\ Connected(conn[i]))
              /\ open' = open \ {conn[i]}
              /\ pending' = [c \in Conn |-> IF c = conn[i] THEN {} ELSE pending[c]]
              /\ told' = [told EXCEPT ![<<t, writes'[t]>>] = "raised"]
              /\ UNCHANGED <<pc, conn, opened>>
        /\ UNCHANGED <<ident, limbo, todo, size, dropped, committed, stray>>

Outcomes == {AsAsked(r) : r \in Request}
RunStatement == \E asked \in Outcomes : stray' = (stray \/ ~asked)

\* cursor.query: the statement runs on the connection, or an error is raised, as
\* it is before by arguments that are refused.  There is no rollback: what the
\* connection ran before is still pending.  A reading method returns what it found.
Query(t) ==
    LET c == conn[Slot(t)]
    IN  /\ pc[t] = "query"
        /\ \/ /\ Connected(c) /\ RunStatement
              /\ pending' = [pending EXCEPT ![c] = @ \cup {Now(t)}]
              /\ Go(t, "commit")
              /\ UNCHANGED <<writes, told>>
           \/ Connected(c) /\ RunStatement /\ Answer(t, "read") /\ UNCHANGED pending
           \/ Answer(t, "raised") /\ UNCHANGED <<pending, stray>>
        /\ UNCHANGED <<ident, limbo, dbvars, todo, size, opened, open, dropped,
                       committed>>

\* What conn.commit() did, and whether it returned: nothing and an error, or
\* everything, and then the answer may still be lost.
CommitOutcome(c) ==
    {<<{}, "raised">>}
    \cup (IF Connected(c)
          THEN {<<pending[c], "returned">>, <<pending[c], "raised">>} ELSE {})

Commit(t) ==
    LET c == conn[Slot(t)]
    IN  /\ pc[t] = "commit"
        /\ \E out \in CommitOutcome(c) :
              /\ committed' = committed \cup out[1]
              /\ pending' = [d \in Conn |-> IF d = c THEN pending[d] \ out[1]
                                                    ELSE pending[d]]
              /\ Answer(t, out[2])
        /\ UNCHANGED stray
        /\ UNCHANGED <<ident, limbo, dbvars, todo, size, opened, open, dropped>>

-----------------------------------------------------------------------------
(* db_disconnect and the setter of `db`                                    *)

\* Closing the connection of an identity; its pending statements are lost.
Close(i) ==
    /\ open' = open \ {conn[i]}
    /\ conn' = [conn EXCEPT ![i] = NoConn]
    /\ pending' = [c \in Conn |-> IF c = conn[i] THEN {} ELSE pending[c]]

\* A thread that has a connection of that name closes it; for another the
\* getter makes an empty entry and the setter is called.
Disconnect(t) ==
    LET i == Slot(t)
    IN  /\ pc[t] = "idle"
        /\ \/ /\ i \in named
              /\ Close(i)
              /\ UNCHANGED <<pc, keys>>
           \/ /\ i \notin named
              /\ keys' = Entered(i)
              /\ Go(t, "set")
              /\ UNCHANGED <<conn, open, pending>>
        /\ UNCHANGED <<ident, limbo, named, todo, size, opened, dropped,
                       committed, callvars>>

\* with _active_limbo_lock: the iteration over _db begins.
BeginSweep(t) ==
    /\ pc[t] = "set" /\ limbo = NoThread
    /\ limbo' = t /\ todo' = keys /\ size' = keys
    /\ Go(t, "sweep")
    /\ UNCHANGED <<ident, dbvars, sqlvars, callvars>>

\* The identities whose entries the sweep leaves alone.
Kept_Others(t) == {Slot(t)}
Kept(t) == Active

\* One identity, unless an entry was added since the iteration began.
SweepOne(t) ==
    /\ pc[t] = "sweep" /\ keys = size
    /\ \E i \in todo :
          /\ todo' = todo \ {i}
          /\ IF i \in Kept(t) THEN UNCHANGED <<conn, open, pending>> ELSE Close(i)
    /\ UNCHANGED <<pc, ident, limbo, keys, named, size, opened, dropped,
                   committed, callvars>>

\* The iteration has met every identity; the entry of the thread is replaced.
SweepDone_Early(t) == pc[t] = "sweep" /\ keys = size
SweepDone(t) == pc[t] = "sweep" /\ keys = size /\ todo = {}

EndSweep(t) ==
    /\ SweepDone(t)
    /\ limbo' = NoThread
    /\ named' = named \cup {Slot(t)}
    /\ conn' = [conn EXCEPT ![Slot(t)] = NoConn]
    /\ todo' = {} /\ size' = {}
    /\ Go(t, "idle")
    /\ UNCHANGED <<ident, keys, sqlvars, callvars>>

\* RuntimeError: dictionary changed size during iteration.
BreakSweep(t) ==
    /\ pc[t] = "sweep" /\ keys # size
    /\ limbo' = NoThread /\ todo' = {} /\ size' = {}
    /\ Go(t, "idle")
    /\ UNCHANGED <<ident, dbvars, sqlvars, callvars>>

-----------------------------------------------------------------------------
(* The database server may drop a connection; what it had pending is lost. *)

Drop(c) ==
    /\ Connected(c)
    /\ dropped' = dropped \cup {c}
    /\ pending' = [pending EXCEPT ![c] = {}]
    /\ UNCHANGED <<pc, ident, limbo, dbvars, todo, size, opened, open, committed,
                   callvars>>

ThreadStep(t) ==
    \/ Start(t) \/ End(t)
    \/ Connect(t) \/ Query(t) \/ Commit(t)
    \/ Disconnect(t) \/ BeginSweep(t) \/ SweepOne(t) \/ EndSweep(t) \/ BreakSweep(t)

Next == (\E t \in Thread : ThreadStep(t)) \/ (\E c \in Conn : Drop(c))

Spec == Init /\ [][Next]_vars

-----------------------------------------------------------------------------
(* Properties                                                              *)

\* The connection of a live thread is closed by that thread alone, when it
\* disconnects or replaces it, and never by the sweep of another thread, which
\* only closes what dead threads left (abstract.py:155-161).
LiveKept ==
    [][\A t \in Thread :
          LET c == conn[ident[t]]
          IN  Alive(t) /\ c \in open \ open' => pc[t] = "idle" /\ todo' = todo]_vars

\* No connection is lost from sight: one that is open is recorded for some
\* identity, so that a later call can still close it.
NoLeak == \A c \in open : \E i \in named : conn[i] = c

\* Whatever values, lists and search texts a call is made with, its statement can be
\* read, and read with its AND, OR and parentheses it answers, changes or deletes
\* exactly the rows that they describe, and as they say.  Alone, None describes the
\* rows whose column is NULL; in a list it describes none, as IN has it
\* (objects.py:55-96, 272, 277).
StatementsAsAsked == ~stray

\* Threads share no transaction: the statement of a thread that is alive and not
\* committing is committed by no other thread, and a create, update or delete
\* returns only once its statement is committed.
OwnTransaction ==
    [][/\ \A w \in committed' \ committed : pc[w[1]] \in {"commit", "dead"}
       /\ \A w \in Write : told'[w] = "returned" => w \in committed']_vars

\* When a sweep ends without an error, no dead thread has an open connection.
SweepComplete ==
    [][\A t \in Thread :
          pc[t] = "sweep" /\ pc'[t] = "idle" /\ keys = size
             => \A i \in keys \ Active : conn[i] \notin open]_vars
=============================================================================
