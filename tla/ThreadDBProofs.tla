--------------------------- MODULE ThreadDBProofs ---------------------------
(***************************************************************************)
(* Proofs about ThreadDB, for every number of threads, identities,         *)
(* connections and calls: who closes a connection, what is lost from       *)
(* sight, whose statements a commit commits and what a sweep leaves.  The  *)
(* second half is about Statements: for arguments of every length the      *)
(* tokens after WHERE are read to their end, each place gets the parameter *)
(* that is meant for it, an escaped text is found literally, and so a      *)
(* statement does to each row what its call asked for.                     *)
(***************************************************************************)
EXTENDS ThreadDB, SequenceTheorems, WellFoundedInduction, TLAPS

-----------------------------------------------------------------------------
(* The inductive invariant, in named parts.                                *)

TypeInv ==
    /\ pc \in [Thread -> Step] /\ ident \in [Thread -> Ident]
    /\ limbo \in Thread \cup {NoThread}
    /\ keys \subseteq Ident /\ todo \subseteq Ident
    /\ opened \in 0 .. MaxConns /\ open \subseteq 1 .. opened
    /\ conn \in [Ident -> 0 .. opened]
    /\ pending \in [Conn -> SUBSET Write]
    /\ writes \in [Thread -> 0 .. MaxWrites]
    /\ \A t \in Thread : pc[t] \in {"query", "commit"} => writes[t] > 0
    /\ told \in [Write -> {"nothing", "returned", "read", "raised"}]

\* Live threads have entries of their own, one that sweeps has none.
ThreadInv ==
    /\ \A t, u \in Thread : Alive(t) /\ Alive(u) /\ ident[t] = ident[u] => t = u
    /\ \A t \in Thread : pc[t] \in {"set", "sweep"} => ident[t] \notin named
    /\ \A i \in Ident : conn[i] # NoConn => i \in named

\* Each connection is recorded for one identity, and no open one is forgotten.
StoreInv ==
    /\ \A i, j \in Ident : conn[i] = conn[j] /\ conn[i] # NoConn => i = j
    /\ \A c \in open : \E i \in Ident : conn[i] = c
    /\ \A c \in Conn : pending[c] # {} => c <= opened

\* A statement is pending on the connection of its thread, or its thread is dead.
PendingInv ==
    \A c \in Conn : \A w \in pending[c] :
        pc[w[1]] = "dead" \/ (Alive(w[1]) /\ conn[ident[w[1]]] = c)

\* A thread that commits has its statement on its connection, if that is there.
CommitInv ==
    /\ \A t \in Thread :
          pc[t] = "commit" /\ Connected(conn[ident[t]]) => Now(t) \in pending[conn[ident[t]]]
    /\ \A w \in Write : told[w] = "returned" => w \in committed

\* What a sweep has visited is closed, or of a live thread.
SweepInv ==
    /\ \A t \in Thread : pc[t] = "sweep" <=> limbo = t
    /\ limbo # NoThread =>
          \A i \in Ident : i \in size \ todo => i \in Active \/ conn[i] \notin open

IInv == TypeInv /\ ThreadInv /\ StoreInv /\ PendingInv /\ CommitInv /\ SweepInv

-----------------------------------------------------------------------------
(* The two effects that a call has on connections.                         *)

\* The connection of identity i is closed, and forgotten unless it is kept.
Closes(i, kept) ==
    /\ open' = open \ {conn[i]}
    /\ conn' = IF kept THEN conn ELSE [conn EXCEPT ![i] = NoConn]
    /\ pending' = [c \in Conn |-> IF c = conn[i] THEN {} ELSE pending[c]]
    /\ opened' = opened

\* It is replaced by a new one.
Reopens(i) ==
    /\ opened < MaxConns /\ opened' = opened + 1
    /\ open' = (open \ {conn[i]}) \cup {opened + 1}
    /\ conn' = [conn EXCEPT ![i] = opened + 1]
    /\ pending' = [c \in Conn |-> IF c = conn[i] THEN {} ELSE pending[c]]

\* One thread goes from a step to another; nothing else about threads changes.
Moves(t, step) == pc' = [pc EXCEPT ![t] = step] /\ ident' = ident

StoreType ==
    /\ opened \in 0 .. MaxConns /\ open \subseteq 1 .. opened
    /\ conn \in [Ident -> 0 .. opened] /\ pending \in [Conn -> SUBSET Write]

\* What remains pending is as it was, on the connections of other identities.
LEMMA ClearedPending ==
  ASSUME StoreType, StoreInv, NEW i \in Ident,
         pending' = [c \in Conn |-> IF c = conn[i] THEN {} ELSE pending[c]]
  PROVE  /\ pending' \in [Conn -> SUBSET Write]
         /\ \A c \in Conn : pending'[c] \subseteq pending[c] /\ (c = conn[i] => pending'[c] = {})
         /\ \A j \in Ident \ {i} : conn[j] \in Conn => pending'[conn[j]] = pending[conn[j]]
<1>1. \A c \in Conn : pending'[c] = IF c = conn[i] THEN {} ELSE pending[c]
  OBVIOUS
<1>2. \A c \in Conn : (IF c = conn[i] THEN {} ELSE pending[c]) \in SUBSET Write
  BY DEF StoreType
<1>3. \A j \in Ident \ {i} : conn[j] \in Conn => conn[j] # conn[i]
  BY DEF StoreInv, Conn, NoConn, StoreType
<1>4. QED
  BY <1>1, <1>2, <1>3

\* Closing one connection concerns no other identity.
LEMMA CloseStore ==
  ASSUME ThreadDBAssumption, StoreType, StoreInv, NEW i \in Ident, NEW kept \in BOOLEAN, Closes(i, kept)
  PROVE  /\ StoreType' /\ StoreInv'
         /\ \A j \in Ident \ {i} : conn'[j] = conn[j]
         /\ conn'[i] \in {conn[i], NoConn}
<1> USE DEF StoreType, StoreInv, Closes, NoConn
<1>1. pending' \in [Conn -> SUBSET Write] /\ \A c \in Conn : pending'[c] \subseteq pending[c]
  BY ClearedPending
<1>2. /\ conn' \in [Ident -> 0 .. opened'] /\ \A j \in Ident \ {i} : conn'[j] = conn[j]
      /\ conn'[i] \in {conn[i], 0} /\ open' \subseteq 1 .. opened'
  <2>1. CASE kept
    BY <2>1
  <2>2. CASE ~kept
    <3>1. conn' = [conn EXCEPT ![i] = 0] /\ opened' = opened
      BY <2>2
    <3>2. 0 \in 0 .. opened
      OBVIOUS
    <3>3. open' \subseteq 1 .. opened
      OBVIOUS
    <3>4. conn' \in [Ident -> 0 .. opened]
      BY <3>1, <3>2
    <3>5. QED
      BY <3>1, <3>3, <3>4
  <2>3. QED
    BY <2>1, <2>2
<1>3. \A j, k \in Ident : conn'[j] = conn'[k] /\ conn'[j] # NoConn => j = k
  BY <1>2
<1>4. \A c \in open' : \E j \in Ident : conn'[j] = c
  BY <1>2
<1>5. QED
  BY <1>1, <1>2, <1>3, <1>4

\* So does replacing it.
LEMMA ReopenStore ==
  ASSUME ThreadDBAssumption, StoreType, StoreInv, NEW i \in Ident, Reopens(i)
  PROVE  /\ StoreType' /\ StoreInv'
         /\ \A j \in Ident \ {i} : conn'[j] = conn[j]
         /\ conn'[i] = opened + 1 /\ conn'[i] \in Conn /\ pending'[conn'[i]] = {}
<1> USE DEF StoreType, StoreInv, Reopens, Conn, NoConn, ThreadDBAssumption
<1>1. pending' \in [Conn -> SUBSET Write] /\ \A c \in Conn : pending'[c] \subseteq pending[c]
  BY ClearedPending
<1>2. /\ conn' \in [Ident -> 0 .. opened'] /\ \A j \in Ident \ {i} : conn'[j] = conn[j]
      /\ conn'[i] = opened + 1 /\ opened' \in 0 .. MaxConns
  OBVIOUS
<1>3. open' \subseteq 1 .. opened'
  <2>1. opened + 1 \in 1 .. opened + 1 /\ \A c \in 1 .. opened : c \in 1 .. opened + 1
    OBVIOUS
  <2>2. open' \subseteq 1 .. opened + 1 /\ opened' = opened + 1
    BY <2>1
  <2>3. QED
    BY <2>2
<1>4. \A j, k \in Ident : conn'[j] = conn'[k] /\ conn'[j] # NoConn => j = k
  BY <1>2
<1>5. \A c \in open' : \E j \in Ident : conn'[j] = c
  BY <1>2
<1>6. opened + 1 \in Conn /\ pending'[opened + 1] = {}
  BY <1>1
<1>7. \A c \in Conn : pending'[c] # {} => c <= opened'
  BY <1>1
<1>8. QED
  BY <1>1, <1>2, <1>3, <1>4, <1>5, <1>6, <1>7

-----------------------------------------------------------------------------
(* Each part of the invariant, in every step.                              *)

\* What a step of a thread does to connections.
LEMMA ThreadEffect ==
  ASSUME TypeInv, ThreadInv, NEW t \in Thread, ThreadStep(t)
  PROVE  /\ ident' = ident /\ named \subseteq named'
         /\ \A u \in Thread \ {t} : pc'[u] = pc[u]
         /\ \/ UNCHANGED <<opened, open, conn>> /\ named' \subseteq named \cup {ident[t]}
               /\ \/ Query(t) \/ Commit(t)
                  \/ pending' = pending /\ ~Query(t) /\ ~Commit(t)
            \/ /\ pc[t] = "idle" /\ pc'[t] \in {"query", "idle"} /\ todo' = todo
               /\ Reopens(ident[t]) \/ Closes(ident[t], TRUE) \/ Closes(ident[t], FALSE)
               /\ named' = named \cup {ident[t]}
            \/ /\ pc[t] = "sweep" /\ pc' = pc /\ named' = named
               /\ \E i \in todo \ Active : Closes(i, FALSE)
<1> USE DEF TypeInv, Go, dbvars, sqlvars, Slot
<1>1. CASE Start(t) \/ End(t)
  BY <1>1 DEF Start, End, Query, Commit
<1>2. CASE Connect(t)
  BY <1>2 DEF Connect, Reopened, Reopens, Closes, Query, Commit
<1>3. CASE Query(t)
  BY <1>3 DEF Query, Answer
<1>4. CASE Commit(t)
  BY <1>4 DEF Commit, Answer
<1>5. CASE Disconnect(t)
  BY <1>5 DEF Disconnect, Close, Closes, Query, Commit
<1>6. CASE BeginSweep(t) \/ BreakSweep(t)
  BY <1>6 DEF BeginSweep, BreakSweep, Query, Commit
<1>7. CASE SweepOne(t)
  BY <1>7 DEF SweepOne, Kept, Close, Closes, Query, Commit
<1>8. CASE EndSweep(t)
  <2>1. conn[ident[t]] = NoConn
    BY <1>8 DEF EndSweep, SweepDone, ThreadInv
  <2>2. conn' = conn
    BY <1>8, <2>1 DEF EndSweep
  <2>3. QED
    BY <1>8, <2>2 DEF EndSweep, SweepDone, Query, Commit
<1>9. QED
  BY <1>1, <1>2, <1>3, <1>4, <1>5, <1>6, <1>7, <1>8 DEF ThreadStep

\* The server drops a connection: only what is pending on it changes.
LEMMA DropEffect ==
  ASSUME NEW c \in Conn, Drop(c)
  PROVE  /\ UNCHANGED <<pc, ident, limbo, dbvars, todo, size, opened, open, committed, callvars>>
         /\ dropped' = dropped \cup {c} /\ pending' = [pending EXCEPT ![c] = {}]
  BY DEF Drop

\* What the types say of connections and identities.
LEMMA TypeParts == TypeInv => StoreType /\ \A t \in Thread : ident[t] \in Ident
  BY DEF TypeInv, StoreType

\* A call that runs a statement runs it on the connection of its thread.
LEMMA QueryEffect ==
  ASSUME ThreadDBAssumption, TypeInv, NEW t \in Thread, Query(t)
  PROVE  /\ pc[t] = "query" /\ Now(t) \in Write
         /\ UNCHANGED <<ident, limbo, dbvars, todo, size, opened, open, dropped, committed, writes>>
         /\ \/ /\ Connected(conn[ident[t]]) /\ Moves(t, "commit") /\ told' = told
               /\ conn[ident[t]] \in Conn /\ conn[ident[t]] <= opened
               /\ pending' = [pending EXCEPT ![conn[ident[t]]] = @ \cup {Now(t)}]
            \/ /\ Moves(t, "idle") /\ pending' = pending
               /\ \E what \in {"read", "raised"} : told' = [told EXCEPT ![Now(t)] = what]
<1>1. Now(t) \in Write /\ pc[t] = "query"
  BY DEF Query, Now, Write, TypeInv, ThreadDBAssumption
<1>2. Connected(conn[ident[t]]) => conn[ident[t]] \in Conn /\ conn[ident[t]] <= opened
  BY DEF Connected, TypeInv, Conn, ThreadDBAssumption
<1>3. QED
  BY <1>1, <1>2 DEF Query, Answer, Go, Slot, Moves

\* A commit empties the connection of its thread, or changes nothing.
LEMMA CommitEffect ==
  ASSUME ThreadDBAssumption, TypeInv, NEW t \in Thread, Commit(t)
  PROVE  /\ pc[t] = "commit" /\ Now(t) \in Write /\ Moves(t, "idle")
         /\ UNCHANGED <<limbo, dbvars, todo, size, opened, open, dropped, writes>>
         /\ \/ pending' = pending /\ committed' = committed /\ told' = [told EXCEPT ![Now(t)] = "raised"]
            \/ /\ Connected(conn[ident[t]]) /\ conn[ident[t]] \in Conn
               /\ pending' = [pending EXCEPT ![conn[ident[t]]] = {}]
               /\ committed' = committed \cup pending[conn[ident[t]]]
               /\ \E what \in {"returned", "raised"} : told' = [told EXCEPT ![Now(t)] = what]
<1> DEFINE c == conn[ident[t]]
<1>1. Now(t) \in Write /\ pc[t] = "commit"
  BY DEF Commit, Now, Write, TypeInv, ThreadDBAssumption
<1>2. Connected(c) => c \in Conn
  BY DEF Connected, TypeInv, Conn, ThreadDBAssumption
<1>3. PICK out \in CommitOutcome(c) :
         /\ committed' = committed \cup out[1]
         /\ pending' = [d \in Conn |-> IF d = c THEN pending[d] \ out[1] ELSE pending[d]]
         /\ Answer(t, out[2])
  BY DEF Commit, Slot
<1>4. \/ out[1] = {} /\ out[2] = "raised"
      \/ Connected(c) /\ out[1] = pending[c] /\ out[2] \in {"returned", "raised"}
  BY <1>3 DEF CommitOutcome
<1>5. pending \in [Conn -> SUBSET Write] /\ Moves(t, "idle") /\ told' = [told EXCEPT ![Now(t)] = out[2]]
  BY <1>3 DEF TypeInv, Answer, Go, Moves, Commit
<1>6. CASE out[1] = {} /\ out[2] = "raised"
  <2>1. pending' = pending
    BY <1>3, <1>5, <1>6
  <2>2. QED
    BY <1>1, <1>3, <1>5, <1>6, <2>1 DEF Commit, Answer
<1>7. CASE Connected(c) /\ out[1] = pending[c] /\ out[2] \in {"returned", "raised"}
  <2>1. pending' = [pending EXCEPT ![c] = {}]
    BY <1>2, <1>3, <1>5, <1>7
  <2>2. QED
    BY <1>1, <1>2, <1>3, <1>5, <1>7, <2>1 DEF Commit, Answer
<1>8. QED
  BY <1>4, <1>6, <1>7

\* Every step keeps what connections are.
LEMMA StoreStep ==
  ASSUME ThreadDBAssumption, TypeInv, ThreadInv, StoreInv, [Next]_vars
  PROVE  StoreType' /\ StoreInv' /\ ident' = ident
<1>0. StoreType /\ \A t \in Thread : ident[t] \in Ident
  BY TypeParts
<1>1. ASSUME UNCHANGED <<opened, open, conn, pending>> PROVE StoreType' /\ StoreInv'
  BY <1>0, <1>1 DEF StoreType, StoreInv
<1>2. ASSUME UNCHANGED <<opened, open, conn>>, NEW c \in Conn, NEW S \in SUBSET Write,
             pending' = [pending EXCEPT ![c] = S], S # {} => c <= opened
      PROVE  StoreType' /\ StoreInv'
  <2>1. pending' \in [Conn -> SUBSET Write] /\ pending'[c] = S
        /\ \A d \in Conn \ {c} : pending'[d] = pending[d]
    BY <1>0, <1>2 DEF StoreType
  <2>2. QED
    BY <1>0, <1>2, <2>1 DEF StoreType, StoreInv
<1>3. ASSUME NEW c \in Conn, Drop(c) PROVE StoreType' /\ StoreInv' /\ ident' = ident
  <2>1. UNCHANGED <<opened, open, conn>> /\ pending' = [pending EXCEPT ![c] = {}] /\ ident' = ident
    BY <1>3 DEF Drop, dbvars
  <2>2. {} \in SUBSET Write /\ ({} # {} => c <= opened)
    OBVIOUS
  <2>3. QED
    BY <1>2, <2>1, <2>2
<1>4. ASSUME NEW t \in Thread, Query(t) PROVE StoreType' /\ StoreInv' /\ ident' = ident
  <2> DEFINE c == conn[ident[t]]
  <2>1. /\ UNCHANGED <<opened, open, conn>> /\ ident' = ident /\ Now(t) \in Write
        /\ \/ pending' = pending
           \/ c \in Conn /\ c <= opened /\ pending' = [pending EXCEPT ![c] = @ \cup {Now(t)}]
    BY <1>4, QueryEffect DEF dbvars
  <2>2. CASE c \in Conn /\ c <= opened /\ pending' = [pending EXCEPT ![c] = @ \cup {Now(t)}]
    <3>1. pending[c] \cup {Now(t)} \in SUBSET Write
      BY <1>0, <2>1, <2>2 DEF StoreType
    <3> HIDE DEF c
    <3>2. QED
      BY <1>2, <2>1, <2>2, <3>1
  <2>3. QED
    BY <1>1, <2>1, <2>2
<1>5. ASSUME NEW t \in Thread, Commit(t) PROVE StoreType' /\ StoreInv' /\ ident' = ident
  BY <1>1, <1>2, <1>5, CommitEffect DEF dbvars, Moves
<1>6. ASSUME NEW t \in Thread, ThreadStep(t), ~Query(t), ~Commit(t)
      PROVE  StoreType' /\ StoreInv' /\ ident' = ident
  <2>1. CASE Reopens(ident[t]) \/ Closes(ident[t], TRUE) \/ Closes(ident[t], FALSE)
    BY <1>0, <1>6, <2>1, ThreadEffect, ReopenStore, CloseStore
  <2>2. ASSUME NEW i \in todo \ Active, Closes(i, FALSE) PROVE StoreType' /\ StoreInv'
    BY <1>0, <2>2, CloseStore DEF TypeInv
  <2>3. ident' = ident /\ (\/ UNCHANGED <<opened, open, conn, pending>>
                          \/ Reopens(ident[t]) \/ Closes(ident[t], TRUE) \/ Closes(ident[t], FALSE)
                          \/ \E i \in todo \ Active : Closes(i, FALSE))
    BY <1>6, ThreadEffect
  <2>4. QED
    BY <1>1, <2>1, <2>2, <2>3
<1>7. QED
  BY <1>1, <1>3, <1>4, <1>5, <1>6 DEF Next, vars, sqlvars, dbvars

\* What threads are, connections apart.
LocalType ==
    /\ pc \in [Thread -> Step] /\ limbo \in Thread \cup {NoThread}
    /\ keys \subseteq Ident /\ todo \subseteq Ident
    /\ writes \in [Thread -> 0 .. MaxWrites]
    /\ \A t \in Thread : pc[t] \in {"query", "commit"} => writes[t] > 0
    /\ told \in [Write -> {"nothing", "returned", "read", "raised"}]

\* Every step of a thread keeps the other types.
LEMMA LocalStep ==
  ASSUME ThreadDBAssumption, TypeInv, NEW t \in Thread, ThreadStep(t) PROVE LocalType'
<1> USE DEF TypeInv, LocalType, dbvars, sqlvars, callvars, Slot, Go, Step
<1>1. CASE Start(t) \/ End(t)
  BY <1>1 DEF Start, End
<1>2. CASE Connect(t)
  <2>1. /\ pc[t] = "idle" /\ writes[t] \in 0 .. MaxWrites /\ writes[t] < MaxWrites
        /\ writes' = [writes EXCEPT ![t] = @ + 1] /\ keys' = keys \cup {ident[t]}
        /\ pc' \in {pc, [pc EXCEPT ![t] = "query"]}
        /\ told' \in {told, [told EXCEPT ![<<t, writes'[t]>>] = "raised"]}
        /\ UNCHANGED <<limbo, todo>>
    BY <1>2 DEF Connect, Entered
  <2>2. writes[t] + 1 \in 0 .. MaxWrites /\ writes[t] + 1 > 0
    BY <2>1 DEF ThreadDBAssumption
  <2>3. writes' \in [Thread -> 0 .. MaxWrites] /\ writes'[t] > 0
        /\ \A u \in Thread \ {t} : writes'[u] = writes[u]
    BY <2>1, <2>2
  <2>4. pc' \in [Thread -> Step] /\ \A u \in Thread \ {t} : pc'[u] = pc[u]
    BY <2>1
  <2>5. told' \in [Write -> {"nothing", "returned", "read", "raised"}]
    BY <2>1
  <2>6. QED
    BY <2>1, <2>3, <2>4, <2>5
<1>3. CASE Query(t)
  <2>1. /\ UNCHANGED <<limbo, keys, todo, writes>> /\ pc[t] = "query"
        /\ pc' \in {[pc EXCEPT ![t] = "commit"], [pc EXCEPT ![t] = "idle"]}
        /\ told' = told \/ \E what \in {"read", "raised"} : told' = [told EXCEPT ![Now(t)] = what]
    BY <1>3, QueryEffect DEF Moves
  <2>2. QED
    BY <2>1
<1>4. CASE Commit(t)
  <2>1. /\ UNCHANGED <<limbo, keys, todo, writes>> /\ pc' = [pc EXCEPT ![t] = "idle"]
        /\ \E what \in {"returned", "raised"} : told' = [told EXCEPT ![Now(t)] = what]
    BY <1>4, CommitEffect DEF Moves
  <2>2. QED
    BY <2>1
<1>5. CASE Disconnect(t)
  BY <1>5 DEF Disconnect, Entered
<1>6. CASE BeginSweep(t) \/ BreakSweep(t)
  BY <1>6 DEF BeginSweep, BreakSweep
<1>7. CASE SweepOne(t)
  BY <1>7 DEF SweepOne
<1>8. CASE EndSweep(t)
  BY <1>8 DEF EndSweep
<1>9. QED
  BY <1>1, <1>2, <1>3, <1>4, <1>5, <1>6, <1>7, <1>8 DEF ThreadStep

\* Every step keeps the types.
LEMMA TypeStep ==
  ASSUME ThreadDBAssumption, TypeInv, ThreadInv, StoreInv, [Next]_vars PROVE TypeInv'
<1>1. StoreType' /\ ident' = ident
  BY StoreStep
<1>2. LocalType'
  <2>1. UNCHANGED vars \/ (\E c \in Conn : Drop(c)) => UNCHANGED <<pc, limbo, dbvars, todo, callvars>>
    BY DEF vars, Drop, sqlvars
  <2>2. UNCHANGED <<pc, limbo, dbvars, todo, callvars>> => LocalType'
    BY DEF TypeInv, LocalType, dbvars, callvars
  <2>3. QED
    BY <2>1, <2>2, LocalStep DEF Next
<1>3. QED
  BY <1>1, <1>2 DEF TypeInv, StoreType, LocalType

\* A thread that starts has an identity that no live thread has.
LEMMA ThreadInvStep ==
  ASSUME ThreadDBAssumption, TypeInv, ThreadInv, StoreInv, [Next]_vars PROVE ThreadInv'
<1> USE DEF TypeInv
<1>1. ASSUME UNCHANGED <<pc, ident, named, conn>> PROVE ThreadInv'
  BY <1>1 DEF ThreadInv, Alive
<1>2. CASE UNCHANGED vars \/ \E c \in Conn : Drop(c)
  BY <1>1, <1>2 DEF vars, dbvars, Drop
<1>3. ASSUME NEW t \in Thread, ThreadStep(t) PROVE ThreadInv'
  <2>0. ident' = ident /\ \A u \in Thread \ {t} : pc'[u] = pc[u]
    BY <1>3, ThreadEffect
  <2>1. \A u, v \in Thread : Alive(u)' /\ Alive(v)' /\ ident'[u] = ident'[v] => u = v
    <3>1. CASE Start(t)
      BY <2>0, <3>1 DEF Start, Active, Alive, ThreadInv
    <3>2. CASE ~Start(t)
      <4>1. Alive(t)
        BY <1>3, <3>2 DEF ThreadStep, End, Connect, Query, Commit, Disconnect, BeginSweep, SweepOne,
                          EndSweep, SweepDone, BreakSweep, Alive
      <4>2. QED
        BY <2>0, <4>1 DEF ThreadInv, Alive
    <3>3. QED
      BY <3>1, <3>2
  <2>2. /\ pc'[t] \in {"set", "sweep"} => ident[t] \notin named'
        /\ named' # named => Alive(t)
    <3> USE DEF Go, Slot, dbvars, sqlvars, ThreadInv
    <3>1. CASE Start(t) \/ End(t)
      BY <3>1 DEF Start, End
    <3>2. CASE Connect(t)
      BY <3>2 DEF Connect, Alive
    <3>3. CASE Query(t) \/ Commit(t)
      BY <3>3, QueryEffect, CommitEffect DEF Moves
    <3>4. CASE Disconnect(t)
      BY <3>4 DEF Disconnect
    <3>5. CASE BeginSweep(t) \/ BreakSweep(t) \/ SweepOne(t)
      BY <3>5 DEF BeginSweep, BreakSweep, SweepOne
    <3>6. CASE EndSweep(t)
      BY <3>6 DEF EndSweep, SweepDone, Alive
    <3>7. QED
      BY <1>3, <3>1, <3>2, <3>3, <3>4, <3>5, <3>6 DEF ThreadStep
  <2>3. named \subseteq named' /\ \A i \in named' : i \in named \/ (i = ident[t] /\ named' # named)
    BY <1>3, ThreadEffect
  <2>4. \A u \in Thread \ {t} : pc'[u] \in {"set", "sweep"} => ident[u] \notin named'
    BY <2>0, <2>2, <2>3 DEF ThreadInv, Alive
  <2>5. \A i \in Ident : conn'[i] # NoConn => i \in named'
    <3>1. StoreType /\ ident[t] \in Ident
      BY TypeParts
    <3>2. CASE conn' = conn
      BY <2>3, <3>2 DEF ThreadInv
    <3>3. CASE /\ Reopens(ident[t]) \/ Closes(ident[t], TRUE) \/ Closes(ident[t], FALSE)
               /\ named' = named \cup {ident[t]}
      <4>1. \A j \in Ident \ {ident[t]} : conn'[j] = conn[j]
        BY <3>1, <3>3, ReopenStore, CloseStore
      <4>2. QED
        BY <2>3, <3>3, <4>1 DEF ThreadInv
    <3>4. ASSUME NEW i \in todo \ Active, Closes(i, FALSE), named' = named
          PROVE  \A j \in Ident : conn'[j] # NoConn => j \in named'
      <4>1. i \in Ident
        BY <3>4
      <4>2. /\ \A j \in Ident \ {i} : conn'[j] = conn[j]
            /\ conn'[i] \in {conn[i], NoConn}
        BY <3>1, <3>4, <4>1, CloseStore
      <4>3. QED
        BY <3>4, <4>2 DEF ThreadInv
    <3>5. QED
      BY <1>3, <3>2, <3>3, <3>4, ThreadEffect
  <2>6. QED
    BY <2>0, <2>1, <2>2, <2>4, <2>5 DEF ThreadInv
<1>4. QED
  BY <1>2, <1>3 DEF Next

-----------------------------------------------------------------------------
(* Transactions.                                                           *)

\* An open connection is the one of a live thread only for that thread.
LEMMA OwnConnection ==
  ASSUME TypeInv, ThreadInv, StoreInv, NEW t \in Thread, NEW u \in Thread, Alive(t), Alive(u),
         conn[ident[t]] = conn[ident[u]], conn[ident[t]] # NoConn
  PROVE  t = u
  BY DEF TypeInv, ThreadInv, StoreInv

\* Threads keep their identity, and one that ends is dead for ever.
ThreadsGoOn ==
    /\ ident' = ident
    /\ \A u \in Thread : pc[u] = "dead" => pc'[u] = "dead"
    /\ \A u \in Thread : Alive(u) => Alive(u)' \/ pc'[u] = "dead"

\* A statement stays pending where it is until its connection is closed or replaced.
LEMMA PendingStep ==
  ASSUME ThreadDBAssumption, TypeInv, ThreadInv, StoreInv, PendingInv, [Next]_vars
  PROVE  PendingInv'
<1>0. StoreType /\ \A t \in Thread : ident[t] \in Ident
  BY TypeParts
<1>1. ASSUME ThreadsGoOn,
             \A c \in Conn : \A w \in pending'[c] :
                \/ w \in pending[c] /\ (Alive(w[1]) => conn'[ident[w[1]]] = conn[ident[w[1]]])
                \/ Alive(w[1])' /\ conn'[ident[w[1]]] = c
      PROVE  PendingInv'
  <2> SUFFICES ASSUME NEW c \in Conn, NEW w \in pending'[c]
               PROVE  pc'[w[1]] = "dead" \/ (Alive(w[1])' /\ conn'[ident'[w[1]]] = c)
    BY DEF PendingInv
  <2>1. CASE Alive(w[1])' /\ conn'[ident[w[1]]] = c
    BY <1>1, <2>1 DEF ThreadsGoOn
  <2>2. CASE w \in pending[c] /\ (Alive(w[1]) => conn'[ident[w[1]]] = conn[ident[w[1]]])
    <3>1. w[1] \in Thread
      BY <1>0, <2>2 DEF StoreType, Write
    <3>2. pc[w[1]] = "dead" \/ (Alive(w[1]) /\ conn[ident[w[1]]] = c)
      BY <2>2 DEF PendingInv
    <3>3. CASE pc[w[1]] = "dead"
      BY <1>1, <3>1, <3>3 DEF ThreadsGoOn
    <3>4. CASE Alive(w[1]) /\ conn[ident[w[1]]] = c
      <4>1. conn'[ident'[w[1]]] = c
        BY <1>1, <2>2, <3>4 DEF ThreadsGoOn
      <4>2. Alive(w[1])' \/ pc'[w[1]] = "dead"
        BY <1>1, <3>1, <3>4 DEF ThreadsGoOn
      <4>3. QED
        BY <4>1, <4>2
    <3>5. QED
      BY <3>2, <3>3, <3>4
  <2>3. QED
    BY <1>1, <2>1, <2>2
<1>2. CASE UNCHANGED vars
  BY <1>1, <1>2 DEF vars, dbvars, sqlvars, Alive, ThreadsGoOn
<1>3. ASSUME NEW c \in Conn, Drop(c) PROVE PendingInv'
  <2>1. UNCHANGED <<pc, ident, conn>> /\ pending' = [pending EXCEPT ![c] = {}]
    BY <1>3 DEF Drop, dbvars
  <2>2. \A d \in Conn : pending'[d] \subseteq pending[d]
    BY <1>0, <2>1 DEF StoreType
  <2>3. QED
    BY <1>1, <2>1, <2>2 DEF Alive, ThreadsGoOn
<1>4. ASSUME NEW t \in Thread, ThreadStep(t) PROVE PendingInv'
  <2>1. ident' = ident /\ \A u \in Thread \ {t} : pc'[u] = pc[u]
    BY <1>4, ThreadEffect
  <2>2. /\ pc[t] # "dead" /\ (Alive(t) => Alive(t)' \/ pc'[t] = "dead")
    <3> USE DEF TypeInv, Go, Alive
    <3>1. CASE Start(t) \/ End(t)
      BY <3>1 DEF Start, End
    <3>2. CASE Connect(t)
      BY <3>2 DEF Connect
    <3>3. CASE Query(t) \/ Commit(t)
      BY <3>3, QueryEffect, CommitEffect DEF Moves
    <3>4. CASE Disconnect(t)
      BY <3>4 DEF Disconnect
    <3>5. CASE BeginSweep(t) \/ BreakSweep(t) \/ SweepOne(t)
      BY <3>5 DEF BeginSweep, BreakSweep, SweepOne
    <3>6. CASE EndSweep(t)
      BY <3>6 DEF EndSweep, SweepDone
    <3>7. QED
      BY <1>4, <3>1, <3>2, <3>3, <3>4, <3>5, <3>6 DEF ThreadStep
  <2>3. ThreadsGoOn
    BY <2>1, <2>2 DEF Alive, ThreadsGoOn
  <2>4. ASSUME NEW i \in Ident, \A j \in Ident \ {i} : conn'[j] = conn[j],
               pending' = [c \in Conn |-> IF c = conn[i] THEN {} ELSE pending[c]]
        PROVE  PendingInv'
    <3>1. ASSUME NEW c \in Conn, NEW w \in pending'[c], Alive(w[1])
          PROVE  w \in pending[c] /\ conn'[ident[w[1]]] = conn[ident[w[1]]]
      <4>1. w \in pending[c] /\ c # conn[i] /\ w[1] \in Thread
        BY <1>0, <2>4, <3>1 DEF StoreType, Write
      <4>2. conn[ident[w[1]]] = c
        BY <3>1, <4>1 DEF PendingInv, Alive
      <4>3. QED
        BY <1>0, <2>4, <4>1, <4>2
    <3>2. \A c \in Conn : pending'[c] \subseteq pending[c]
      BY <2>4
    <3>3. QED
      BY <1>1, <2>1, <2>3, <3>1, <3>2
  <2>5. CASE Query(t)
    <3> DEFINE c == conn[ident[t]]
    <3>1. /\ conn' = conn /\ Now(t)[1] = t
          /\ \/ pending' = pending
             \/ /\ c \in Conn /\ pending' = [pending EXCEPT ![c] = @ \cup {Now(t)}]
                /\ pc' = [pc EXCEPT ![t] = "commit"]
      BY <2>5, QueryEffect DEF dbvars, Now, Moves
    <3>2. CASE pending' = pending
      BY <1>1, <2>1, <2>3, <3>1, <3>2
    <3>3. CASE c \in Conn /\ pending' = [pending EXCEPT ![c] = @ \cup {Now(t)}]
               /\ pc' = [pc EXCEPT ![t] = "commit"]
      <4>1. Alive(t)'
        BY <3>3 DEF TypeInv, Alive
      <4>2. \A d \in Conn : \A w \in pending'[d] : w \in pending[d] \/ (d = c /\ w = Now(t))
        BY <1>0, <3>3 DEF StoreType
      <4>3. QED
        BY <1>1, <2>1, <2>3, <3>1, <4>1, <4>2
    <3>4. QED
      BY <3>1, <3>2, <3>3
  <2>6. CASE Commit(t)
    <3>1. conn' = conn /\ \A c \in Conn : pending'[c] \subseteq pending[c]
      BY <1>0, <2>6, CommitEffect DEF dbvars, StoreType
    <3>2. QED
      BY <1>1, <2>1, <2>3, <3>1
  <2>7. CASE UNCHANGED <<conn, pending>>
    BY <1>1, <2>1, <2>3, <2>7
  <2>8. CASE Reopens(ident[t]) \/ Closes(ident[t], TRUE) \/ Closes(ident[t], FALSE)
    BY <1>0, <2>4, <2>8, ReopenStore, CloseStore DEF Reopens, Closes
  <2>9. ASSUME NEW i \in todo \ Active, Closes(i, FALSE) PROVE PendingInv'
    <3>1. i \in Ident
      BY DEF TypeInv
    <3>2. QED
      BY <1>0, <2>4, <2>9, <3>1, CloseStore DEF Closes
  <2>10. QED
    BY <1>4, <2>5, <2>6, <2>7, <2>8, <2>9, ThreadEffect
<1>5. QED
  BY <1>2, <1>3, <1>4 DEF Next

\* A step of one thread leaves alone what the others count and what is dropped.
LEMMA Elsewhere ==
  ASSUME ThreadDBAssumption, TypeInv, NEW t \in Thread, ThreadStep(t)
  PROVE  /\ dropped' = dropped /\ \A u \in Thread \ {t} : writes'[u] = writes[u]
         /\ pc'[t] = "commit" => Query(t)
         /\ Commit(t) \/ committed' = committed
         /\ \/ Commit(t)
            \/ \A w \in Write : told'[w] = "returned" => told[w] = "returned"
<1> USE DEF Go, dbvars, sqlvars, callvars, TypeInv
<1>1. CASE Start(t) \/ End(t)
  BY <1>1 DEF Start, End
<1>2. CASE Connect(t)
  <2>1. told' = told \/ told' = [told EXCEPT ![<<t, writes'[t]>>] = "raised"]
    BY <1>2 DEF Connect
  <2>2. \A w \in Write : told'[w] = "returned" => told[w] = "returned"
    BY <2>1
  <2>3. pc'[t] # "commit"
    BY <1>2 DEF Connect
  <2>4. QED
    BY <1>2, <2>2, <2>3 DEF Connect
<1>3. CASE Query(t)
  BY <1>3, QueryEffect
<1>4. CASE Commit(t)
  BY <1>4, CommitEffect DEF Moves
<1>5. CASE Disconnect(t)
  BY <1>5 DEF Disconnect
<1>6. CASE BeginSweep(t) \/ BreakSweep(t)
  BY <1>6 DEF BeginSweep, BreakSweep
<1>7. CASE SweepOne(t)
  BY <1>7 DEF SweepOne
<1>8. CASE EndSweep(t)
  BY <1>8 DEF EndSweep
<1>9. QED
  BY <1>1, <1>2, <1>3, <1>4, <1>5, <1>6, <1>7, <1>8 DEF ThreadStep

\* The connection of a live thread, as a step of another thread leaves it.
LEMMA OthersConnection ==
  ASSUME ThreadDBAssumption, TypeInv, ThreadInv, StoreInv,
         NEW t \in Thread, ThreadStep(t), NEW u \in Thread \ {t}, Alive(u)
  PROVE  /\ conn'[ident[u]] = conn[ident[u]]
         /\ conn[ident[u]] \in open' <=> conn[ident[u]] \in open
         /\ conn[ident[u]] \in open => pending'[conn[ident[u]]] = pending[conn[ident[u]]]
<1> DEFINE c == conn[ident[u]]
<1>0. StoreType /\ ident[t] \in Ident /\ ident[u] \in Ident
  BY TypeParts
<1>1. c \in 0 .. opened /\ (c \in open => c \in Conn /\ c # NoConn) /\ NoConn \notin open
  BY <1>0 DEF StoreType, Conn, NoConn, ThreadDBAssumption
<1>2. ASSUME NEW i \in Ident \ {ident[u]}, Reopens(i) \/ Closes(i, TRUE) \/ Closes(i, FALSE)
      PROVE  /\ conn'[ident[u]] = c
             /\ c \in open' <=> c \in open
             /\ c \in open => pending'[c] = pending[c]
  <2>1. conn'[ident[u]] = c
    BY <1>0, <1>2, ReopenStore, CloseStore
  <2>2. c \in open => c # conn[i]
    BY <1>0, <1>1 DEF StoreInv
  <2>3. c \in open => pending'[c] = pending[c]
    BY <1>1, <1>2, <2>2 DEF Reopens, Closes
  <2>4. c # opened + 1
    BY <1>0, <1>1 DEF StoreType
  <2>5. c \in open' <=> c \in open
    BY <1>2, <2>2, <2>4 DEF Reopens, Closes
  <2>6. QED
    BY <2>1, <2>3, <2>5
<1>3. Alive(t) => ident[t] # ident[u]
  BY DEF ThreadInv
<1>4. CASE UNCHANGED <<opened, open, conn>> /\ (Query(t) \/ Commit(t))
  <2>1. Alive(t) /\ (c \in open => c # conn[ident[t]])
    BY <1>1, <1>4, OwnConnection, QueryEffect, CommitEffect DEF Alive
  <2>2. c \in open => pending'[c] = pending[c]
    BY <1>0, <1>1, <1>4, <2>1, QueryEffect, CommitEffect DEF StoreType
  <2>3. QED
    BY <1>4, <2>2
<1>5. CASE UNCHANGED <<opened, open, conn, pending>>
  BY <1>5
<1>6. CASE pc[t] = "idle" /\ (Reopens(ident[t]) \/ Closes(ident[t], TRUE) \/ Closes(ident[t], FALSE))
  BY <1>0, <1>2, <1>3, <1>6 DEF Alive
<1>7. CASE \E i \in todo \ Active : Closes(i, FALSE)
  <2>1. PICK i \in todo \ Active : Closes(i, FALSE)
    BY <1>7
  <2>2. i \in Ident \ {ident[u]}
    BY DEF TypeInv, Active
  <2>3. QED
    BY <1>2, <2>1, <2>2
<1>8. QED
  BY <1>4, <1>5, <1>6, <1>7, ThreadEffect

\* A call that commits still has its statement on its connection, if that is there.
LEMMA CommitStep ==
  ASSUME ThreadDBAssumption, TypeInv, ThreadInv, StoreInv, CommitInv, [Next]_vars
  PROVE  CommitInv'
<1>0. StoreType /\ \A t \in Thread : ident[t] \in Ident
  BY TypeParts
<1>1. CASE UNCHANGED vars
  BY <1>1 DEF vars, dbvars, sqlvars, callvars, CommitInv, Connected, Now
<1>2. ASSUME NEW c \in Conn, Drop(c) PROVE CommitInv'
  <2>1. /\ UNCHANGED <<pc, ident, conn, open, committed, writes, told>>
        /\ dropped' = dropped \cup {c} /\ pending' = [pending EXCEPT ![c] = {}]
    BY <1>2 DEF Drop, dbvars, callvars
  <2>2. ASSUME NEW t \in Thread, pc'[t] = "commit", Connected(conn[ident[t]])'
        PROVE  Now(t)' \in pending'[conn'[ident'[t]]]
    <3>1. Connected(conn[ident[t]]) /\ conn[ident[t]] # c /\ conn[ident[t]] \in Conn
      BY <1>0, <2>1, <2>2 DEF Connected, StoreType, Conn, ThreadDBAssumption
    <3>2. pending'[conn[ident[t]]] = pending[conn[ident[t]]]
      BY <1>0, <2>1, <3>1 DEF StoreType
    <3>3. QED
      BY <2>1, <2>2, <3>1, <3>2 DEF CommitInv, Now
  <2>3. QED
    BY <2>1, <2>2 DEF CommitInv
<1>3. ASSUME NEW t \in Thread, ThreadStep(t) PROVE CommitInv'
  <2>0. ident' = ident /\ \A u \in Thread \ {t} : pc'[u] = pc[u]
    BY <1>3, ThreadEffect
  <2>1. ASSUME NEW u \in Thread \ {t}, pc'[u] = "commit", Connected(conn[ident[u]])'
        PROVE  Now(u)' \in pending'[conn'[ident'[u]]]
    <3>1. Alive(u) /\ pc[u] = "commit" /\ Now(u)' = Now(u)
      BY <1>3, <2>0, <2>1, Elsewhere DEF Alive, Now
    <3>2. /\ conn'[ident[u]] = conn[ident[u]]
          /\ conn[ident[u]] \in open' <=> conn[ident[u]] \in open
          /\ conn[ident[u]] \in open => pending'[conn[ident[u]]] = pending[conn[ident[u]]]
      BY <1>3, <3>1, OthersConnection
    <3>3. Connected(conn[ident[u]])
      BY <1>3, <2>0, <2>1, <3>2, Elsewhere DEF Connected
    <3>4. QED
      BY <2>0, <3>1, <3>2, <3>3 DEF CommitInv, Connected
  <2>2. ASSUME pc'[t] = "commit" PROVE Now(t)' \in pending'[conn'[ident'[t]]]
    <3>1. Query(t) /\ pc'[t] # "idle"
      BY <1>3, <2>2, Elsewhere
    <3>2. Moves(t, "idle") => pc'[t] = "idle"
      BY DEF Moves, TypeInv
    <3>3. /\ conn' = conn /\ writes' = writes /\ conn[ident[t]] \in Conn
          /\ pending' = [pending EXCEPT ![conn[ident[t]]] = @ \cup {Now(t)}]
      BY <3>1, <3>2, QueryEffect DEF dbvars
    <3>4. QED
      BY <1>0, <2>0, <3>3 DEF StoreType, Now
  <2>3. ASSUME NEW w \in Write, told'[w] = "returned" PROVE w \in committed'
    <3>1. CASE Commit(t)
      <4>1. CASE told' = [told EXCEPT ![Now(t)] = "raised"] /\ committed' = committed
        BY <2>3, <4>1 DEF TypeInv, CommitInv
      <4>2. CASE /\ Connected(conn[ident[t]]) /\ committed' = committed \cup pending[conn[ident[t]]]
                 /\ \E what \in {"returned", "raised"} : told' = [told EXCEPT ![Now(t)] = what]
        <5>1. Now(t) \in committed'
          BY <3>1, <4>2, CommitEffect DEF CommitInv
        <5>2. QED
          BY <2>3, <4>2, <5>1 DEF TypeInv, CommitInv
      <4>3. QED
        BY <3>1, <4>1, <4>2, CommitEffect
    <3>2. CASE ~Commit(t)
      BY <1>3, <2>3, <3>2, Elsewhere DEF CommitInv
    <3>3. QED
      BY <3>1, <3>2
  <2>4. QED
    BY <2>1, <2>2, <2>3 DEF CommitInv
<1>4. QED
  BY <1>1, <1>2, <1>3 DEF Next

-----------------------------------------------------------------------------
(* Sweeps.                                                                 *)

\* While a thread sweeps, no thread starts or ends.
LEMMA SweepLocal ==
  ASSUME ThreadDBAssumption, TypeInv, SweepInv, NEW t \in Thread, ThreadStep(t)
  PROVE  /\ \A u \in Thread : pc'[u] = "sweep" <=> limbo' = u
         /\ \/ limbo' = NoThread
            \/ todo' = size'
            \/ /\ limbo # NoThread /\ Active' = Active /\ size' = size
               /\ todo' = todo \/ SweepOne(t)
<1> USE DEF Go, dbvars, sqlvars, TypeInv, SweepInv, ThreadDBAssumption
<1> DEFINE Same == ident' = ident /\ \A u \in Thread : Alive(u)' = Alive(u)
<1>0. Same => Active' = Active
  BY DEF Active
<1>1. CASE Start(t) \/ End(t)
  BY <1>1 DEF Start, End
<1>2. CASE Connect(t)
  <2>1. /\ limbo' = limbo /\ todo' = todo /\ size' = size /\ Same
        /\ \A u \in Thread : pc'[u] = "sweep" <=> pc[u] = "sweep"
    BY <1>2 DEF Connect, Alive
  <2>2. QED
    BY <1>0, <2>1
<1>3. CASE Query(t) \/ Commit(t)
  <2>1. /\ limbo' = limbo /\ todo' = todo /\ size' = size /\ Same
        /\ \A u \in Thread : pc'[u] = "sweep" <=> pc[u] = "sweep"
    BY <1>3, QueryEffect, CommitEffect DEF Moves, Alive
  <2>2. QED
    BY <1>0, <2>1
<1>4. CASE Disconnect(t)
  <2>1. /\ limbo' = limbo /\ todo' = todo /\ size' = size /\ Same
        /\ \A u \in Thread : pc'[u] = "sweep" <=> pc[u] = "sweep"
    BY <1>4 DEF Disconnect, Alive
  <2>2. QED
    BY <1>0, <2>1
<1>5. CASE BeginSweep(t)
  BY <1>5 DEF BeginSweep
<1>6. CASE BreakSweep(t) \/ EndSweep(t)
  BY <1>6 DEF BreakSweep, EndSweep, SweepDone
<1>7. CASE SweepOne(t)
  <2>1. Same /\ limbo' = limbo /\ pc' = pc /\ size' = size
    BY <1>7 DEF SweepOne, Alive
  <2>2. QED
    BY <1>0, <1>7, <2>1 DEF SweepOne
<1>8. QED
  BY <1>1, <1>2, <1>3, <1>4, <1>5, <1>6, <1>7 DEF ThreadStep

\* What is closed stays closed, except for the thread that connects.
LEMMA StaysClosed ==
  ASSUME ThreadDBAssumption, TypeInv, ThreadInv, StoreInv, NEW t \in Thread, ThreadStep(t),
         NEW i \in Ident \ Active, conn[i] \notin open
  PROVE  conn'[i] \notin open'
<1>0. StoreType /\ ident[t] \in Ident /\ NoConn \notin open /\ conn[i] # opened + 1
  BY TypeParts DEF StoreType, NoConn, TypeInv, ThreadDBAssumption
<1>1. CASE UNCHANGED <<opened, open, conn>>
  BY <1>1
<1>2. CASE pc[t] = "idle" /\ (Reopens(ident[t]) \/ Closes(ident[t], TRUE) \/ Closes(ident[t], FALSE))
  <2>1. i # ident[t]
    BY <1>2 DEF Active, Alive
  <2>2. conn'[i] = conn[i]
    BY <1>0, <1>2, <2>1, ReopenStore, CloseStore
  <2>3. QED
    BY <1>0, <1>2, <2>2 DEF Reopens, Closes
<1>3. ASSUME NEW j \in todo \ Active, Closes(j, FALSE) PROVE conn'[i] \notin open'
  <2>1. j \in Ident
    BY DEF TypeInv
  <2>2. conn'[i] \in {conn[i], NoConn} /\ open' \subseteq open
    BY <1>0, <1>3, <2>1, CloseStore DEF Closes
  <2>3. QED
    BY <1>0, <2>2
<1>4. QED
  BY <1>1, <1>2, <1>3, ThreadEffect

\* What a sweep has visited stays closed, or of a live thread, until it ends.
LEMMA SweepStep ==
  ASSUME ThreadDBAssumption, TypeInv, ThreadInv, StoreInv, SweepInv, [Next]_vars
  PROVE  SweepInv'
<1>1. CASE UNCHANGED vars
  BY <1>1 DEF vars, dbvars, sqlvars, SweepInv, Active, Alive
<1>2. ASSUME NEW c \in Conn, Drop(c) PROVE SweepInv'
  <2>1. UNCHANGED <<pc, ident, limbo, todo, size, open, conn>>
    BY <1>2, DropEffect DEF dbvars
  <2>2. QED
    BY <2>1 DEF SweepInv, Active, Alive
<1>3. ASSUME NEW t \in Thread, ThreadStep(t) PROVE SweepInv'
  <2>1. ASSUME limbo' # NoThread, NEW i \in Ident, i \in size' \ todo'
        PROVE  i \in Active' \/ conn'[i] \notin open'
    <3>1. limbo # NoThread /\ Active' = Active /\ size' = size /\ (todo' = todo \/ SweepOne(t))
      BY <1>3, <2>1, SweepLocal
    <3>2. CASE i \in Active
      BY <3>1, <3>2
    <3>3. CASE i \notin Active /\ conn[i] \notin open
      BY <1>3, <3>3, StaysClosed
    <3>4. CASE i \notin Active /\ i \in todo
      <4>1. SweepOne(t) /\ i \notin todo'
        BY <2>1, <3>1, <3>4
      <4>2. Close(i)
        BY <3>4, <4>1 DEF SweepOne, Kept
      <4>3. conn'[i] = NoConn /\ open' \subseteq open
        BY <4>2 DEF Close, TypeInv
      <4>4. QED
        BY <4>3 DEF TypeInv, NoConn, ThreadDBAssumption
    <3>5. QED
      BY <2>1, <3>1, <3>2, <3>3, <3>4 DEF SweepInv
  <2>2. QED
    BY <1>3, <2>1, SweepLocal DEF SweepInv
<1>4. QED
  BY <1>1, <1>2, <1>3 DEF Next

-----------------------------------------------------------------------------
(* The theorems.                                                           *)

\* The invariant holds when the process starts.
LEMMA InvInit == ASSUME ThreadDBAssumption, Init PROVE IInv
<1> USE DEF Init, ThreadDBAssumption, NoConn
<1>1. TypeInv
  BY DEF TypeInv, Step
<1>2. ThreadInv /\ StoreInv
  BY DEF ThreadInv, StoreInv, Alive
<1>3. PendingInv /\ CommitInv
  BY DEF PendingInv, CommitInv
<1>4. SweepInv
  BY DEF SweepInv
<1>5. QED
  BY <1>1, <1>2, <1>3, <1>4 DEF IInv

\* It holds in every state.
LEMMA Invariance == Spec => []IInv
<1>1. Init => IInv
  BY InvInit, ThreadDBAssumption
<1>2. IInv /\ [Next]_vars => IInv'
  BY ThreadDBAssumption, TypeStep, ThreadInvStep, StoreStep, PendingStep, CommitStep, SweepStep DEF IInv
<1>3. QED
  BY <1>1, <1>2, PTL DEF Spec

\* No connection that is open is lost from sight: it is recorded for an identity,
\* under the name that a later sweep or disconnect looks for (abstract.py:154-161).
THEOREM NothingLost == Spec => []NoLeak
<1>1. IInv => NoLeak
  BY DEF IInv, NoLeak, StoreInv, ThreadInv, TypeInv, NoConn
<1>2. QED
  BY <1>1, Invariance, PTL

\* The connection of a live thread is closed by that thread alone, never by the
\* sweep of another (abstract.py:155-161).
THEOREM SweepsSpareTheLiving == Spec => LiveKept
<1>1. IInv /\ [Next]_vars =>
        [\A t \in Thread :
           LET c == conn[ident[t]]
           IN  Alive(t) /\ c \in open \ open' => pc[t] = "idle" /\ todo' = todo]_vars
  <2> SUFFICES ASSUME IInv, Next, NEW u \in Thread, Alive(u), conn[ident[u]] \in open \ open'
               PROVE  pc[u] = "idle" /\ todo' = todo
    OBVIOUS
  <2>1. ThreadDBAssumption /\ TypeInv /\ ThreadInv /\ StoreInv
    BY ThreadDBAssumption DEF IInv
  <2>2. PICK t \in Thread : ThreadStep(t)
    BY DropEffect DEF Next
  <2>3. t = u
    BY <2>1, <2>2, OthersConnection
  <2>4. ident[u] \in Active
    BY DEF Active
  <2>5. ASSUME NEW i \in todo \ Active, Closes(i, FALSE) PROVE FALSE
    BY <2>1, <2>4, <2>5 DEF Closes, StoreInv, TypeInv, NoConn
  <2>6. QED
    BY <2>1, <2>2, <2>3, <2>5, ThreadEffect
<1>2. QED
  BY <1>1, Invariance, PTL DEF Spec, LiveKept

\* A statement is committed by its own thread, or after the thread is dead, and a
\* call that returns has committed its statement (objects.py:344).
THEOREM TransactionsAreOwn == Spec => OwnTransaction
<1>1. IInv /\ [Next]_vars =>
        [/\ \A w \in committed' \ committed : pc[w[1]] \in {"commit", "dead"}
         /\ \A w \in Write : told'[w] = "returned" => w \in committed']_vars
  <2> SUFFICES ASSUME IInv, Next
               PROVE  /\ \A w \in committed' \ committed : pc[w[1]] \in {"commit", "dead"}
                      /\ \A w \in Write : told'[w] = "returned" => w \in committed'
    OBVIOUS
  <2>1. /\ ThreadDBAssumption /\ TypeInv /\ ThreadInv /\ StoreInv /\ PendingInv /\ CommitInv
        /\ StoreType /\ [Next]_vars
    BY ThreadDBAssumption, TypeParts DEF IInv
  <2>2. ASSUME NEW w \in committed' \ committed PROVE pc[w[1]] \in {"commit", "dead"}
    <3>1. PICK t \in Thread : Commit(t)
      BY <2>1, <2>2, Elsewhere, DropEffect DEF Next
    <3>2. /\ pc[t] = "commit" /\ Connected(conn[ident[t]]) /\ conn[ident[t]] \in Conn
          /\ w \in pending[conn[ident[t]]]
      BY <2>1, <2>2, <3>1, CommitEffect
    <3>3. w[1] \in Thread /\ conn[ident[t]] # NoConn /\ Alive(t)
      BY <2>1, <3>2 DEF StoreType, Write, Conn, NoConn, Alive
    <3>4. CASE Alive(w[1]) /\ conn[ident[w[1]]] = conn[ident[t]]
      <4>1. w[1] = t
        BY <2>1, <3>3, <3>4, OwnConnection
      <4>2. QED
        BY <3>2, <4>1
    <3>5. QED
      BY <2>1, <3>2, <3>4 DEF PendingInv
  <2>3. CommitInv'
    BY <2>1, CommitStep
  <2>4. QED
    BY <2>2, <2>3 DEF CommitInv
<1>2. QED
  BY <1>1, Invariance, PTL DEF Spec, OwnTransaction

\* A sweep that no new entry interrupted has closed the connection of every dead
\* thread (abstract.py:154-161).
THEOREM SweepsComplete == Spec => SweepComplete
<1>1. IInv /\ [Next]_vars =>
        [\A t \in Thread :
           pc[t] = "sweep" /\ pc'[t] = "idle" /\ keys = size
              => \A i \in keys \ Active : conn[i] \notin open]_vars
  <2> SUFFICES ASSUME IInv, Next, NEW t \in Thread, pc[t] = "sweep", pc'[t] = "idle", keys = size,
                      NEW i \in keys \ Active
               PROVE  conn[i] \notin open
    OBVIOUS
  <2>1. TypeInv /\ ThreadInv /\ SweepInv
    BY DEF IInv
  <2>2. ThreadStep(t)
    BY <2>1, ThreadEffect, DropEffect DEF Next
  <2>3. EndSweep(t)
    <3>1. ~ (Start(t) \/ End(t) \/ Connect(t) \/ Query(t) \/ Commit(t) \/ Disconnect(t))
      BY DEF Start, End, Connect, Query, Commit, Disconnect
    <3>2. ~ (BeginSweep(t) \/ BreakSweep(t) \/ SweepOne(t))
      BY DEF BeginSweep, BreakSweep, SweepOne
    <3>3. QED
      BY <2>2, <3>1, <3>2 DEF ThreadStep
  <2>4. todo = {} /\ limbo = t /\ t # NoThread /\ i \in Ident
    BY <2>1, <2>3, ThreadDBAssumption DEF EndSweep, SweepDone, SweepInv, ThreadDBAssumption, TypeInv
  <2>5. QED
    BY <2>1, <2>4 DEF SweepInv
<1>2. QED
  BY <1>1, Invariance, PTL DEF Spec, SweepComplete

-----------------------------------------------------------------------------
(* Counting, and functions that are defined by it                          *)

\* A set of numbers that is not empty has a least one.
LEMMA LeastNumber ==
  ASSUME NEW T \in SUBSET Nat, T # {}
  PROVE  \E x \in T : \A y \in T : x <= y
<1>1. PICK x \in T : \A y \in T : ~ (<<y, x>> \in OpToRel(<, Nat))
  BY NatLessThanWellFounded, WFMin
<1>2. ASSUME NEW y \in T PROVE x <= y
  <2>1. ~(y < x)
    BY <1>1 DEF OpToRel
  <2>2. QED
    BY <2>1
<1>3. QED
  BY <1>2

\* What holds of 0, and of a number after each it holds of, holds of all up to n.
LEMMA Counting ==
  ASSUME NEW n \in Nat, NEW Good \in SUBSET Nat, 0 \in Good,
         \A i \in 0 .. n - 1 : i \in Good => i + 1 \in Good
  PROVE  \A i \in 0 .. n : i \in Good
<1> DEFINE Bad == {i \in 0 .. n : i \notin Good}
<1>1. SUFFICES ASSUME Bad # {} PROVE FALSE
  OBVIOUS
<1>2. PICK x \in Bad : \A y \in Bad : x <= y
  <2>1. Bad \in SUBSET Nat
    OBVIOUS
  <2> HIDE DEF Bad
  <2>2. QED
    BY <1>1, <2>1, LeastNumber
<1>3. x \in 1 .. n /\ x - 1 \in 0 .. n - 1
  BY <1>2
<1>4. x - 1 \in Good
  BY <1>2, <1>3
<1>5. QED
  BY <1>2, <1>3, <1>4

\* f begins with b, and goes on from each value to the next as G says.
Iterates(f, n, S, b, G) ==
    /\ f \in [0 .. n -> S] /\ f[0] = b
    /\ \A i \in 1 .. n : f[i] = G[i][f[i - 1]]

\* There is such a function.
LEMMA Recursion ==
  ASSUME NEW n \in Nat, NEW S, NEW b \in S, NEW G \in [1 .. n -> [S -> S]]
  PROVE  \E f : Iterates(f, n, S, b, G)
<1> DEFINE Good == {m \in Nat : \E f : Iterates(f, m, S, b, G)}
<1>1. 0 \in Good
  <2> DEFINE f == [i \in 0 .. 0 |-> b]
  <2>1. Iterates(f, 0, S, b, G)
    BY DEF Iterates
  <2>2. QED
    BY <2>1
<1>2. ASSUME NEW m \in 0 .. n - 1, m \in Good PROVE m + 1 \in Good
  <2>1. PICK f : Iterates(f, m, S, b, G)
    BY <1>2
  <2>2. f \in [0 .. m -> S] /\ f[0] = b /\ \A i \in 1 .. m : f[i] = G[i][f[i - 1]]
    BY <2>1 DEF Iterates
  <2> DEFINE x == G[m + 1][f[m]]
             g == [i \in 0 .. m + 1 |-> IF i = m + 1 THEN x ELSE f[i]]
  <2>3. x \in S
    <3>1. f[m] \in S /\ m + 1 \in 1 .. n
      BY <2>2
    <3>2. QED
      BY <3>1
  <2> HIDE DEF x
  <2>4. g \in [0 .. m + 1 -> S] /\ g[m + 1] = x /\ \A i \in 0 .. m : g[i] = f[i]
    BY <2>2, <2>3
  <2> HIDE DEF g
  <2>5. g[0] = b
    BY <2>2, <2>4
  <2>6. ASSUME NEW i \in 1 .. m + 1 PROVE g[i] = G[i][g[i - 1]]
    <3>1. CASE i = m + 1
      <4>1. g[i - 1] = f[m]
        BY <2>4, <3>1
      <4>2. QED
        BY <2>4, <3>1, <4>1 DEF x
    <3>2. CASE i \in 1 .. m
      <4>1. g[i] = f[i] /\ g[i - 1] = f[i - 1]
        BY <2>4, <3>2
      <4>2. QED
        BY <2>2, <3>2, <4>1
    <3>3. QED
      BY <3>1, <3>2
  <2>7. Iterates(g, m + 1, S, b, G)
    BY <2>4, <2>5, <2>6 DEF Iterates
  <2>8. QED
    BY <2>7
<1>3. Good \in SUBSET Nat
  OBVIOUS
<1> HIDE DEF Good
<1>4. n \in Good
  <2>1. \A m \in 0 .. n : m \in Good
    BY <1>1, <1>2, <1>3, Counting
  <2>2. QED
    BY <2>1
<1>5. QED
  BY <1>4 DEF Good

-----------------------------------------------------------------------------
(* Sequences put together                                                  *)

\* s is a list of sequences, and f[i] is the i first of them, one after the other.
Joins(f, s, T) ==
    /\ s \in Seq(Seq(T))
    /\ f \in [0 .. Len(s) -> Seq(T)] /\ f[0] = <<>>
    /\ \A i \in 1 .. Len(s) : f[i] = f[i - 1] \o s[i]

\* FlattenSeq puts sequences one after the other.
LEMMA FlattenJoins ==
  ASSUME NEW T, NEW s \in Seq(Seq(T))
  PROVE  \E f : Joins(f, s, T) /\ FlattenSeq(s) = f[Len(s)]
<1> DEFINE n == Len(s)
           G == [i \in 1 .. n |-> [x \in Seq(T) |-> x \o s[i]]]
<1>1. n \in Nat /\ \A i \in 1 .. n : s[i] \in Seq(T)
  OBVIOUS
<1>2. <<>> \in Seq(T)
  OBVIOUS
<1>3. G \in [1 .. n -> [Seq(T) -> Seq(T)]]
  BY <1>1
<1>4. \A i \in 1 .. n, x \in Seq(T) : G[i][x] = x \o s[i]
  OBVIOUS
<1> HIDE DEF n, G
<1>5. PICK f \in [0 .. n -> Seq(T)] : f[0] = <<>> /\ \A i \in 1 .. n : f[i] = G[i][f[i - 1]]
  <2>1. \E f : Iterates(f, n, Seq(T), <<>>, G)
    BY <1>1, <1>2, <1>3, Recursion
  <2>2. QED
    BY <2>1 DEF Iterates
<1>6. \A i \in 1 .. n : f[i] = f[i - 1] \o s[i]
  <2>1. \A i \in 1 .. n : i - 1 \in 0 .. n
    BY <1>1
  <2>2. QED
    BY <1>4, <1>5, <2>1
<1>7. Joins(f, s, T)
  BY <1>5, <1>6 DEF Joins, n
<1>8. FlattenSeq(s) = f[n]
  <2>1. CASE n = 0
    <3>1. s = <<>>
      BY <2>1, EmptySeq DEF n
    <3>2. QED
      BY <2>1, <3>1, <1>5 DEF FlattenSeq
  <2>2. CASE n # 0
    <3> DEFINE g == [i \in 1 .. n |-> f[i]]
               D(h) == h = [i \in 1 .. n |-> IF i = 1 THEN s[i] ELSE h[i - 1] \o s[i]]
    <3>1. D(g)
      <4>1. ASSUME NEW i \in 1 .. n PROVE g[i] = IF i = 1 THEN s[i] ELSE g[i - 1] \o s[i]
        <5>1. CASE i = 1
          <6>1. f[1] = <<>> \o s[1] /\ s[1] \in Seq(T)
            <7>1. 1 \in 1 .. n /\ f[1 - 1] = f[0]
              BY <1>1, <2>2
            <7>2. QED
              BY <1>1, <1>5, <1>6, <7>1
          <6>2. QED
            BY <5>1, <6>1
        <5>2. CASE i # 1
          <6>1. i - 1 \in 1 .. n
            BY <1>1, <5>2
          <6>2. QED
            BY <1>6, <5>2, <6>1
        <5>3. QED
          BY <5>1, <5>2
      <4>2. QED
        BY <4>1
    <3>2. PICK h : h = (CHOOSE k : D(k))
      OBVIOUS
    <3>3. D(h)
      <4> HIDE DEF D
      <4>1. QED
        BY <3>1, <3>2
    <3>4. \A i \in 0 .. n - 1 : h[i + 1] = f[i + 1]
      <4> DEFINE Good == {i \in Nat : i + 1 \in 1 .. n => h[i + 1] = f[i + 1]}
      <4>1. 0 \in Good
        <5>0. 1 \in 1 .. n /\ f[1 - 1] = f[0]
          BY <1>1, <2>2
        <5>1. h[1] = s[1] /\ f[1] = <<>> \o s[1] /\ s[1] \in Seq(T)
          BY <1>1, <1>5, <1>6, <3>3, <5>0
        <5>2. QED
          BY <5>1
      <4>2. ASSUME NEW i \in 0 .. n - 1, i \in Good PROVE i + 1 \in Good
        <5>1. SUFFICES ASSUME i + 2 \in 1 .. n PROVE h[i + 2] = f[i + 2]
          BY <1>1
        <5>2. h[i + 1] = f[i + 1]
          BY <1>1, <4>2
        <5>0. i + 2 # 1 /\ (i + 2) - 1 = i + 1
          OBVIOUS
        <5>3. h[i + 2] = h[i + 1] \o s[i + 2]
          BY <3>3, <5>0, <5>1
        <5>4. f[i + 2] = f[i + 1] \o s[i + 2]
          BY <1>6, <5>0, <5>1
        <5>5. QED
          BY <5>2, <5>3, <5>4
      <4>3. Good \in SUBSET Nat
        OBVIOUS
      <4> HIDE DEF Good
      <4>4. \A i \in 0 .. n : i \in Good
        BY <1>1, <4>1, <4>2, <4>3, Counting
      <4>5. QED
        BY <1>1, <4>4 DEF Good
    <3>5. h[n] = f[n]
      <4>1. n - 1 \in 0 .. n - 1 /\ (n - 1) + 1 = n
        BY <1>1, <2>2
      <4>2. QED
        BY <3>4, <4>1
    <3>6. FlattenSeq(s) = h[n]
      BY <2>2, <3>2 DEF FlattenSeq, n
    <3>7. QED
      BY <3>5, <3>6
  <2>3. QED
    BY <2>1, <2>2
<1>9. QED
  BY <1>7, <1>8 DEF n

\* x \o y is x followed by y.
Joined(x, y) ==
    /\ Len(x \o y) = Len(x) + Len(y)
    /\ \A d \in 1 .. Len(x) : (x \o y)[d] = x[d]
    /\ \A d \in 1 .. Len(y) : (x \o y)[Len(x) + d] = y[d]

\* Two sequences are put together so.
LEMMA TwoJoined ==
  ASSUME NEW T, NEW x \in Seq(T), NEW y \in Seq(T)
  PROVE  x \o y \in Seq(T) /\ Joined(x, y)
<1>1. Len(x) \in Nat /\ Len(y) \in Nat
  BY LenProperties
<1>2. /\ x \o y \in Seq(T) /\ Len(x \o y) = Len(x) + Len(y)
      /\ \A i \in 1 .. Len(x) + Len(y) :
            (x \o y)[i] = IF i <= Len(x) THEN x[i] ELSE y[i - Len(x)]
  BY ConcatProperties
<1>3. ASSUME NEW d \in 1 .. Len(y) PROVE (x \o y)[Len(x) + d] = y[d]
  <2>1. /\ Len(x) + d \in 1 .. Len(x) + Len(y) /\ ~ (Len(x) + d <= Len(x))
        /\ (Len(x) + d) - Len(x) = d
    BY <1>1
  <2>2. QED
    BY <1>2, <2>1
<1>4. QED
  BY <1>1, <1>2, <1>3 DEF Joined

\* What is known of many.
LEMMA JoinsTyped ==
  ASSUME NEW T, NEW s, NEW f, Joins(f, s, T)
  PROVE  /\ Len(s) \in Nat
         /\ \A i \in 1 .. Len(s) : s[i] \in Seq(T) /\ Len(s[i]) \in Nat
         /\ \A i \in 0 .. Len(s) : f[i] \in Seq(T) /\ Len(f[i]) \in Nat
         /\ f[0] = <<>> /\ Len(f[0]) = 0
<1>1. Len(s) \in Nat /\ \A i \in 1 .. Len(s) : s[i] \in Seq(T)
  BY LenProperties, ElementOfSeq DEF Joins
<1>2. \A x \in Seq(T) : Len(x) \in Nat
  BY LenProperties
<1>3. f \in [0 .. Len(s) -> Seq(T)] /\ f[0] = <<>>
  BY DEF Joins
<1>4. Len(f[0]) = 0
  BY <1>3, EmptySeq
<1>5. QED
  BY <1>1, <1>2, <1>3, <1>4

\* What the i-th sequence adds to f.
Adds(f, s, i) ==
    /\ f[i] = f[i - 1] \o s[i]
    /\ Len(f[i]) = Len(f[i - 1]) + Len(s[i])
    /\ \A d \in 1 .. Len(f[i - 1]) : f[i][d] = f[i - 1][d]
    /\ \A d \in 1 .. Len(s[i]) : f[i][Len(f[i - 1]) + d] = s[i][d]

\* Each adds its elements at the end.
LEMMA JoinsStep ==
  ASSUME NEW T, NEW s, NEW f, Joins(f, s, T), NEW i \in 1 .. Len(s)
  PROVE  Adds(f, s, i)
<1> DEFINE n == Len(s)
<1>1. n \in Nat
  BY JoinsTyped, Zenon
<1> HIDE DEF n
<1>2. i - 1 \in 0 .. n /\ i \in 0 .. n
  BY <1>1 DEF n
<1>3. f[i - 1] \in Seq(T) /\ s[i] \in Seq(T)
  BY <1>2, JoinsTyped, Zenon DEF n
<1>4. f[i] = f[i - 1] \o s[i]
  BY Zenon DEF Joins
<1> DEFINE x == f[i - 1]
           y == s[i]
<1> HIDE DEF x, y
<1>5. x \in Seq(T) /\ y \in Seq(T)
  BY <1>3 DEF x, y
<1>6. /\ Len(x \o y) = Len(x) + Len(y)
      /\ \A d \in 1 .. Len(x) : (x \o y)[d] = x[d]
      /\ \A d \in 1 .. Len(y) : (x \o y)[Len(x) + d] = y[d]
  <2>1. Joined(x, y)
    BY <1>5, TwoJoined, Zenon
  <2>2. QED
    BY <2>1, Zenon DEF Joined
<1>7. QED
  BY <1>4, <1>6, Zenon DEF x, y, Adds

\* The k-th sequence is found in what they make together, after those before it.
Found(f, s, k) ==
    /\ Len(f[k]) <= Len(f[Len(s)])
    /\ \A d \in 1 .. Len(s[k]) : f[Len(s)][Len(f[k - 1]) + d] = s[k][d]

\* Each of them is.
LEMMA JoinsPieces ==
  ASSUME NEW T, NEW s, NEW f, NEW k \in 1 .. Len(s), Joins(f, s, T)
  PROVE  Found(f, s, k)
<1> DEFINE n == Len(s)
           before == Len(f[k - 1])
           piece == Len(s[k])
           Held(m) == /\ before + piece <= Len(f[m])
                      /\ \A d \in 1 .. piece : f[m][before + d] = s[k][d]
           Good == {i \in Nat : k + i <= n => Held(k + i)}
<1>1. n \in Nat /\ k \in 1 .. n /\ \A i \in 0 .. n : Len(f[i]) \in Nat
  BY JoinsTyped, Zenon
<1>2. /\ k - 1 \in 0 .. n /\ k \in 0 .. n /\ Len(f[k]) = before + piece
      /\ \A d \in 1 .. piece : f[k][before + d] = s[k][d]
  <2>1. Adds(f, s, k)
    BY JoinsStep, Zenon
  <2>2. Len(f[k]) = before + piece /\ \A d \in 1 .. piece : f[k][before + d] = s[k][d]
    BY <2>1, Zenon DEF Adds
  <2> HIDE DEF n
  <2>3. k - 1 \in 0 .. n /\ k \in 0 .. n
    BY <1>1
  <2>4. QED
    BY <2>2, <2>3, Zenon DEF n
<1>3. before \in Nat /\ piece \in Nat
  <2>1. Len(s[k]) \in Nat
    BY JoinsTyped, Zenon
  <2>2. QED
    BY <1>1, <1>2, <2>1, Zenon
<1>4. ASSUME NEW i \in 1 .. n
      PROVE  /\ Len(f[i - 1]) <= Len(f[i])
             /\ \A d \in 1 .. Len(f[i - 1]) : f[i][d] = f[i - 1][d]
  <2>0. Adds(f, s, i)
    BY JoinsStep, Zenon
  <2>1. /\ Len(f[i]) = Len(f[i - 1]) + Len(s[i])
        /\ \A d \in 1 .. Len(f[i - 1]) : f[i][d] = f[i - 1][d]
    BY <2>0, Zenon DEF Adds
  <2>2. Len(s[i]) \in Nat /\ Len(f[i - 1]) \in Nat
    <3>1. Len(s[i]) \in Nat
      BY JoinsTyped, Zenon
    <3> HIDE DEF n
    <3>2. i - 1 \in 0 .. n
      BY <1>1
    <3>3. QED
      BY <1>1, <3>1, <3>2, Zenon
  <2>3. Len(f[i - 1]) <= Len(f[i])
    <3> DEFINE b == Len(f[i - 1])
               a == Len(s[i])
    <3>1. b \in Nat /\ a \in Nat /\ Len(f[i]) = b + a
      BY <2>1, <2>2, Zenon
    <3> HIDE DEF a, b
    <3>2. b <= b + a
      BY <3>1
    <3>3. QED
      BY <3>1, <3>2, Zenon DEF b
  <2>4. QED
    BY <2>1, <2>3
<1>5. QED
  <2>1. n = Len(s) /\ before = Len(f[k - 1]) /\ piece = Len(s[k])
    OBVIOUS
  <2> HIDE DEF n, before, piece
  <2>2. 0 \in Good
    <3>1. k + 0 = k /\ before + piece <= Len(f[k])
      BY <1>1, <1>2, <1>3
    <3>2. QED
      BY <1>1, <1>2, <3>1
  <2>3. ASSUME NEW i \in 0 .. n - 1, i \in Good PROVE i + 1 \in Good
    <3>1. SUFFICES ASSUME k + (i + 1) <= n PROVE Held(k + (i + 1))
      OBVIOUS
    <3> DEFINE m == k + i
    <3>2. /\ m \in 0 .. n /\ m + 1 \in 1 .. n /\ m + 1 \in 0 .. n /\ k + (i + 1) = m + 1
          /\ (m + 1) - 1 = m /\ m <= n
      BY <1>1, <3>1
    <3>3. Held(m)
      BY <2>3, <3>2
    <3> HIDE DEF m
    <3>4. Len(f[m]) <= Len(f[m + 1]) /\ \A d \in 1 .. Len(f[m]) : f[m + 1][d] = f[m][d]
      BY <1>4, <3>2
    <3>5. Len(f[m]) \in Nat /\ Len(f[m + 1]) \in Nat
      BY <1>1, <3>2
    <3> DEFINE here == Len(f[m])
               there == Len(f[m + 1])
    <3>6. /\ here \in Nat /\ there \in Nat /\ here <= there /\ before + piece <= here
          /\ \A d \in 1 .. here : f[m + 1][d] = f[m][d]
      BY <3>3, <3>4, <3>5
    <3>7. there = Len(f[m + 1])
      OBVIOUS
    <3> HIDE DEF here, there
    <3>8. ASSUME NEW d \in 1 .. piece PROVE f[m + 1][before + d] = s[k][d]
      <4>1. before + d \in 1 .. here
        BY <1>3, <3>6
      <4>2. f[m][before + d] = s[k][d]
        BY <3>3
      <4>3. QED
        BY <3>6, <4>1, <4>2
    <3>9. before + piece <= there
      BY <1>3, <3>6
    <3>10. QED
      BY <3>2, <3>7, <3>8, <3>9
  <2>4. Good \in SUBSET Nat
    OBVIOUS
  <2>5. n - k \in Nat /\ n - k \in 0 .. n /\ k + (n - k) = n /\ n <= n
    BY <1>1
  <2> HIDE DEF Good
  <2>6. n - k \in Good
    <3>1. \A i \in 0 .. n : i \in Good
      BY <1>1, <2>2, <2>3, <2>4, Counting
    <3>2. QED
      BY <2>5, <3>1
  <2>7. Held(n)
    <3> HIDE DEF Held
    <3>1. k + (n - k) <= n => Held(k + (n - k))
      BY <2>6 DEF Good
    <3>2. QED
      BY <2>5, <3>1
  <2>8. QED
    BY <1>2, <2>1, <2>7 DEF Found
\* Sequences of one element each.
LEMMA FlattenSingles ==
  ASSUME NEW T, NEW s \in Seq(Seq(T)), \A i \in 1 .. Len(s) : Len(s[i]) = 1
  PROVE  FlattenSeq(s) = [i \in 1 .. Len(s) |-> s[i][1]]
<1> DEFINE n == Len(s)
<1>1. PICK f : Joins(f, s, T) /\ FlattenSeq(s) = f[n]
  BY FlattenJoins, Zenon
<1>2. /\ n \in Nat /\ Len(f[0]) = 0
      /\ \A i \in 0 .. n : f[i] \in Seq(T) /\ Len(f[i]) \in Nat
  BY <1>1, JoinsTyped, Zenon
<1>3. \A i \in 1 .. n : Adds(f, s, i)
  BY <1>1, JoinsStep, Zenon
<1>4. \A i \in 1 .. n : Found(f, s, i)
  BY <1>1, JoinsPieces, Zenon
<1>5. n = Len(s) /\ \A i \in 1 .. n : Len(s[i]) = 1
  OBVIOUS
<1> HIDE DEF n
<1>6. \A i \in 0 .. n : Len(f[i]) = i
  <2> DEFINE Good == {i \in Nat : i <= n => Len(f[i]) = i}
  <2>1. 0 \in Good
    BY <1>2
  <2>2. ASSUME NEW i \in 0 .. n - 1, i \in Good PROVE i + 1 \in Good
    <3>1. i + 1 \in 1 .. n /\ (i + 1) - 1 = i /\ Len(f[i]) = i
      BY <1>2, <2>2
    <3>2. Len(f[i + 1]) = Len(f[(i + 1) - 1]) + Len(s[i + 1])
      BY <1>3, <3>1, Zenon DEF Adds
    <3>3. Len(s[i + 1]) = 1
      BY <1>5, <3>1
    <3>4. Len(f[i + 1]) = i + 1
      BY <3>1, <3>2, <3>3
    <3>5. QED
      BY <1>2, <3>4
  <2>3. Good \in SUBSET Nat
    OBVIOUS
  <2> HIDE DEF Good
  <2>4. \A i \in 0 .. n : i \in Good
    BY <1>2, <2>1, <2>2, <2>3, Counting
  <2>5. QED
    BY <1>2, <2>4 DEF Good
<1>7. ASSUME NEW i \in 1 .. n PROVE f[n][i] = s[i][1]
  <2>1. i - 1 \in 0 .. n /\ (i - 1) + 1 = i
    BY <1>2
  <2>2. Len(f[i - 1]) = i - 1
    BY <1>6, <2>1
  <2>3. f[n][Len(f[i - 1]) + 1] = s[i][1]
    <3>1. Len(s[i]) = 1 /\ 1 \in 1 .. 1
      BY <1>5
    <3>2. QED
      BY <1>4, <1>5, <3>1, Zenon DEF Found
  <2>4. QED
    BY <2>1, <2>2, <2>3
<1>8. f[n] \in Seq(T) /\ Len(f[n]) = n
  BY <1>2, <1>6
<1>9. f[n] = [i \in 1 .. n |-> f[n][i]]
  BY <1>2, <1>8, LenProperties
<1>10. QED
  BY <1>1, <1>5, <1>7, <1>9

\* Nothing else is put together of them.
LEMMA JoinsFlatten ==
  ASSUME NEW T, NEW s, NEW f, Joins(f, s, T)
  PROVE  FlattenSeq(s) = f[Len(s)]
<1> DEFINE n == Len(s)
<1>1. PICK g : Joins(g, s, T) /\ FlattenSeq(s) = g[n]
  <2>1. s \in Seq(Seq(T))
    BY Zenon DEF Joins
  <2>2. QED
    BY <2>1, FlattenJoins, Zenon
<1>2. n \in Nat /\ f[0] = g[0]
  BY <1>1, JoinsTyped, Zenon
<1>3. \A i \in 1 .. n : f[i] = f[i - 1] \o s[i] /\ g[i] = g[i - 1] \o s[i]
  BY <1>1, Zenon DEF Joins
<1> HIDE DEF n
<1> DEFINE Good == {i \in Nat : i <= n => f[i] = g[i]}
<1>4. 0 \in Good
  BY <1>2
<1>5. ASSUME NEW i \in 0 .. n - 1, i \in Good PROVE i + 1 \in Good
  <2>1. i + 1 \in 1 .. n /\ (i + 1) - 1 = i /\ f[i] = g[i] /\ i + 1 \in Nat
    BY <1>2, <1>5
  <2>2. f[i + 1] = g[i + 1]
    BY <1>3, <2>1, Zenon
  <2>3. QED
    BY <2>1, <2>2
<1>6. Good \in SUBSET Nat
  OBVIOUS
<1> HIDE DEF Good
<1>7. \A i \in 0 .. n : i \in Good
  BY <1>2, <1>4, <1>5, <1>6, Counting
<1>8. f[n] = g[n]
  BY <1>2, <1>7 DEF Good
<1>9. QED
  BY <1>1, <1>8 DEF n

\* The sequences of two lists are put together one list after the other.
LEMMA FlattenConcat ==
  ASSUME NEW T, NEW a \in Seq(Seq(T)), NEW b \in Seq(Seq(T))
  PROVE  FlattenSeq(a \o b) = FlattenSeq(a) \o FlattenSeq(b)
<1> DEFINE n == Len(a)
           m == Len(b)
           c == a \o b
<1>1. PICK f : Joins(f, a, T) /\ FlattenSeq(a) = f[n]
  BY FlattenJoins, Zenon
<1>2. PICK g : Joins(g, c, T) /\ FlattenSeq(c) = g[Len(c)]
  <2>1. c \in Seq(Seq(T))
    BY ConcatProperties, Zenon
  <2>2. QED
    BY <2>1, FlattenJoins, Zenon
<1>3. PICK h : Joins(h, b, T) /\ FlattenSeq(b) = h[m]
  BY FlattenJoins, Zenon
<1>4. /\ n \in Nat /\ m \in Nat /\ f[0] = <<>> /\ g[0] = <<>> /\ h[0] = <<>>
      /\ \A i \in 0 .. n : f[i] \in Seq(T)
      /\ \A i \in 0 .. m : h[i] \in Seq(T)
      /\ \A i \in 1 .. m : b[i] \in Seq(T)
  BY <1>1, <1>2, <1>3, JoinsTyped, Zenon
<1>5. /\ Len(c) = n + m
      /\ \A i \in 1 .. n : c[i] = a[i]
      /\ \A i \in 1 .. m : c[n + i] = b[i]
  <2>1. Joined(a, b)
    BY TwoJoined, Zenon
  <2>2. QED
    BY <2>1, Zenon DEF Joined
<1>6. /\ \A i \in 1 .. n : f[i] = f[i - 1] \o a[i]
      /\ \A i \in 1 .. n + m : g[i] = g[i - 1] \o c[i]
      /\ \A i \in 1 .. m : h[i] = h[i - 1] \o b[i]
  BY <1>1, <1>2, <1>3, <1>5, Zenon DEF Joins
<1>7. g[n + m] = f[n] \o h[m]
  <2> HIDE DEF n, m, c
  <2> DEFINE First == {i \in Nat : i <= n => g[i] = f[i]}
  <2>1. 0 \in First
    BY <1>4
  <2>2. ASSUME NEW i \in 0 .. n - 1, i \in First PROVE i + 1 \in First
    <3>1. /\ i + 1 \in 1 .. n /\ i + 1 \in 1 .. n + m /\ (i + 1) - 1 = i /\ g[i] = f[i]
          /\ i + 1 \in Nat
      BY <1>4, <2>2
    <3>2. g[i + 1] = f[i + 1]
      BY <1>5, <1>6, <3>1, Zenon
    <3>3. QED
      BY <3>1, <3>2
  <2>3. First \in SUBSET Nat
    OBVIOUS
  <2> HIDE DEF First
  <2>4. \A i \in 0 .. n : i \in First
    BY <1>4, <2>1, <2>2, <2>3, Counting
  <2>5. g[n] = f[n]
    BY <1>4, <2>4 DEF First
  <2> DEFINE Second == {i \in Nat : i <= m => g[n + i] = f[n] \o h[i]}
  <2>6. f[n] \in Seq(T)
    <3>1. n \in 0 .. n
      BY <1>4
    <3>2. QED
      BY <1>4, <3>1, Zenon
  <2>7. 0 \in Second
    <3>1. f[n] \o h[0] = f[n]
      BY <1>4, <2>6, ConcatEmptySeq, Zenon
    <3>2. n + 0 = n
      BY <1>4
    <3>3. QED
      BY <2>5, <3>1, <3>2
  <2>8. ASSUME NEW i \in 0 .. m - 1, i \in Second PROVE i + 1 \in Second
    <3>1. /\ i + 1 \in 1 .. m /\ n + (i + 1) \in 1 .. n + m /\ (i + 1) - 1 = i
          /\ i \in 0 .. m /\ (n + (i + 1)) - 1 = n + i /\ i + 1 \in Nat /\ i <= m
      BY <1>4, <2>8
    <3>8. g[n + i] = f[n] \o h[i]
      BY <2>8, <3>1, Zenon
    <3>2. g[n + (i + 1)] = (f[n] \o h[i]) \o b[i + 1]
      <4>1. g[n + (i + 1)] = g[(n + (i + 1)) - 1] \o c[n + (i + 1)]
        BY <1>6, <3>1, Zenon
      <4>2. c[n + (i + 1)] = b[i + 1]
        BY <1>5, <3>1, Zenon
      <4>3. g[(n + (i + 1)) - 1] = g[n + i]
        BY <3>1
      <4>4. QED
        BY <3>8, <4>1, <4>2, <4>3, Zenon
    <3>3. h[i + 1] = h[i] \o b[i + 1]
      BY <1>6, <3>1, Zenon
    <3>4. h[i] \in Seq(T) /\ b[i + 1] \in Seq(T)
      BY <1>4, <3>1, Zenon
    <3>5. (f[n] \o h[i]) \o b[i + 1] = f[n] \o (h[i] \o b[i + 1])
      <4> DEFINE u == f[n]
                 v == h[i]
                 w == b[i + 1]
      <4>1. u \in Seq(T) /\ v \in Seq(T) /\ w \in Seq(T)
        BY <2>6, <3>4
      <4> HIDE DEF u, v, w
      <4>2. (u \o v) \o w = u \o (v \o w)
        BY <4>1, ConcatAssociative
      <4>3. QED
        BY <4>2, Zenon DEF u, v, w
    <3>6. g[n + (i + 1)] = f[n] \o h[i + 1]
      BY <3>2, <3>3, <3>5, Zenon
    <3>7. QED
      BY <3>1, <3>6
  <2>9. Second \in SUBSET Nat
    OBVIOUS
  <2> HIDE DEF Second
  <2>10. \A i \in 0 .. m : i \in Second
    BY <1>4, <2>7, <2>8, <2>9, Counting
  <2>11. m \in Second
    BY <1>4, <2>10
  <2>12. m <= m
    BY <1>4
  <2>13. QED
    BY <2>11, <2>12, Zenon DEF Second
<1>8. QED
  BY <1>1, <1>2, <1>3, <1>5, <1>7, Zenon

-----------------------------------------------------------------------------
(* Places and parameters                                                   *)

\* The part of q that is w.
LEMMA SubSeqIs ==
  ASSUME NEW T, NEW q, NEW w \in Seq(T), NEW a \in Nat,
         \A d \in 1 .. Len(w) : q[a + d] = w[d]
  PROVE  SubSeq(q, a + 1, a + Len(w)) = w
<1> DEFINE n == Len(w)
           z == SubSeq(q, a + 1, a + n)
<1>1. n \in Nat /\ \A d \in 1 .. n : w[d] \in T
  BY LenProperties, ElementOfSeq, Zenon
<1>2. n = Len(w) /\ \A d \in 1 .. n : q[a + d] = w[d]
  OBVIOUS
<1> HIDE DEF n
<1>3. \A i \in a + 1 .. a + n : q[i] \in T
  <2>1. ASSUME NEW i \in a + 1 .. a + n PROVE q[i] \in T
    <3>1. i - a \in 1 .. n /\ a + (i - a) = i
      BY <1>1
    <3>2. q[a + (i - a)] = w[i - a]
      BY <1>2, <3>1
    <3>3. QED
      BY <1>1, <3>1, <3>2
  <2>2. QED
    BY <2>1
<1>4. a + 1 \in Int /\ a + n \in Int
  BY <1>1
<1>5. /\ z \in Seq(T) /\ Len(z) = IF a + 1 <= a + n THEN (a + n) - (a + 1) + 1 ELSE 0
      /\ \A i \in 1 .. (a + n) - (a + 1) + 1 : z[i] = q[(a + 1) + i - 1]
  BY <1>3, <1>4, SubSeqProperties
<1> HIDE DEF z
<1>6. Len(z) = n
  BY <1>1, <1>5
<1>7. ASSUME NEW i \in 1 .. n PROVE z[i] = w[i]
  <2>1. i \in 1 .. (a + n) - (a + 1) + 1 /\ (a + 1) + i - 1 = a + i
    BY <1>1
  <2>2. QED
    BY <1>2, <1>5, <2>1
<1>8. z = w
  BY <1>2, <1>5, <1>6, <1>7, SeqEqual
<1>9. QED
  BY <1>2, <1>8 DEF z

-----------------------------------------------------------------------------
(* The builders                                                            *)

Kind == {"never", "in", "is null", "=", "like"}
ClauseType == [kind : Kind, column : Column, places : Nat]

\* What Clause makes.
LEMMA ClauseTyped ==
  ASSUME NEW k \in Kind, NEW c \in Column, NEW n \in Nat
  PROVE  Clause(k, c, n) \in ClauseType
BY DEF Clause, ClauseType

\* The clause of a condition, and what is bound to its places.
KindOf(e) == IF e.list THEN (IF e.values = <<>> THEN "never" ELSE "in")
             ELSE IF e.values[1] = Null THEN "is null" ELSE "="
ValuesOf(e) == PrepareElement(e).v
ClauseOf(e) == Clause(KindOf(e), e.column, Len(ValuesOf(e)))

\* Values, rows and conditions with texts and lists of any length.
AnyValue == Seq(Char) \cup {Null}
AnyRow == [Column -> AnyValue]
AnyCondition ==
    [column : Column, list : {FALSE}, values : {<<v>> : v \in AnyValue}]
    \cup [column : Column, list : {TRUE}, values : Seq(AnyValue)]

\* What the elements of a condition are.
LEMMA ConditionTyped ==
  ASSUME NEW e \in AnyCondition
  PROVE  /\ e.column \in Column /\ e.list \in BOOLEAN
         /\ e.list => e.values \in Seq(AnyValue)
         /\ ~e.list => \E v \in AnyValue : e.values = <<v>>
<1>1. CASE e \in [column : Column, list : {FALSE}, values : {<<v>> : v \in AnyValue}]
  BY <1>1
<1>2. CASE e \in [column : Column, list : {TRUE}, values : Seq(AnyValue)]
  BY <1>2
<1>3. QED
  BY <1>1, <1>2 DEF AnyCondition

\* Each has one clause, with a place for each of its values.
LEMMA PrepareElementIs ==
  ASSUME NEW e \in AnyCondition
  PROVE  /\ PrepareElement(e).q = <<ClauseOf(e)>> /\ ValuesOf(e) \in Seq(AnyValue)
         /\ ClauseOf(e) \in ClauseType
<1>1. /\ e.column \in Column /\ e.list \in BOOLEAN
      /\ e.list => e.values \in Seq(AnyValue)
      /\ ~e.list => \E v \in AnyValue : e.values = <<v>>
  BY ConditionTyped
<1>2. CASE e.list
  <2>1. e.values \in Seq(AnyValue)
    BY <1>1, <1>2
  <2>2. PrepareElement(e) = [q |-> InList(e), v |-> e.values]
    BY <1>2 DEF PrepareElement
  <2>3. Len(e.values) \in Nat /\ (e.values = <<>> => Len(e.values) = 0)
    BY <2>1
  <2>4. InList(e) = <<ClauseOf(e)>>
    BY <1>2, <2>2, <2>3 DEF InList, ClauseOf, KindOf, ValuesOf
  <2>5. ClauseOf(e) \in ClauseType
    <3>1. KindOf(e) \in Kind
      BY <1>2 DEF KindOf, Kind
    <3>2. ValuesOf(e) = e.values
      BY <2>2 DEF ValuesOf
    <3>3. QED
      BY <1>1, <2>3, <3>1, <3>2, ClauseTyped DEF ClauseOf
  <2>6. QED
    BY <2>1, <2>2, <2>4, <2>5 DEF ValuesOf
<1>3. CASE ~e.list
  <2>1. PICK v \in AnyValue : e.values = <<v>>
    BY <1>1, <1>3
  <2>2. e.values[1] = v /\ Len(e.values) = 1 /\ e.values \in Seq(AnyValue)
    BY <2>1
  <2>3. CASE v = Null
    <3>1. PrepareElement(e) = [q |-> <<Clause("is null", e.column, 0)>>, v |-> <<>>]
      BY <1>3, <2>2, <2>3 DEF PrepareElement
    <3>5. /\ PrepareElement(e).q = <<Clause("is null", e.column, 0)>>
          /\ PrepareElement(e).v = <<>>
      <4> DEFINE a == <<Clause("is null", e.column, 0)>>
                 b == <<>>
      <4>1. PrepareElement(e) = [q |-> a, v |-> b]
        BY <3>1
      <4> HIDE DEF a, b
      <4>2. PrepareElement(e).q = a /\ PrepareElement(e).v = b
        BY <4>1
      <4>3. QED
        BY <4>2 DEF a, b
    <3>2. KindOf(e) = "is null"
      BY <1>3, <2>2, <2>3 DEF KindOf
    <3>3. ValuesOf(e) = <<>> /\ Len(<<>>) = 0 /\ <<>> \in Seq(AnyValue)
      <4>1. ValuesOf(e) = <<>>
        BY <3>5 DEF ValuesOf
      <4>2. QED
        BY <4>1, EmptySeq
    <3>4. ClauseOf(e) = Clause("is null", e.column, 0)
      BY <3>2, <3>3 DEF ClauseOf
    <3>6. QED
      <4>1. Clause("is null", e.column, 0) \in ClauseType
        BY <1>1, ClauseTyped DEF Kind
      <4>2. PrepareElement(e).q = <<Clause("is null", e.column, 0)>>
        BY <3>5
      <4>3. QED
        BY <3>3, <3>4, <4>1, <4>2
  <2>4. CASE v # Null
    <3>1. PrepareElement(e) = [q |-> <<Clause("=", e.column, 1)>>, v |-> e.values]
      BY <1>3, <2>2, <2>4 DEF PrepareElement
    <3>2. KindOf(e) = "="
      BY <1>3, <2>2, <2>4 DEF KindOf
    <3>3. ValuesOf(e) = e.values
      BY <3>1 DEF ValuesOf
    <3>4. ClauseOf(e) = Clause("=", e.column, 1)
      BY <2>2, <3>2, <3>3 DEF ClauseOf
    <3>5. QED
      <4>1. Clause("=", e.column, 1) \in ClauseType
        BY <1>1, ClauseTyped DEF Kind
      <4>2. PrepareElement(e).q = <<Clause("=", e.column, 1)>>
        BY <3>1
      <4>3. QED
        BY <2>2, <3>3, <3>4, <4>1, <4>2
  <2>5. QED
    BY <2>3, <2>4
<1>4. QED
  BY <1>1, <1>2, <1>3

\* Parts of one clause each are put together in their order.
LEMMA PreparedIs ==
  ASSUME NEW parts, NEW n \in Nat, NEW c \in [1 .. n -> ClauseType], DOMAIN parts = 1 .. n,
         \A i \in 1 .. n : parts[i].q = <<c[i]>>
  PROVE  /\ Prepared(parts).q = c
         /\ Prepared(parts).v = FlattenSeq([i \in 1 .. n |-> parts[i].v])
<1> DEFINE s == [i \in 1 .. n |-> <<c[i]>>]
<1>1. /\ s \in [1 .. n -> Seq(ClauseType)]
      /\ \A i \in 1 .. n : s[i] = <<c[i]>> /\ s[i][1] = c[i] /\ Len(s[i]) = 1
  OBVIOUS
<1>2. s = [i \in DOMAIN parts |-> parts[i].q]
  OBVIOUS
<1>3. Prepared(parts).q = FlattenSeq(s)
  BY <1>2 DEF Prepared
<1> HIDE DEF s
<1>4. s \in Seq(Seq(ClauseType)) /\ Len(s) = n
  BY <1>1, SeqDef
<1>5. FlattenSeq(s) = [i \in 1 .. n |-> s[i][1]]
  BY <1>1, <1>4, FlattenSingles
<1>6. FlattenSeq(s) = c
  BY <1>1, <1>5
<1>7. Prepared(parts).v = FlattenSeq([i \in 1 .. n |-> parts[i].v])
  BY DEF Prepared
<1>8. QED
  BY <1>3, <1>6, <1>7

\* What is bound for conditions, and for a text that is searched in columns.
BoundOf(elements) == [i \in 1 .. Len(elements) |-> ValuesOf(elements[i])]
Pattern(text) == <<"%">> \o Escaped(text) \o <<"%">>
PatternsOf(columns, text) == [i \in 1 .. Len(columns) |-> <<Pattern(text)>>]
ClausesOf(elements) == [i \in 1 .. Len(elements) |-> ClauseOf(elements[i])]
LikesOf(columns) == [i \in 1 .. Len(columns) |-> Clause("like", columns[i], 1)]

\* Conditions.
LEMMA PrepareConditionIs ==
  ASSUME NEW elements \in Seq(AnyCondition)
  PROVE  /\ PrepareCondition(elements).q = Join(ClausesOf(elements), "and")
         /\ PrepareCondition(elements).v = FlattenSeq(BoundOf(elements))
<1> DEFINE n == Len(elements)
           parts == [i \in DOMAIN elements |-> PrepareElement(elements[i])]
           c == ClausesOf(elements)
<1>1. n \in Nat /\ DOMAIN elements = 1 .. n /\ \A i \in 1 .. n : elements[i] \in AnyCondition
  OBVIOUS
<1>2. \A i \in 1 .. n : parts[i] = PrepareElement(elements[i])
  BY <1>1
<1>3. /\ DOMAIN parts = 1 .. n
      /\ PrepareCondition(elements).q = Join(Prepared(parts).q, "and")
      /\ PrepareCondition(elements).v = Prepared(parts).v
  BY <1>1 DEF PrepareCondition
<1>4. c = [i \in 1 .. n |-> ClauseOf(elements[i])]
  BY DEF ClausesOf
<1>5. BoundOf(elements) = [i \in 1 .. n |-> ValuesOf(elements[i])]
  BY DEF BoundOf
<1> HIDE DEF n, parts, c
<1>6. c \in [1 .. n -> ClauseType] /\ \A i \in 1 .. n : parts[i].q = <<c[i]>>
  BY <1>1, <1>2, <1>4, PrepareElementIs
<1>7. BoundOf(elements) = [i \in 1 .. n |-> parts[i].v]
  BY <1>2, <1>5 DEF ValuesOf
<1>8. Prepared(parts).q = c /\ Prepared(parts).v = FlattenSeq([i \in 1 .. n |-> parts[i].v])
  BY <1>1, <1>3, <1>6, PreparedIs
<1>9. QED
  BY <1>3, <1>7, <1>8 DEF c

\* A text in columns.
LEMMA PrepareCondLikeIs ==
  ASSUME NEW columns \in Seq(Column), NEW text
  PROVE  /\ PrepareCondLike(columns, text).q = Join(LikesOf(columns), "or")
         /\ PrepareCondLike(columns, text).v = FlattenSeq(PatternsOf(columns, text))
<1> DEFINE n == Len(columns)
           x == <<Pattern(text)>>
           parts == [i \in DOMAIN columns |-> [q |-> <<Clause("like", columns[i], 1)>>, v |-> x]]
           c == LikesOf(columns)
<1>1. n \in Nat /\ DOMAIN columns = 1 .. n /\ \A i \in 1 .. n : columns[i] \in Column
  OBVIOUS
<1>2. \A i \in 1 .. n : parts[i].q = <<Clause("like", columns[i], 1)>> /\ parts[i].v = x
  BY <1>1
<1>3. /\ DOMAIN parts = 1 .. n
      /\ PrepareCondLike(columns, text).q = Join(Prepared(parts).q, "or")
      /\ PrepareCondLike(columns, text).v = Prepared(parts).v
  BY <1>1 DEF PrepareCondLike, Pattern
<1>4. c = [i \in 1 .. n |-> Clause("like", columns[i], 1)]
  BY DEF LikesOf
<1>5. PatternsOf(columns, text) = [i \in 1 .. n |-> x]
  BY DEF PatternsOf
<1> HIDE DEF n, x, parts, c
<1>6. c \in [1 .. n -> ClauseType] /\ \A i \in 1 .. n : parts[i].q = <<c[i]>>
  <2>1. \A i \in 1 .. n : Clause("like", columns[i], 1) \in ClauseType
    BY <1>1, ClauseTyped DEF Kind
  <2>2. QED
    BY <1>2, <1>4, <2>1
<1>7. PatternsOf(columns, text) = [i \in 1 .. n |-> parts[i].v]
  BY <1>2, <1>5
<1>8. Prepared(parts).q = c /\ Prepared(parts).v = FlattenSeq([i \in 1 .. n |-> parts[i].v])
  BY <1>1, <1>3, <1>6, PreparedIs
<1>9. QED
  BY <1>3, <1>7, <1>8 DEF c

\* A bounded sequence is a sequence.
LEMMA SeqOfIsSeq ==
  ASSUME NEW S, NEW n, NEW x \in SeqOf(S, n)
  PROVE  x \in Seq(S)
<1>1. PICK m \in 0 .. n : x \in [1 .. m -> S]
  BY DEF SeqOf
<1>2. m \in Nat
  OBVIOUS
<1>3. QED
  BY <1>1, <1>2, SeqDef

\* The arguments of a call.
LEMMA CallTyped ==
  ASSUME NEW M, NEW C, NEW X, NEW A, NEW Q, NEW r \in Call(M, C, X, A, Q)
  PROVE  /\ r.method \in M /\ r.scolumns \in C /\ r.text \in X /\ r.conditions \in Q
         /\ \E a \in A : r.columns = a.columns /\ r.values = a.values
<1>1. PICK m \in M, c \in C, x \in X, a \in A, q \in Q :
         r = [method |-> m, scolumns |-> c, text |-> x, columns |-> a.columns,
              values |-> a.values, conditions |-> q]
  BY DEF Call
<1>2. QED
  BY <1>1

\* The requests that are refused by no method.
RequestTyped(r) ==
    /\ r.method \in {"select", "search", "create", "update", "delete"}
    /\ r.scolumns \in Seq(Column) /\ r.text \in Seq(Char)
    /\ r.columns \in Seq(Column) /\ r.values \in Seq(AnyValue)
    /\ Len(r.columns) = Len(r.values)
    /\ r.conditions \in Seq(AnyCondition)
    /\ r.method = "search" <=> r.scolumns # <<>>
    /\ r.method \notin {"create", "update"} => r.columns = <<>> /\ r.values = <<>>
    /\ r.method = "create" => r.conditions = <<>>

\* The values, texts and conditions of the model are among these.
LEMMA ModelTyped ==
  /\ Word \subseteq Seq(Char) /\ Value \subseteq AnyValue /\ Text \subseteq Seq(Char)
  /\ Condition \subseteq AnyCondition
<1>1. ASSUME NEW w \in Word PROVE w \in Seq(Char)
  <2>1. \A a \in Char : <<a>> \in Seq(Char)
    OBVIOUS
  <2>2. <<>> \in Seq(Char)
    BY EmptySeq
  <2>3. QED
    BY <2>1, <2>2, Zenon DEF Word
<1>2. Value \subseteq AnyValue
  BY <1>1, Zenon DEF Value, AnyValue
<1>3. ASSUME NEW x \in Text PROVE x \in Seq(Char)
  <2>1. x \in SeqOf(Char, MaxLength)
    BY DEF Text
  <2>2. QED
    BY <2>1, SeqOfIsSeq, Zenon
<1>4. ASSUME NEW e \in Condition PROVE e \in AnyCondition
  <2>1. CASE e \in [column : Column, list : {FALSE}, values : {<<v>> : v \in Value}]
    <3>1. {<<v>> : v \in Value} \subseteq {<<v>> : v \in AnyValue}
      BY <1>2
    <3>2. QED
      BY <2>1, <3>1 DEF AnyCondition
  <2>2. CASE e \in [column : Column, list : {TRUE}, values : SeqOf(Value, 2)]
    <3>1. ASSUME NEW q \in SeqOf(Value, 2) PROVE q \in Seq(AnyValue)
      <4>1. q \in Seq(Value)
        BY SeqOfIsSeq, Zenon
      <4>2. QED
        BY <1>2, <4>1, SeqMonotonic
    <3>2. QED
      BY <2>2, <3>1 DEF AnyCondition
  <2>3. QED
    BY <2>1, <2>2 DEF Condition
<1>5. QED
  BY <1>1, <1>2, <1>3, <1>4

\* They are of these types.
LEMMA RequestIs ==
  ASSUME NEW r \in Request
  PROVE  RequestTyped(r)
<1>1. \A a \in Assignments : a.columns \in Seq(Column) /\ a.values \in Seq(AnyValue)
  <2>1. ASSUME NEW a \in Assignments PROVE a.columns \in Seq(Column) /\ a.values \in Seq(AnyValue)
    <3>1. PICK c \in Columns, v \in SeqOf(Value, 2) : a = [columns |-> c, values |-> v]
      BY DEF Assignments
    <3>2. c \in SeqOf(Column, 2)
      BY DEF Columns
    <3>3. c \in Seq(Column) /\ v \in Seq(Value)
      BY <3>2, SeqOfIsSeq, Zenon
    <3>4. v \in Seq(AnyValue)
      BY <3>3, ModelTyped, SeqMonotonic
    <3>5. QED
      BY <3>1, <3>3, <3>4
  <2>2. QED
    BY <2>1
<1>2. Conditions \subseteq Seq(AnyCondition) /\ Scalars \subseteq Conditions
  <2>1. ASSUME NEW q \in Conditions PROVE q \in Seq(AnyCondition)
    <3>1. q \in SeqOf(Condition, 2)
      BY DEF Conditions
    <3>2. q \in Seq(Condition)
      BY <3>1, SeqOfIsSeq, Zenon
    <3>3. QED
      BY <3>2, ModelTyped, SeqMonotonic
  <2>2. Scalars \subseteq Conditions
    BY DEF Scalars
  <2>3. QED
    BY <2>1, <2>2
<1>3. Text \subseteq Seq(Char) /\ Word \subseteq Seq(Char)
  BY ModelTyped
<1>4. \A c \in Searched : c \in Seq(Column) /\ c # <<>>
  <2>1. ASSUME NEW c \in Searched PROVE c \in Seq(Column) /\ c # <<>>
    <3>1. c \in SeqOf(Column, 2) /\ c # <<>>
      BY DEF Searched, Columns
    <3>2. QED
      BY <3>1, SeqOfIsSeq, Zenon
  <2>2. QED
    BY <2>1
<1>5. <<>> \in Seq(Column) /\ <<>> \in Seq(Char) /\ <<>> \in Seq(AnyValue) /\ <<>> \in Seq(AnyCondition)
  OBVIOUS
<1>6. \A a \in {Nothing} : a.columns = <<>> /\ a.values = <<>>
  BY DEF Nothing
<1>7. <<>> \in Scalars
  <2>1. <<>> \in SeqOf(Condition, 2)
    <3>1. 0 \in 0 .. 2 /\ <<>> \in [1 .. 0 -> Condition]
      OBVIOUS
    <3>2. QED
      BY <3>1 DEF SeqOf
  <2>2. QED
    BY <2>1 DEF Scalars, Conditions
<1>8. \/ r \in Call({"select", "delete"}, {<<>>}, {<<>>}, {Nothing}, Conditions)
      \/ r \in Call({"search"}, Searched, Text, {Nothing}, {<<>>})
      \/ r \in Call({"search"}, Searched, Word, {Nothing}, Scalars)
      \/ /\ r \in Call({"create"}, {<<>>}, {<<>>}, Assignments, {<<>>})
         /\ Len(r.columns) = Len(r.values)
      \/ /\ r \in Call({"update"}, {<<>>}, {<<>>}, Assignments, Scalars)
         /\ Len(r.columns) = Len(r.values)
  BY DEF Request, ValidColumnsValues
<1>9. CASE r \in Call({"select", "delete"}, {<<>>}, {<<>>}, {Nothing}, Conditions)
  <2>1. /\ r.method \in {"select", "delete"} /\ r.scolumns \in {<<>>} /\ r.text \in {<<>>}
        /\ r.conditions \in Conditions
        /\ \E a \in {Nothing} : r.columns = a.columns /\ r.values = a.values
    BY <1>9, CallTyped
  <2>2. QED
    BY <1>2, <1>5, <1>6, <2>1 DEF RequestTyped
<1>10. ASSUME NEW X \in SUBSET Seq(Char), NEW Q \in SUBSET Scalars,
              r \in Call({"search"}, Searched, X, {Nothing}, Q)
       PROVE  RequestTyped(r)
  <2>1. /\ r.method \in {"search"} /\ r.scolumns \in Searched /\ r.text \in X
        /\ r.conditions \in Q
        /\ \E a \in {Nothing} : r.columns = a.columns /\ r.values = a.values
    BY <1>10, CallTyped
  <2>2. QED
    BY <1>2, <1>4, <1>5, <1>6, <2>1 DEF RequestTyped
<1>11. CASE /\ r \in Call({"create"}, {<<>>}, {<<>>}, Assignments, {<<>>})
            /\ Len(r.columns) = Len(r.values)
  <2>1. /\ r.method \in {"create"} /\ r.scolumns \in {<<>>} /\ r.text \in {<<>>}
        /\ r.conditions \in {<<>>}
        /\ \E a \in Assignments : r.columns = a.columns /\ r.values = a.values
    BY <1>11, CallTyped
  <2>2. QED
    BY <1>1, <1>5, <1>11, <2>1 DEF RequestTyped
<1>12. CASE /\ r \in Call({"update"}, {<<>>}, {<<>>}, Assignments, Scalars)
            /\ Len(r.columns) = Len(r.values)
  <2>1. /\ r.method \in {"update"} /\ r.scolumns \in {<<>>} /\ r.text \in {<<>>}
        /\ r.conditions \in Scalars
        /\ \E a \in Assignments : r.columns = a.columns /\ r.values = a.values
    BY <1>12, CallTyped
  <2>2. QED
    BY <1>1, <1>2, <1>5, <1>12, <2>1 DEF RequestTyped
<1>13. QED
  BY <1>3, <1>7, <1>8, <1>9, <1>10, <1>11, <1>12

-----------------------------------------------------------------------------
(* Escaping                                                                *)

\* What one character is replaced by.
Put(c, x, y) == IF c = x THEN y ELSE <<c>>
PutAll(text, x, y) == [i \in 1 .. Len(text) |-> Put(text[i], x, y)]

\* A text is replaced character by character.
LEMMA ReplaceIs ==
  ASSUME NEW C, NEW text \in Seq(C), NEW x, NEW y \in Seq(C)
  PROVE  /\ Replace(text, x, y) = FlattenSeq(PutAll(text, x, y))
         /\ PutAll(text, x, y) \in Seq(Seq(C)) /\ Len(PutAll(text, x, y)) = Len(text)
         /\ Replace(text, x, y) \in Seq(C)
<1> DEFINE n == Len(text)
           s == PutAll(text, x, y)
<1>1. n \in Nat /\ DOMAIN text = 1 .. n /\ \A i \in 1 .. n : text[i] \in C
  OBVIOUS
<1>2. s = [i \in 1 .. n |-> IF text[i] = x THEN y ELSE <<text[i]>>]
  BY DEF PutAll, Put
<1>3. Replace(text, x, y) = FlattenSeq(s)
  BY <1>1, <1>2 DEF Replace
<1> HIDE DEF n, s
<1>4. s \in [1 .. n -> Seq(C)]
  <2>1. ASSUME NEW i \in 1 .. n PROVE (IF text[i] = x THEN y ELSE <<text[i]>>) \in Seq(C)
    <3>1. text[i] \in C
      BY <1>1
    <3>2. <<text[i]>> \in Seq(C)
      BY <3>1
    <3>3. QED
      BY <3>2
  <2>2. QED
    BY <1>2, <2>1, Zenon
<1>5. s \in Seq(Seq(C)) /\ Len(s) = n
  BY <1>1, <1>4, SeqDef
<1>6. PICK f : Joins(f, s, C) /\ FlattenSeq(s) = f[Len(s)]
  BY <1>5, FlattenJoins, Zenon
<1>7. n \in 0 .. n
  BY <1>1
<1>8. f[n] \in Seq(C)
  BY <1>5, <1>6, <1>7, JoinsTyped, Zenon
<1>9. QED
  BY <1>3, <1>5, <1>6, <1>8, Zenon DEF n, s

\* Two texts are replaced one after the other.
LEMMA ReplaceConcat ==
  ASSUME NEW C, NEW a \in Seq(C), NEW b \in Seq(C), NEW x, NEW y \in Seq(C)
  PROVE  Replace(a \o b, x, y) = Replace(a, x, y) \o Replace(b, x, y)
<1> DEFINE r(t) == PutAll(t, x, y)
<1>1. Joined(a, b) /\ a \o b \in Seq(C)
  BY TwoJoined, Zenon
<1>2. \A t \in Seq(C) : /\ Replace(t, x, y) = FlattenSeq(r(t))
                        /\ r(t) \in Seq(Seq(C)) /\ Len(r(t)) = Len(t)
  BY ReplaceIs
<1>3. \A t \in Seq(C) : \A i \in 1 .. Len(t) : r(t)[i] = Put(t[i], x, y)
  BY DEF PutAll
<1> DEFINE c == a \o b
           n == Len(a)
           m == Len(b)
<1>4. /\ n \in Nat /\ m \in Nat /\ Len(c) = n + m
      /\ \A i \in 1 .. n : c[i] = a[i]
      /\ \A i \in 1 .. m : c[n + i] = b[i]
  BY <1>1, LenProperties DEF Joined
<1>5. c \in Seq(C)
  BY <1>1
<1> HIDE DEF r
<1>6. Joined(r(a), r(b)) /\ r(a) \o r(b) \in Seq(Seq(C))
  BY <1>2, TwoJoined, Zenon
<1> DEFINE z == r(a) \o r(b)
<1>7. /\ Len(z) = n + m
      /\ \A i \in 1 .. n : z[i] = r(a)[i]
      /\ \A i \in 1 .. m : z[n + i] = r(b)[i]
  <2>1. Len(r(a)) = n /\ Len(r(b)) = m
    BY <1>2
  <2>2. QED
    BY <1>6, <2>1, Zenon DEF Joined
<1>8. /\ \A i \in 1 .. n : r(a)[i] = Put(a[i], x, y)
      /\ \A i \in 1 .. m : r(b)[i] = Put(b[i], x, y)
      /\ \A i \in 1 .. Len(c) : r(c)[i] = Put(c[i], x, y)
  BY <1>3, <1>5
<1>9. r(c) \in Seq(Seq(C)) /\ z \in Seq(Seq(C)) /\ Len(r(c)) = n + m
  BY <1>2, <1>4, <1>5, <1>6
<1> HIDE DEF c, n, m, z
<1>10. ASSUME NEW i \in 1 .. n + m PROVE r(c)[i] = z[i]
  <2>1. CASE i \in 1 .. n
    BY <1>4, <1>7, <1>8, <2>1, Zenon
  <2>2. CASE i \notin 1 .. n
    <3>1. i - n \in 1 .. m /\ n + (i - n) = i
      BY <1>4, <2>2
    <3>2. c[i] = b[i - n] /\ z[i] = r(b)[i - n]
      BY <1>4, <1>7, <3>1
    <3>3. QED
      BY <1>4, <1>8, <3>1, <3>2, Zenon
  <2>3. QED
    BY <2>1, <2>2
<1>11. r(c) = z
  <2>1. ASSUME NEW u \in Seq(Seq(C)), NEW v \in Seq(Seq(C)), Len(u) = Len(v),
               \A i \in 1 .. Len(u) : u[i] = v[i]
        PROVE  u = v
    BY <2>1, SeqEqual
  <2>2. QED
    BY <1>7, <1>9, <1>10, <2>1
<1>12. FlattenSeq(z) = FlattenSeq(r(a)) \o FlattenSeq(r(b))
  BY <1>2, FlattenConcat, Zenon DEF z
<1>13. QED
  BY <1>2, <1>5, <1>11, <1>12, Zenon DEF c

\* Two elements make a pair.
LEMMA TwoOnes ==
  ASSUME NEW C, NEW c \in C, NEW d \in C
  PROVE  <<c>> \o <<d>> = <<c, d>> /\ <<c, d>> \in Seq(C) /\ <<c>> \in Seq(C)
<1> DEFINE u == <<c>>
           v == <<d>>
<1>1. /\ u \in Seq(C) /\ v \in Seq(C) /\ Len(u) = 1 /\ Len(v) = 1
      /\ u[1] = c /\ v[1] = d
  OBVIOUS
<1> HIDE DEF u, v
<1>2. Joined(u, v) /\ u \o v \in Seq(C)
  BY <1>1, TwoJoined, Zenon
<1>3. Len(u \o v) = 2 /\ (u \o v)[1] = c /\ (u \o v)[2] = d
  <2>1. 1 \in 1 .. 1 /\ 1 + 1 = 2
    OBVIOUS
  <2>2. Len(u \o v) = Len(u) + Len(v) /\ (u \o v)[1] = u[1] /\ (u \o v)[Len(u) + 1] = v[1]
    BY <1>1, <1>2, <2>1, Zenon DEF Joined
  <2>3. QED
    BY <1>1, <2>1, <2>2
<1> DEFINE w == u \o v
<1>4. w \in Seq(C) /\ Len(w) = 2 /\ w[1] = c /\ w[2] = d
  BY <1>2, <1>3
<1> HIDE DEF w
<1>5. w = <<c, d>>
  BY <1>4
<1>6. QED
  BY <1>1, <1>4, <1>5 DEF u, v, w

\* One character, and two.
LEMMA ReplaceFew ==
  ASSUME NEW C, NEW c \in C, NEW x, NEW y \in Seq(C)
  PROVE  /\ Replace(<<c>>, x, y) = Put(c, x, y)
         /\ Put(c, x, y) \in Seq(C) /\ Replace(<<>>, x, y) = <<>>
<1>1. ASSUME NEW d \in C
      PROVE Replace(<<d>>, x, y) = Put(d, x, y) /\ Put(d, x, y) \in Seq(C)
  <2> DEFINE s == PutAll(<<d>>, x, y)
             w == Put(d, x, y)
  <2>1. <<d>> \in Seq(C) /\ Len(<<d>>) = 1 /\ <<d>>[1] = d
    OBVIOUS
  <2>2. w \in Seq(C)
    BY <2>1 DEF Put
  <2>3. Replace(<<d>>, x, y) = FlattenSeq(s) /\ s \in Seq(Seq(C)) /\ Len(s) = 1
    <3> DEFINE u == <<d>>
    <3>1. u \in Seq(C) /\ Len(u) = 1 /\ s = PutAll(u, x, y)
      BY <2>1
    <3> HIDE DEF s, u
    <3>2. Replace(u, x, y) = FlattenSeq(s) /\ s \in Seq(Seq(C)) /\ Len(s) = Len(u)
      BY <3>1, ReplaceIs
    <3>3. QED
      BY <3>1, <3>2 DEF u
  <2>4. s[1] = w
    BY <2>1 DEF PutAll
  <2> HIDE DEF s, w
  <2>5. PICK f : Joins(f, s, C) /\ FlattenSeq(s) = f[Len(s)]
    BY <2>3, FlattenJoins, Zenon
  <2>6. f[0] = <<>> /\ f[1] = f[1 - 1] \o s[1]
    BY <2>3, <2>5 DEF Joins
  <2>7. <<>> \o w = w
    BY <2>2, ConcatEmptySeq
  <2>8. f[1] = w
    <3>1. 1 - 1 = 0
      OBVIOUS
    <3>2. f[1] = f[0] \o s[1]
      BY <2>6, <3>1
    <3>3. QED
      BY <2>4, <2>6, <2>7, <3>2, Zenon
  <2>9. QED
    BY <2>2, <2>3, <2>5, <2>8 DEF w
<1>2. Replace(<<>>, x, y) = <<>>
  <2>1. Replace(<<>>, x, y) = FlattenSeq(PutAll(<<>>, x, y)) /\ Len(PutAll(<<>>, x, y)) = 0
    <3>1. <<>> \in Seq(C) /\ Len(<<>>) = 0
      BY EmptySeq
    <3> DEFINE u == <<>>
    <3> HIDE DEF u
    <3>2. u \in Seq(C) /\ Len(u) = 0
      BY <3>1 DEF u
    <3>3. Replace(u, x, y) = FlattenSeq(PutAll(u, x, y)) /\ Len(PutAll(u, x, y)) = Len(u)
      <4>1. \A t \in Seq(C) : /\ Replace(t, x, y) = FlattenSeq(PutAll(t, x, y))
                              /\ Len(PutAll(t, x, y)) = Len(t)
        BY ReplaceIs
      <4>2. QED
        BY <3>2, <4>1, Zenon
    <3>4. QED
      BY <3>2, <3>3 DEF u
  <2>2. PutAll(<<>>, x, y) = <<>>
    BY EmptySeq DEF PutAll
  <2>3. QED
    BY <2>1, <2>2, Zenon DEF FlattenSeq
<1>3. QED
  BY <1>1, <1>2

\* The characters of patterns, and what is put for one of a text.
Sign == Char \cup {"%", "_", "!"}
EscapedChar(c) == IF c \in {"!", "%", "_"} THEN <<"!", c>> ELSE <<c>>
EscapesOf(text) == [i \in 1 .. Len(text) |-> EscapedChar(text[i])]

\* What ReplaceConcat says of them.
LEMMA ReplaceInSigns ==
  ASSUME NEW w \in Seq(Sign), NEW e
  PROVE  \A t, u \in Seq(Sign) : Replace(t \o u, e, w) = Replace(t, e, w) \o Replace(u, e, w)
BY ReplaceConcat

\* Two texts are escaped one after the other.
LEMMA EscapedConcat ==
  ASSUME NEW a \in Seq(Sign), NEW b \in Seq(Sign)
  PROVE  /\ Escaped(a) \in Seq(Sign)
         /\ Escaped(a \o b) = Escaped(a) \o Escaped(b)
<1> DEFINE x == <<"!", "!">>
           y == <<"!", "%">>
           z == <<"!", "_">>
           X(t) == Replace(t, "!", x)
           Y(t) == Replace(t, "%", y)
           Z(t) == Replace(t, "_", z)
<1>1. x \in Seq(Sign) /\ y \in Seq(Sign) /\ z \in Seq(Sign)
  <2>1. "!" \in Sign /\ "%" \in Sign /\ "_" \in Sign
    BY DEF Sign
  <2>2. QED
    BY <2>1, TwoOnes, Zenon
<1>2. \A t : Escaped(t) = Z(Y(X(t)))
  BY DEF Escaped
<1> HIDE DEF x, y, z
<1>3. \A t \in Seq(Sign) : X(t) \in Seq(Sign) /\ Y(t) \in Seq(Sign) /\ Z(t) \in Seq(Sign)
  BY <1>1, ReplaceIs
<1>5. \A t, u \in Seq(Sign) : X(t \o u) = X(t) \o X(u)
  BY <1>1, ReplaceInSigns
<1>6. \A t, u \in Seq(Sign) : Y(t \o u) = Y(t) \o Y(u)
  BY <1>1, ReplaceInSigns
<1>7. \A t, u \in Seq(Sign) : Z(t \o u) = Z(t) \o Z(u)
  BY <1>1, ReplaceInSigns
<1> HIDE DEF X, Y, Z
<1>8. X(a \o b) = X(a) \o X(b)
  BY <1>5
<1>9. Y(X(a) \o X(b)) = Y(X(a)) \o Y(X(b))
  BY <1>3, <1>6
<1>10. Z(Y(X(a)) \o Y(X(b))) = Z(Y(X(a))) \o Z(Y(X(b)))
  BY <1>3, <1>7
<1>11. QED
  BY <1>2, <1>3, <1>8, <1>9, <1>10, Zenon

\* One character.
LEMMA EscapedOne ==
  ASSUME NEW c \in Sign
  PROVE  /\ Escaped(<<c>>) = EscapedChar(c) /\ EscapedChar(c) \in Seq(Sign)
         /\ Escaped(<<>>) = <<>>
<1> DEFINE x == <<"!", "!">>
           y == <<"!", "%">>
           z == <<"!", "_">>
<1>1. x \in Seq(Sign) /\ y \in Seq(Sign) /\ z \in Seq(Sign)
  <2>1. "!" \in Sign /\ "%" \in Sign /\ "_" \in Sign
    BY DEF Sign
  <2>2. QED
    BY <2>1, TwoOnes, Zenon
<1>2. "!" \in Sign /\ "%" \in Sign /\ "_" \in Sign
  BY DEF Sign
<1>3. \A t : Escaped(t) = Replace(Replace(Replace(t, "!", x), "%", y), "_", z)
  BY DEF Escaped
<1>4. x = <<"!", "!">> /\ y = <<"!", "%">> /\ z = <<"!", "_">>
  OBVIOUS
<1> HIDE DEF x, y, z
<1>5. \A d \in Sign : /\ Replace(<<d>>, "!", x) = Put(d, "!", x)
                      /\ Replace(<<d>>, "%", y) = Put(d, "%", y)
                      /\ Replace(<<d>>, "_", z) = Put(d, "_", z)
  <2>1. \A w \in Seq(Sign) : \A e : \A d \in Sign : Replace(<<d>>, e, w) = Put(d, e, w)
    BY ReplaceFew
  <2>2. QED
    BY <1>1, <2>1, Zenon
<1>6. \A t, u \in Seq(Sign) : /\ Replace(t \o u, "%", y) = Replace(t, "%", y) \o Replace(u, "%", y)
                              /\ Replace(t \o u, "_", z) = Replace(t, "_", z) \o Replace(u, "_", z)
  BY <1>1, ReplaceInSigns
<1> DEFINE b == <<"!">>
           p == <<"%">>
<1>7. x = b \o b /\ y = b \o p /\ b \in Seq(Sign) /\ p \in Seq(Sign)
  BY <1>2, <1>4, TwoOnes
<1>8. /\ Replace(<<>>, "!", x) = <<>> /\ Replace(<<>>, "%", y) = <<>>
      /\ Replace(<<>>, "_", z) = <<>>
  <2>1. \A w \in Seq(Sign) : \A a : Replace(<<>>, a, w) = <<>>
    BY <1>2, ReplaceFew
  <2>2. QED
    BY <1>1, <2>1, Zenon
<1>9. Escaped(<<>>) = <<>>
  BY <1>3, <1>8, Zenon
<1>10. Replace(b, "%", y) = b /\ Replace(b, "_", z) = b /\ Replace(p, "_", z) = p
  BY <1>2, <1>5 DEF Put
<1> HIDE DEF b, p
<1>11. CASE c = "!"
  <2>1. Replace(<<c>>, "!", x) = x
    BY <1>5, <1>11 DEF Put
  <2>2. Replace(x, "%", y) = x
    BY <1>6, <1>7, <1>10
  <2>3. Replace(x, "_", z) = x
    BY <1>6, <1>7, <1>10
  <2>4. Escaped(<<c>>) = x
    BY <1>3, <2>1, <2>2, <2>3, Zenon
  <2>5. EscapedChar(c) = x
    BY <1>4, <1>11 DEF EscapedChar
  <2>6. QED
    BY <1>1, <1>9, <2>4, <2>5
<1>12. CASE c = "%"
  <2>1. Replace(<<c>>, "!", x) = <<c>>
    BY <1>5, <1>12 DEF Put
  <2>2. Replace(<<c>>, "%", y) = y
    BY <1>5, <1>12 DEF Put
  <2>3. Replace(y, "_", z) = y
    BY <1>6, <1>7, <1>10
  <2>4. Escaped(<<c>>) = y
    BY <1>3, <2>1, <2>2, <2>3, Zenon
  <2>5. EscapedChar(c) = y
    BY <1>4, <1>12 DEF EscapedChar
  <2>6. QED
    BY <1>1, <1>9, <2>4, <2>5
<1>13. CASE c = "_"
  <2>1. Replace(<<c>>, "!", x) = <<c>> /\ Replace(<<c>>, "%", y) = <<c>>
    BY <1>5, <1>13 DEF Put
  <2>2. Replace(<<c>>, "_", z) = z
    BY <1>5, <1>13 DEF Put
  <2>3. Escaped(<<c>>) = z
    BY <1>3, <2>1, <2>2, Zenon
  <2>4. EscapedChar(c) = z
    BY <1>4, <1>13 DEF EscapedChar
  <2>5. QED
    BY <1>1, <1>9, <2>3, <2>4
<1>14. CASE c \notin {"!", "%", "_"}
  <2>1. /\ Replace(<<c>>, "!", x) = <<c>> /\ Replace(<<c>>, "%", y) = <<c>>
        /\ Replace(<<c>>, "_", z) = <<c>>
    BY <1>5, <1>14 DEF Put
  <2>2. Escaped(<<c>>) = <<c>>
    BY <1>3, <2>1, Zenon
  <2>3. EscapedChar(c) = <<c>> /\ <<c>> \in Seq(Sign)
    BY <1>14, TwoOnes DEF EscapedChar
  <2>4. QED
    BY <1>9, <2>2, <2>3
<1>15. QED
  BY <1>11, <1>12, <1>13, <1>14

\* A text is escaped character by character.
LEMMA EscapedIs ==
  ASSUME NEW text \in Seq(Char)
  PROVE  /\ Escaped(text) = FlattenSeq(EscapesOf(text)) /\ Escaped(text) \in Seq(Sign)
         /\ EscapesOf(text) \in Seq(Seq(Sign)) /\ Len(EscapesOf(text)) = Len(text)
<1> DEFINE n == Len(text)
           s == EscapesOf(text)
<1>1. n \in Nat /\ \A i \in 1 .. n : text[i] \in Char
  OBVIOUS
<1>2. text \in Seq(Sign) /\ \A i \in 1 .. n : text[i] \in Sign
  BY <1>1, SeqMonotonic DEF Sign
<1>3. s = [i \in 1 .. n |-> EscapedChar(text[i])]
  BY DEF EscapesOf
<1> HIDE DEF n, s
<1>4. s \in [1 .. n -> Seq(Sign)]
  BY <1>2, <1>3, EscapedOne
<1>5. s \in Seq(Seq(Sign)) /\ Len(s) = n
  BY <1>1, <1>4, SeqDef
<1>6. PICK f : Joins(f, s, Sign) /\ FlattenSeq(s) = f[n]
  BY <1>5, FlattenJoins, Zenon
<1>7. f[0] = <<>> /\ \A i \in 1 .. n : f[i] = f[i - 1] \o s[i]
  BY <1>5, <1>6 DEF Joins
<1> DEFINE Good == {i \in Nat : i <= n => Escaped(SubSeq(text, 1, i)) = f[i]}
<1>8. 0 \in Good
  <2>1. SubSeq(text, 1, 0) = <<>>
    BY SubSeqEmpty
  <2>2. Escaped(<<>>) = <<>>
    <3>1. "!" \in Sign
      BY DEF Sign
    <3>2. QED
      BY <3>1, EscapedOne, Zenon
  <2>3. Escaped(SubSeq(text, 1, 0)) = f[0]
    BY <1>7, <2>1, <2>2, Zenon
  <2>4. QED
    BY <2>3
<1>9. ASSUME NEW i \in 0 .. n - 1, i \in Good PROVE i + 1 \in Good
  <2> DEFINE t == SubSeq(text, 1, i)
             u == <<text[i + 1]>>
  <2>1. i + 1 \in 1 .. n /\ (i + 1) - 1 = i /\ i <= n /\ i + 1 \in Nat /\ 1 \in 1 .. n
    BY <1>1, <1>9
  <2>2. Escaped(t) = f[i]
    BY <1>9, <2>1, Zenon
  <2>3. SubSeq(text, 1, i + 1) = SubSeq(text, 1, (i + 1) - 1) \o u
    BY <1>2, <2>1, SubSeqRecursiveSecond DEF n
  <2>4. text[i + 1] \in Sign
    BY <1>2, <2>1
  <2>5. t \in Seq(Sign)
    <3>1. \A j \in 1 .. i : j \in 1 .. n
      BY <1>1, <2>1
    <3>2. \A j \in 1 .. i : text[j] \in Sign
      BY <1>2, <3>1
    <3>3. QED
      BY <3>2, SubSeqProperties
  <2>6. u \in Seq(Sign)
    BY <2>4
  <2>7. Escaped(u) = EscapedChar(text[i + 1])
    BY <2>4, EscapedOne
  <2>8. s[i + 1] = EscapedChar(text[i + 1])
    BY <1>3, <2>1
  <2> HIDE DEF u
  <2>9. SubSeq(text, 1, i + 1) = t \o u
    BY <2>1, <2>3
  <2> HIDE DEF t
  <2>10. Escaped(t \o u) = Escaped(t) \o Escaped(u)
    <3>1. \A a, b \in Seq(Sign) : Escaped(a \o b) = Escaped(a) \o Escaped(b)
      BY EscapedConcat
    <3>2. QED
      BY <2>5, <2>6, <3>1, Zenon
  <2>11. f[i + 1] = f[i] \o s[i + 1]
    BY <1>7, <2>1
  <2>12. Escaped(SubSeq(text, 1, i + 1)) = f[i + 1]
    BY <2>2, <2>7, <2>8, <2>9, <2>10, <2>11, Zenon
  <2>13. QED
    BY <2>1, <2>12
<1>10. Good \in SUBSET Nat
  OBVIOUS
<1> HIDE DEF Good
<1>11. \A i \in 0 .. n : i \in Good
  BY <1>1, <1>8, <1>9, <1>10, Counting
<1>12. SubSeq(text, 1, n) = text
  BY <1>2, SubSeqFull DEF n
<1>13. Escaped(text) = f[n]
  <2>1. n \in Good /\ n <= n
    BY <1>1, <1>11
  <2>2. Escaped(SubSeq(text, 1, n)) = f[n]
    BY <2>1, Zenon DEF Good
  <2>3. QED
    BY <1>12, <2>2, Zenon
<1>14. Escaped(text) \in Seq(Sign)
  <2>1. \A a \in Seq(Sign) : Escaped(a) \in Seq(Sign)
    BY EscapedConcat
  <2>2. QED
    BY <1>2, <2>1
<1>15. QED
  BY <1>5, <1>6, <1>13, <1>14 DEF n, s

-----------------------------------------------------------------------------
(* Searching                                                               *)

\* Where a text may go on for the rest of a pattern, for each position of the pattern
\* and the two after its end.
Froms(h, text, pattern, end) ==
    h = [j \in 1 .. end + 1 |->
           IF j = end THEN {Len(text) + 1} ELSE IF j > end THEN {}
           ELSE GoesOn(text, pattern, j, h[j + 1], h[j + 2])]

\* Positions go on at positions.
LEMMA GoesOnTyped ==
  ASSUME NEW C, NEW text \in Seq(C), NEW pattern, NEW j, NEW next \in SUBSET Nat, NEW after
  PROVE  GoesOn(text, pattern, j, next, after) \in SUBSET Nat
<1>1. DOMAIN text \subseteq Nat
  BY LenProperties
<1>2. UNION {1 .. k : k \in next} \in SUBSET Nat
  OBVIOUS
<1>3. CASE pattern[j] = "%"
  BY <1>2, <1>3 DEF GoesOn
<1>4. CASE pattern[j] # "%" /\ pattern[j] = "!"
  <2>1. GoesOn(text, pattern, j, next, after) =
           {i \in DOMAIN text : i + 1 \in after /\ text[i] = pattern[j + 1]}
    BY <1>4, Zenon DEF GoesOn
  <2>2. QED
    BY <1>1, <2>1
<1>5. CASE pattern[j] # "%" /\ pattern[j] # "!"
  <2>1. GoesOn(text, pattern, j, next, after) =
           {i \in DOMAIN text : i + 1 \in next /\ pattern[j] \in {"_", text[i]}}
    BY <1>5, Zenon DEF GoesOn
  <2>2. QED
    BY <1>1, <2>1
<1>6. QED
  BY <1>3, <1>4, <1>5

\* They are found from the end of the pattern on.
LEMMA FromsExist ==
  ASSUME NEW C, NEW text \in Seq(C), NEW pattern, NEW end \in Nat
  PROVE  \E h : Froms(h, text, pattern, end)
<1> DEFINE P == SUBSET Nat
           S == P \X P
           G == [i \in 1 .. end |-> [v \in S |->
                   <<GoesOn(text, pattern, end - i, v[1], v[2]), v[1]>>]]
           b == <<{Len(text) + 1}, {}>>
<1>1. Len(text) \in Nat
  BY LenProperties
<1>2. b \in S
  BY <1>1
<1>3. \A j : \A v \in S : <<GoesOn(text, pattern, j, v[1], v[2]), v[1]>> \in S
  <2>1. ASSUME NEW j, NEW v \in S PROVE GoesOn(text, pattern, j, v[1], v[2]) \in P
    <3>1. v[1] \in P
      OBVIOUS
    <3>2. QED
      BY <3>1, GoesOnTyped
  <2>2. QED
    BY <2>1
<1>4. G \in [1 .. end -> [S -> S]]
  <2> HIDE DEF S
  <2>1. QED
    BY <1>3
<1>5. \A i \in 1 .. end, v \in S : G[i][v] = <<GoesOn(text, pattern, end - i, v[1], v[2]), v[1]>>
  OBVIOUS
<1>6. PICK f : Iterates(f, end, S, b, G)
  <2> HIDE DEF S, b, G
  <2>1. QED
    BY <1>2, <1>4, Recursion
<1> HIDE DEF G
<1>7. /\ f \in [0 .. end -> S] /\ f[0] = b /\ \A i \in 1 .. end : f[i] = G[i][f[i - 1]]
  BY <1>6 DEF Iterates
<1>8. ASSUME NEW i \in 1 .. end
      PROVE  /\ f[i][1] = GoesOn(text, pattern, end - i, f[i - 1][1], f[i - 1][2])
             /\ f[i][2] = f[i - 1][1]
  <2>1. i - 1 \in 0 .. end
    OBVIOUS
  <2> DEFINE v == f[i - 1]
  <2>2. v \in S
    BY <1>7, <2>1
  <2>3. f[i] = G[i][v]
    BY <1>7
  <2> HIDE DEF v, S
  <2>4. f[i] = <<GoesOn(text, pattern, end - i, v[1], v[2]), v[1]>>
    BY <1>5, <2>2, <2>3
  <2>5. QED
    BY <2>4 DEF v
<1>9. f[0][1] = {Len(text) + 1} /\ f[0][2] = {}
  BY <1>7
<1> DEFINE h == [j \in 1 .. end + 1 |-> IF j > end THEN {} ELSE f[end - j][1]]
<1>10. \A j \in 1 .. end : h[j] = f[end - j][1] /\ h[j + 1] = f[end - j][2]
  <2>1. ASSUME NEW j \in 1 .. end PROVE h[j] = f[end - j][1] /\ h[j + 1] = f[end - j][2]
    <3>1. h[j] = f[end - j][1]
      OBVIOUS
    <3>2. CASE j = end
      <4>1. h[j + 1] = {} /\ end - j = 0
        BY <3>2
      <4>2. QED
        BY <1>9, <3>1, <4>1
    <3>3. CASE j # end
      <4>1. h[j + 1] = f[end - (j + 1)][1]
        BY <3>3
      <4>2. end - j \in 1 .. end /\ (end - j) - 1 = end - (j + 1)
        BY <3>3
      <4>3. f[end - j][2] = f[(end - j) - 1][1]
        BY <1>8, <4>2
      <4>4. QED
        BY <3>1, <4>1, <4>2, <4>3
    <3>4. QED
      BY <3>2, <3>3
  <2>2. QED
    BY <2>1
<1>11. ASSUME NEW j \in 1 .. end + 1
       PROVE  h[j] = IF j = end THEN {Len(text) + 1} ELSE IF j > end THEN {}
                     ELSE GoesOn(text, pattern, j, h[j + 1], h[j + 2])
  <2>1. CASE j = end
    <3>1. j \in 1 .. end /\ end - j = 0
      BY <2>1
    <3>2. h[j] = f[0][1]
      BY <1>10, <3>1
    <3>3. QED
      BY <1>9, <2>1, <3>2
  <2>2. CASE j > end
    BY <2>2
  <2>3. CASE j < end
    <3>1. j \in 1 .. end /\ j + 1 \in 1 .. end /\ end - j \in 1 .. end
          /\ (end - j) - 1 = end - (j + 1) /\ end - (end - j) = j /\ (j + 1) + 1 = j + 2
      BY <2>3
    <3>2. h[j] = f[end - j][1]
      BY <1>10, <3>1
    <3>3. h[j + 1] = f[end - (j + 1)][1] /\ h[(j + 1) + 1] = f[end - (j + 1)][2]
      BY <1>10, <3>1
    <3>4. f[end - j][1] = GoesOn(text, pattern, end - (end - j), f[(end - j) - 1][1],
                                 f[(end - j) - 1][2])
      BY <1>8, <3>1
    <3> HIDE DEF h
    <3>5. h[j] = GoesOn(text, pattern, j, h[j + 1], h[j + 2])
      BY <3>1, <3>2, <3>3, <3>4
    <3>6. j # end /\ ~(j > end)
      BY <2>3
    <3>7. QED
      BY <3>5, <3>6, Zenon
  <2>4. QED
    BY <2>1, <2>2, <2>3
<1>12. Froms(h, text, pattern, end)
  <2>1. h = [j \in 1 .. end + 1 |-> h[j]]
    OBVIOUS
  <2> HIDE DEF h
  <2>2. QED
    BY <1>11, <2>1 DEF Froms
<1>13. QED
  BY <1>12

\* LIKE holds of a text that may go on for all of the pattern from its start.
LEMMA LikeFroms ==
  ASSUME NEW C, NEW text \in Seq(C), NEW pattern, Len(pattern) \in Nat
  PROVE  \E h : /\ Froms(h, text, pattern, Len(pattern) + 1)
                /\ Like(text, pattern) <=> 1 \in h[1]
<1> DEFINE end == Len(pattern) + 1
           D(k) == k = [j \in 1 .. end + 1 |->
                          IF j = end THEN {Len(text) + 1} ELSE IF j > end THEN {}
                          ELSE GoesOn(text, pattern, j, k[j + 1], k[j + 2])]
<1>1. PICK k : D(k)
  <2>1. end \in Nat
    OBVIOUS
  <2>2. \E k : Froms(k, text, pattern, end)
    BY <2>1, FromsExist, Zenon
  <2>3. QED
    BY <2>2, Zenon DEF Froms
<1>2. PICK h : h = (CHOOSE i : D(i))
  OBVIOUS
<1>3. D(h)
  <2> HIDE DEF D
  <2>1. QED
    BY <1>1, <1>2
<1>4. Like(text, pattern) <=> 1 \in h[1]
  BY <1>2 DEF Like
<1>5. Froms(h, text, pattern, Len(pattern) + 1)
  BY <1>3, Zenon DEF Froms
<1>6. QED
  BY <1>4, <1>5

\* p is a pattern that is "%", what is put for the characters of x, and "%", where f
\* joins what is put for the first of them.
Shape(p, x, f) ==
    /\ Len(p) = Len(f[Len(x)]) + 2 /\ p[1] = "%" /\ p[Len(p)] = "%"
    /\ Len(f[0]) = 0 /\ \A i \in 0 .. Len(x) : Len(f[i]) \in Nat
    /\ \A k \in 1 .. Len(x) :
          /\ Len(f[k]) = Len(f[k - 1]) + Len(EscapedChar(x[k]))
          /\ Len(f[k]) <= Len(f[Len(x)])
          /\ \A d \in 1 .. Len(EscapedChar(x[k])) :
                p[1 + (Len(f[k - 1]) + d)] = EscapedChar(x[k])[d]

\* The pattern for a text is.
LEMMA PatternShape ==
  ASSUME NEW x \in Seq(Char)
  PROVE  \E f : Shape(Pattern(x), x, f)
<1> DEFINE m == Len(x)
           s == EscapesOf(x)
           e == Escaped(x)
           b == <<"%">>
           p == Pattern(x)
<1>1. /\ e = FlattenSeq(s) /\ e \in Seq(Sign) /\ s \in Seq(Seq(Sign)) /\ Len(s) = m
      /\ m \in Nat
  BY EscapedIs
<1>2. \A k \in 1 .. m : s[k] = EscapedChar(x[k])
  BY DEF EscapesOf
<1>3. b \in Seq(Sign) /\ Len(b) = 1 /\ b[1] = "%"
  BY DEF Sign
<1>4. p = (b \o e) \o b
  BY DEF Pattern
<1>5. m = Len(x)
  OBVIOUS
<1> HIDE DEF m, s, e, b, p
<1>6. PICK f : Joins(f, s, Sign) /\ FlattenSeq(s) = f[Len(s)]
  BY <1>1, FlattenJoins, Zenon
<1>7. e = f[m]
  BY <1>1, <1>6
<1>8. /\ \A k \in 1 .. m : Adds(f, s, k) /\ Found(f, s, k)
      /\ Len(f[0]) = 0 /\ \A i \in 0 .. m : Len(f[i]) \in Nat
  BY <1>1, <1>6, JoinsStep, JoinsPieces, JoinsTyped, Zenon
<1> DEFINE q == b \o e
<1>9. q \in Seq(Sign) /\ Joined(b, e)
  BY <1>1, <1>3, TwoJoined, Zenon
<1> HIDE DEF q
<1>10. p \in Seq(Sign) /\ Joined(q, b) /\ p = q \o b
  BY <1>3, <1>4, <1>9, TwoJoined, Zenon DEF q
<1>11. Len(e) \in Nat /\ m \in 0 .. m /\ 1 \in 1 .. 1
  BY <1>1, LenProperties
<1>12. /\ Len(q) = Len(b) + Len(e) /\ \A d \in 1 .. Len(b) : q[d] = b[d]
       /\ \A d \in 1 .. Len(e) : q[Len(b) + d] = e[d]
  BY <1>9, Zenon DEF Joined, q
<1>13. /\ Len(p) = Len(q) + Len(b) /\ \A d \in 1 .. Len(q) : p[d] = q[d]
       /\ \A d \in 1 .. Len(b) : p[Len(q) + d] = b[d]
  BY <1>10, Zenon DEF Joined
<1>14. Len(q) = 1 + Len(e) /\ Len(p) = Len(e) + 2 /\ Len(p) = Len(q) + 1
  BY <1>3, <1>11, <1>12, <1>13
<1>15. p[1] = "%" /\ p[Len(p)] = "%"
  <2>1. 1 \in 1 .. Len(q) /\ 1 \in 1 .. Len(b)
    BY <1>3, <1>11, <1>14
  <2>2. p[1] = q[1] /\ q[1] = b[1] /\ p[Len(q) + 1] = b[1]
    BY <1>12, <1>13, <2>1
  <2>3. QED
    BY <1>3, <1>14, <2>2
<1>16. \A d \in 1 .. Len(e) : p[1 + d] = e[d]
  <2>1. ASSUME NEW d \in 1 .. Len(e) PROVE p[1 + d] = e[d]
    <3>1. 1 + d \in 1 .. Len(q)
      BY <1>11, <1>14
    <3>2. p[1 + d] = q[1 + d]
      BY <1>13, <3>1
    <3>3. q[Len(b) + d] = e[d]
      BY <1>12
    <3>4. QED
      BY <1>3, <3>2, <3>3
  <2>2. QED
    BY <2>1
<1>17. ASSUME NEW k \in 1 .. m
       PROVE  /\ Len(f[k]) = Len(f[k - 1]) + Len(EscapedChar(x[k]))
              /\ Len(f[k]) <= Len(f[m])
              /\ \A d \in 1 .. Len(EscapedChar(x[k])) :
                    p[1 + (Len(f[k - 1]) + d)] = EscapedChar(x[k])[d]
  <2> DEFINE c == EscapedChar(x[k])
             here == Len(f[k - 1])
             width == Len(c)
  <2>1. s[k] = c
    BY <1>2
  <2>2. /\ Len(f[k]) = here + width /\ Len(f[k]) <= Len(f[m])
        /\ \A d \in 1 .. width : f[m][here + d] = c[d]
    <3> HIDE DEF c
    <3>1. Adds(f, s, k) /\ Found(f, s, k) /\ Len(s) = m
      BY <1>1, <1>8
    <3>2. QED
      BY <2>1, <3>1, Zenon DEF Adds, Found
  <2>3. here \in Nat /\ width \in Nat
    <3>1. k - 1 \in 0 .. m
      BY <1>1
    <3>2. Len(s[k]) \in Nat
      BY <1>1, <1>6, JoinsTyped, Zenon
    <3>3. QED
      BY <1>8, <2>1, <3>1, <3>2, Zenon
  <2> HIDE DEF here, width, c
  <2>4. ASSUME NEW d \in 1 .. width PROVE p[1 + (here + d)] = c[d]
    <3>1. here + d \in 1 .. Len(e)
      BY <1>7, <1>11, <2>2, <2>3
    <3>2. QED
      BY <1>7, <1>16, <2>2, <3>1
  <2>5. QED
    BY <2>2, <2>4 DEF here, width, c
<1>18. Shape(p, x, f)
  BY <1>5, <1>7, <1>8, <1>14, <1>15, <1>17 DEF Shape
<1>19. QED
  BY <1>18 DEF p

\* Where what is left of x after its i first characters is found in a text.
Rest(text, x, i) ==
    {k \in 1 .. Len(text) + 1 :
        \A d \in i + 1 .. Len(x) :
            k + (d - i - 1) \in 1 .. Len(text) /\ text[k + (d - i - 1)] = x[d]}

\* It is found where its first character is, with the others after it.
LEMMA RestStep ==
  ASSUME NEW text \in Seq(Char), NEW x \in Seq(Char), NEW i \in 1 .. Len(x)
  PROVE  Rest(text, x, i - 1) =
            {k \in DOMAIN text : k + 1 \in Rest(text, x, i) /\ text[k] = x[i]}
<1> DEFINE n == Len(text)
           m == Len(x)
<1>1. n \in Nat /\ m \in Nat /\ DOMAIN text = 1 .. n
  BY LenProperties
<1>2. i \in 1 .. m
  OBVIOUS
<1>3. /\ Rest(text, x, i - 1) =
           {k \in 1 .. n + 1 : \A d \in (i - 1) + 1 .. m :
               k + (d - (i - 1) - 1) \in 1 .. n /\ text[k + (d - (i - 1) - 1)] = x[d]}
      /\ Rest(text, x, i) =
           {k \in 1 .. n + 1 : \A d \in i + 1 .. m :
               k + (d - i - 1) \in 1 .. n /\ text[k + (d - i - 1)] = x[d]}
  BY Zenon DEF Rest
<1> HIDE DEF n, m
<1>4. ASSUME NEW k \in Rest(text, x, i - 1)
      PROVE  k \in 1 .. n /\ k + 1 \in Rest(text, x, i) /\ text[k] = x[i]
  <2>1. /\ k \in 1 .. n + 1
        /\ \A d \in (i - 1) + 1 .. m :
               k + (d - (i - 1) - 1) \in 1 .. n /\ text[k + (d - (i - 1) - 1)] = x[d]
    BY <1>3
  <2>2. k \in 1 .. n /\ text[k] = x[i]
    <3>1. i \in (i - 1) + 1 .. m /\ k + (i - (i - 1) - 1) = k
      BY <1>1, <1>2, <2>1
    <3>2. QED
      BY <2>1, <3>1
  <2>3. ASSUME NEW d \in i + 1 .. m
        PROVE  (k + 1) + (d - i - 1) \in 1 .. n /\ text[(k + 1) + (d - i - 1)] = x[d]
    <3>1. d \in (i - 1) + 1 .. m /\ (k + 1) + (d - i - 1) = k + (d - (i - 1) - 1)
      BY <1>1, <1>2, <2>1
    <3>2. QED
      BY <2>1, <3>1
  <2>4. k + 1 \in 1 .. n + 1
    BY <1>1, <2>2
  <2>5. QED
    BY <1>3, <2>2, <2>3, <2>4
<1>5. ASSUME NEW k \in 1 .. n, k + 1 \in Rest(text, x, i), text[k] = x[i]
      PROVE  k \in Rest(text, x, i - 1)
  <2>1. \A d \in i + 1 .. m :
           (k + 1) + (d - i - 1) \in 1 .. n /\ text[(k + 1) + (d - i - 1)] = x[d]
    BY <1>3, <1>5
  <2>2. ASSUME NEW d \in (i - 1) + 1 .. m
        PROVE  k + (d - (i - 1) - 1) \in 1 .. n /\ text[k + (d - (i - 1) - 1)] = x[d]
    <3>1. CASE d = i
      <4>1. k + (d - (i - 1) - 1) = k
        BY <1>1, <1>2, <3>1
      <4>2. QED
        BY <1>5, <3>1, <4>1
    <3>2. CASE d # i
      <4>1. d \in i + 1 .. m /\ (k + 1) + (d - i - 1) = k + (d - (i - 1) - 1)
        BY <1>1, <1>2, <3>2
      <4>2. QED
        BY <2>1, <4>1
    <3>3. QED
      BY <3>1, <3>2
  <2>3. k \in 1 .. n + 1
    BY <1>1
  <2>4. QED
    BY <1>3, <2>2, <2>3
<1>6. QED
  BY <1>1, <1>4, <1>5

\* All of it is found where it is a part.
LEMMA RestIsPart ==
  ASSUME NEW text \in Seq(Char), NEW x \in Seq(Char)
  PROVE  HasPart(text, x) <=> Rest(text, x, 0) # {}
<1> DEFINE n == Len(text)
           m == Len(x)
<1>1. /\ n \in Nat /\ m \in Nat /\ \A i \in 1 .. n : text[i] \in Char
      /\ \A i \in 1 .. m : x[i] \in Char
  OBVIOUS
<1>2. Rest(text, x, 0) =
        {k \in 1 .. n + 1 : \A d \in 0 + 1 .. m :
            k + (d - 0 - 1) \in 1 .. n /\ text[k + (d - 0 - 1)] = x[d]}
  BY Zenon DEF Rest
<1>3. HasPart(text, x) <=> \E k \in 0 .. n - m : SubSeq(text, k + 1, k + m) = x
  BY Zenon DEF HasPart
<1>4. m = Len(x)
  OBVIOUS
<1> HIDE DEF n, m
<1>5. ASSUME NEW k \in 0 .. n - m, SubSeq(text, k + 1, k + m) = x
      PROVE  Rest(text, x, 0) # {}
  <2>1. \A i \in k + 1 .. k + m : text[i] \in Char
    <3>1. ASSUME NEW i \in k + 1 .. k + m PROVE i \in 1 .. n
      BY <1>1
    <3>2. QED
      BY <1>1, <3>1
  <2>2. k + 1 \in Int /\ k + m \in Int /\ (k + m) - (k + 1) + 1 = m
    BY <1>1
  <2> DEFINE z == SubSeq(text, k + 1, k + m)
  <2>3. \A i \in 1 .. (k + m) - (k + 1) + 1 : z[i] = text[(k + 1) + i - 1]
    BY <2>1, <2>2, SubSeqProperties
  <2> HIDE DEF z
  <2>4. z = x
    BY <1>5 DEF z
  <2>5. ASSUME NEW d \in 0 + 1 .. m
        PROVE  /\ (k + 1) + (d - 0 - 1) \in 1 .. n
               /\ text[(k + 1) + (d - 0 - 1)] = x[d]
    <3>1. /\ d \in 1 .. (k + m) - (k + 1) + 1 /\ (k + 1) + d - 1 = (k + 1) + (d - 0 - 1)
          /\ (k + 1) + (d - 0 - 1) \in 1 .. n
      BY <1>1
    <3>2. QED
      BY <2>3, <2>4, <3>1
  <2>6. k + 1 \in 1 .. n + 1
    BY <1>1
  <2>7. k + 1 \in Rest(text, x, 0)
    BY <1>2, <2>5, <2>6
  <2>8. QED
    BY <2>7
<1>6. ASSUME NEW k \in Rest(text, x, 0)
      PROVE  \E i \in 0 .. n - m : SubSeq(text, i + 1, i + m) = x
  <2> DEFINE i == k - 1
  <2>1. /\ k \in 1 .. n + 1
        /\ \A d \in 0 + 1 .. m :
             k + (d - 0 - 1) \in 1 .. n /\ text[k + (d - 0 - 1)] = x[d]
    BY <1>2
  <2>2. i \in Nat /\ \A d \in 1 .. m : k + (d - 0 - 1) = i + d
    BY <1>1, <2>1
  <2>3. \A d \in 1 .. m : i + d \in 1 .. n /\ text[i + d] = x[d]
    <3>1. ASSUME NEW d \in 1 .. m PROVE d \in 0 + 1 .. m
      BY <1>1
    <3>2. QED
      BY <2>1, <2>2, <3>1
  <2>4. i \in 0 .. n - m
    <3>1. CASE m = 0
      BY <1>1, <2>1, <3>1
    <3>2. CASE m # 0
      <4>1. m \in 1 .. m
        BY <1>1, <3>2
      <4>2. i + m \in 1 .. n
        BY <2>3, <4>1
      <4>3. QED
        BY <1>1, <2>2, <4>2
    <3>3. QED
      BY <3>1, <3>2
  <2> HIDE DEF i
  <2>5. SubSeq(text, i + 1, i + m) = x
    BY <1>4, <2>2, <2>3, SubSeqIs
  <2>6. QED
    BY <2>4, <2>5
<1>7. QED
  BY <1>3, <1>5, <1>6

\* What each character of a pattern asks of the text.
Steps(h, text, p, end) ==
    /\ h[end] = {Len(text) + 1}
    /\ \A j \in 1 .. end - 1 :
          /\ p[j] = "%" => h[j] = UNION {1 .. k : k \in h[j + 1]}
          /\ p[j] = "!" => h[j] = {i \in DOMAIN text : i + 1 \in h[j + 2]
                                                      /\ text[i] = p[j + 1]}
          /\ p[j] \notin {"%", "!", "_"} =>
                h[j] = {i \in DOMAIN text : i + 1 \in h[j + 1] /\ text[i] = p[j]}

\* Froms, step by step.
LEMMA FromsSteps ==
  ASSUME NEW text, NEW p, NEW end \in Nat, NEW h, Froms(h, text, p, end), end >= 1
  PROVE  Steps(h, text, p, end)
<1>1. h[end] = {Len(text) + 1}
  BY DEF Froms
<1>2. ASSUME NEW j \in 1 .. end - 1
      PROVE  h[j] = GoesOn(text, p, j, h[j + 1], h[j + 2])
  <2>1. j \in 1 .. end + 1 /\ j # end /\ ~(j > end)
    OBVIOUS
  <2>2. QED
    BY <2>1, Zenon DEF Froms
<1>3. ASSUME NEW j \in 1 .. end - 1, p[j] = "%"
      PROVE  h[j] = UNION {1 .. k : k \in h[j + 1]}
  BY <1>2, <1>3 DEF GoesOn
<1>4. ASSUME NEW j \in 1 .. end - 1, p[j] = "!"
      PROVE  h[j] = {i \in DOMAIN text : i + 1 \in h[j + 2] /\ text[i] = p[j + 1]}
  BY <1>2, <1>4 DEF GoesOn
<1>5. ASSUME NEW j \in 1 .. end - 1, p[j] \notin {"%", "!", "_"}
      PROVE  h[j] = {i \in DOMAIN text : i + 1 \in h[j + 1] /\ text[i] = p[j]}
  <2>1. h[j] = {i \in DOMAIN text : i + 1 \in h[j + 1] /\ p[j] \in {"_", text[i]}}
    BY <1>2, <1>5 DEF GoesOn
  <2>2. \A i : p[j] \in {"_", text[i]} <=> text[i] = p[j]
    BY <1>5
  <2>3. QED
    BY <2>1, <2>2
<1>6. QED
  BY <1>1, <1>3, <1>4, <1>5, Zenon DEF Steps

\* A text is LIKE the pattern that _prepare_cond_like makes of another if and only if
\* that other is a part of it, whatever "%", "_" and "!" the two contain
\* (objects.py:93).
THEOREM LikeIsPart ==
  ASSUME NEW text \in Seq(Char), NEW x \in Seq(Char)
  PROVE  Like(text, Pattern(x)) <=> HasPart(text, x)
<1> DEFINE n == Len(text)
           m == Len(x)
           p == Pattern(x)
<1>1. n \in Nat /\ m \in Nat /\ DOMAIN text = 1 .. n
  BY LenProperties
<1>2. PICK f : Shape(p, x, f)
  BY PatternShape
<1>3. /\ Len(p) = Len(f[m]) + 2 /\ p[1] = "%" /\ p[Len(p)] = "%"
      /\ Len(f[0]) = 0 /\ \A i \in 0 .. m : Len(f[i]) \in Nat
      /\ \A k \in 1 .. m :
          /\ Len(f[k]) = Len(f[k - 1]) + Len(EscapedChar(x[k]))
          /\ Len(f[k]) <= Len(f[m])
          /\ \A d \in 1 .. Len(EscapedChar(x[k])) :
                p[1 + (Len(f[k - 1]) + d)] = EscapedChar(x[k])[d]
  BY <1>2, Zenon DEF Shape
<1> HIDE DEF p
<1>4. Len(f[m]) \in Nat /\ Len(p) \in Nat /\ Len(p) >= 2
  <2> HIDE DEF m
  <2>1. m \in 0 .. m
    BY <1>1
  <2>2. QED
    BY <1>3, <2>1
<1> DEFINE end == Len(p) + 1
<1>5. PICK h : Froms(h, text, p, end) /\ (Like(text, p) <=> 1 \in h[1])
  BY <1>4, LikeFroms, Zenon
<1>6. end \in Nat /\ end >= 1
  BY <1>4
<1>7. /\ h[end] = {n + 1}
      /\ \A j \in 1 .. end - 1 :
           /\ p[j] = "%" => h[j] = UNION {1 .. k : k \in h[j + 1]}
           /\ p[j] = "!" => h[j] = {i \in DOMAIN text : i + 1 \in h[j + 2]
                                                       /\ text[i] = p[j + 1]}
           /\ p[j] \notin {"%", "!", "_"} =>
                 h[j] = {i \in DOMAIN text : i + 1 \in h[j + 1] /\ text[i] = p[j]}
  <2> HIDE DEF end
  <2>1. Steps(h, text, p, end)
    BY <1>5, <1>6, FromsSteps, Zenon
  <2>2. QED
    BY <2>1, Zenon DEF Steps
<1> DEFINE At(i) == Len(f[i]) + 2
<1>8. ASSUME NEW i \in 1 .. m
      PROVE  h[At(i - 1)] = {k \in DOMAIN text : k + 1 \in h[At(i)] /\ text[k] = x[i]}
  <2> DEFINE here == Len(f[i - 1])
             j == here + 2
             c == EscapedChar(x[i])
  <2>1. here \in Nat
    <3> HIDE DEF m
    <3>1. i - 1 \in 0 .. m
      BY <1>1
    <3>2. QED
      BY <1>3, <3>1
  <2>2. /\ Len(f[i]) = here + Len(c) /\ Len(f[i]) <= Len(f[m])
        /\ \A d \in 1 .. Len(c) : p[1 + (here + d)] = c[d]
    BY <1>3
  <2>3. At(i - 1) = j
    OBVIOUS
  <2>4. CASE x[i] \in {"!", "%", "_"}
    <3>1. c = <<"!", x[i]>>
      BY <2>4 DEF EscapedChar
    <3>2. Len(c) = 2 /\ c[1] = "!" /\ c[2] = x[i]
      BY <3>1
    <3> HIDE DEF here, c
    <3>3. p[1 + (here + 1)] = "!" /\ p[1 + (here + 2)] = x[i]
      BY <2>2, <3>2
    <3>4. /\ j \in 1 .. end - 1 /\ 1 + (here + 1) = j /\ 1 + (here + 2) = j + 1
          /\ At(i) = j + 2
      BY <1>3, <1>4, <2>1, <2>2, <3>2
    <3>5. p[j] = "!" /\ p[j + 1] = x[i]
      BY <3>3, <3>4
    <3> HIDE DEF j, end, At
    <3>6. h[j] = {k \in DOMAIN text : k + 1 \in h[j + 2] /\ text[k] = p[j + 1]}
      BY <1>7, <3>4, <3>5, Zenon
    <3>7. QED
      BY <2>3, <3>4, <3>5, <3>6
  <2>5. CASE x[i] \notin {"!", "%", "_"}
    <3>1. c = <<x[i]>>
      BY <2>5 DEF EscapedChar
    <3>2. Len(c) = 1 /\ c[1] = x[i]
      BY <3>1
    <3> HIDE DEF here, c
    <3>3. p[1 + (here + 1)] = x[i]
      BY <2>2, <3>2
    <3>4. /\ j \in 1 .. end - 1 /\ 1 + (here + 1) = j /\ At(i) = j + 1
      BY <1>3, <1>4, <2>1, <2>2, <3>2
    <3>5. p[j] = x[i] /\ p[j] \notin {"%", "!", "_"}
      BY <2>5, <3>3, <3>4
    <3> HIDE DEF j, end, At
    <3>6. h[j] = {k \in DOMAIN text : k + 1 \in h[j + 1] /\ text[k] = p[j]}
      BY <1>7, <3>4, <3>5, Zenon
    <3>7. QED
      BY <2>3, <3>4, <3>5, <3>6
  <2>6. QED
    BY <2>4, <2>5
<1>9. m = Len(x) /\ n = Len(text)
  OBVIOUS
<1>10. h[At(m)] = Rest(text, x, m)
  <2> DEFINE j == Len(p)
  <2>1. At(m) = j /\ j \in 1 .. end - 1 /\ j + 1 = end
    BY <1>3, <1>4
  <2> HIDE DEF j, At, end
  <2>2. h[j] = UNION {1 .. k : k \in h[j + 1]}
    BY <1>3, <1>7, <2>1, Zenon DEF j
  <2>3. h[j] = 1 .. n + 1
    <3>1. h[j + 1] = {n + 1}
      BY <1>7, <2>1
    <3>2. UNION {1 .. k : k \in {n + 1}} = 1 .. n + 1
      BY Zenon
    <3>3. QED
      BY <2>2, <3>1, <3>2
  <2>4. Rest(text, x, m) = 1 .. n + 1
    <3> HIDE DEF m, n
    <3>1. m + 1 .. m = {}
      BY <1>1
    <3>2. QED
      BY <1>9, <3>1 DEF Rest
  <2>5. QED
    BY <2>1, <2>3, <2>4
<1>11. h[At(0)] = Rest(text, x, 0)
  <2> DEFINE Good == {t \in Nat : t <= m => h[At(m - t)] = Rest(text, x, m - t)}
  <2>1. \A i \in 1 .. m : Rest(text, x, i - 1) =
           {k \in DOMAIN text : k + 1 \in Rest(text, x, i) /\ text[k] = x[i]}
    BY RestStep
  <2> HIDE DEF m, At
  <2>2. 0 \in Good
    <3>1. m - 0 = m
      BY <1>1
    <3>2. QED
      BY <1>10, <3>1
  <2>3. ASSUME NEW t \in 0 .. m - 1, t \in Good PROVE t + 1 \in Good
    <3> DEFINE i == m - t
    <3>1. i \in 1 .. m /\ m - (t + 1) = i - 1 /\ t <= m /\ t + 1 \in Nat
      BY <1>1, <2>3
    <3>2. h[At(i)] = Rest(text, x, i)
      BY <2>3, <3>1
    <3> HIDE DEF i
    <3>3. h[At(i - 1)] = Rest(text, x, i - 1)
      <4>1. h[At(i - 1)] = {k \in DOMAIN text : k + 1 \in h[At(i)] /\ text[k] = x[i]}
        BY <1>8, <3>1
      <4>2. Rest(text, x, i - 1) =
               {k \in DOMAIN text : k + 1 \in Rest(text, x, i) /\ text[k] = x[i]}
        BY <2>1, <3>1
      <4>3. QED
        BY <3>2, <4>1, <4>2
    <3>4. QED
      BY <3>1, <3>3
  <2>4. Good \in SUBSET Nat
    OBVIOUS
  <2>5. m - m = 0 /\ m <= m
    BY <1>1
  <2> HIDE DEF Good
  <2>6. \A t \in 0 .. m : t \in Good
    BY <1>1, <2>2, <2>3, <2>4, Counting
  <2>7. m \in Good
    BY <1>1, <2>6
  <2>8. h[At(m - m)] = Rest(text, x, m - m)
    BY <2>5, <2>7, Zenon DEF Good
  <2>9. QED
    BY <2>5, <2>8
<1>12. h[2] = Rest(text, x, 0)
  BY <1>3, <1>11
<1>13. h[1] = UNION {1 .. k : k \in h[2]}
  <2>1. 1 \in 1 .. end - 1 /\ 1 + 1 = 2
    BY <1>4
  <2> HIDE DEF end
  <2>2. QED
    BY <1>3, <1>7, <2>1
<1>14. 1 \in h[1] <=> Rest(text, x, 0) # {}
  <2>1. \A k \in Rest(text, x, 0) : k \in Nat /\ k >= 1
    BY <1>1 DEF Rest
  <2>2. QED
    BY <1>12, <1>13, <2>1
<1>15. HasPart(text, x) <=> Rest(text, x, 0) # {}
  BY RestIsPart
<1>16. QED
  BY <1>5, <1>14, <1>15 DEF p

-----------------------------------------------------------------------------
(* Reading a statement                                                     *)

Frame == [some : BOOLEAN, last : BOOLEAN, due : BOOLEAN]
Position == [used : Nat, nest : Seq(Frame)]
Token == ClauseType \cup {Mark(k) : k \in Marks}
Parameter == AnyValue \cup Seq(Sign)

\* What is put in front of a sequence is its head, and the sequence its tail.
LEMMA ConsIs ==
  ASSUME NEW T, NEW e \in T, NEW x \in Seq(T)
  PROVE  /\ <<e>> \o x \in Seq(T) /\ <<e>> \o x # <<>> /\ Len(<<e>> \o x) = Len(x) + 1
         /\ Head(<<e>> \o x) = e /\ Tail(<<e>> \o x) = x
<1> DEFINE u == <<e>>
           z == u \o x
<1>1. u \in Seq(T) /\ Len(u) = 1 /\ u[1] = e /\ Len(x) \in Nat
  OBVIOUS
<1> HIDE DEF u
<1>2. Joined(u, x) /\ z \in Seq(T)
  BY <1>1, TwoJoined, Zenon
<1>3. /\ Len(z) = 1 + Len(x) /\ \A d \in 1 .. 1 : z[d] = u[d]
      /\ \A d \in 1 .. Len(x) : z[1 + d] = x[d]
  BY <1>1, <1>2, Zenon DEF Joined
<1> HIDE DEF z
<1>4. z # <<>> /\ z[1] = e
  BY <1>1, <1>2, <1>3, EmptySeq
<1>5. Head(z) = e
  BY <1>2, <1>4
<1>6. /\ Tail(z) \in Seq(T) /\ Len(Tail(z)) = Len(z) - 1
      /\ \A i \in 1 .. Len(Tail(z)) : Tail(z)[i] = z[i + 1]
  BY <1>2, <1>4, HeadTailProperties
<1>7. Tail(z) = x
  <2> DEFINE t == Tail(z)
  <2>1. t \in Seq(T) /\ Len(t) = Len(x)
    BY <1>1, <1>3, <1>6
  <2>2. \A i \in 1 .. Len(t) : t[i] = x[i]
    BY <1>1, <1>3, <1>6
  <2> HIDE DEF t
  <2>3. t = x
    BY <2>1, <2>2, SeqEqual
  <2>4. QED
    BY <2>3 DEF t
<1>8. QED
  BY <1>1, <1>2, <1>3, <1>4, <1>5, <1>7 DEF u, z

\* The marks stand between the elements.
Between(z, q, n, mark) ==
    /\ Len(z) = 2 * n - 1
    /\ \A i \in 1 .. n : z[2 * i - 1] = q[i]
    /\ \A i \in 1 .. n - 1 : z[2 * i] = Mark(mark)

\* Clauses that are joined.
LEMMA JoinIs ==
  ASSUME NEW q \in Seq(ClauseType), q # <<>>, NEW mark \in Marks
  PROVE  /\ Join(q, mark) \in Seq(Token) /\ Join(q, mark) # <<>> /\ Len(q) \in Nat \ {0}
         /\ Between(Join(q, mark), q, Len(q), mark)
<1> DEFINE n == Len(q)
           z == Join(q, mark)
<1>1. n \in Nat \ {0} /\ \A i \in 1 .. n : q[i] \in ClauseType
  BY EmptySeq
<1>2. z = [i \in 1 .. 2 * n - 1 |-> IF i % 2 = 1 THEN q[(i + 1) \div 2] ELSE Mark(mark)]
  BY DEF Join
<1> HIDE DEF n, z
<1>3. 2 * n - 1 \in Nat /\ 2 * n - 1 # 0
  BY <1>1
<1>4. ASSUME NEW i \in 1 .. 2 * n - 1 PROVE i % 2 = 1 => (i + 1) \div 2 \in 1 .. n
  BY <1>1
<1>5. \A i \in 1 .. 2 * n - 1 : z[i] \in Token
  BY <1>1, <1>2, <1>4 DEF Token
<1>6. z \in Seq(Token) /\ Len(z) = 2 * n - 1
  <2>1. z \in [1 .. 2 * n - 1 -> Token]
    BY <1>2, <1>5
  <2>2. QED
    BY <1>3, <2>1, SeqDef
<1>7. ASSUME NEW i \in 1 .. n PROVE z[2 * i - 1] = q[i]
  <2>1. 2 * i - 1 \in 1 .. 2 * n - 1 /\ (2 * i - 1) % 2 = 1 /\ ((2 * i - 1) + 1) \div 2 = i
    BY <1>1
  <2>2. QED
    BY <1>2, <2>1
<1>8. ASSUME NEW i \in 1 .. n - 1 PROVE z[2 * i] = Mark(mark)
  <2>1. 2 * i \in 1 .. 2 * n - 1 /\ (2 * i) % 2 # 1
    BY <1>1
  <2>2. QED
    BY <1>2, <2>1
<1>9. z # <<>>
  BY <1>3, <1>6, EmptySeq
<1>10. QED
  BY <1>1, <1>6, <1>7, <1>8, <1>9 DEF Between, n, z

\* Where the reading is: u places are passed, e is the innermost expression.
At(x, u, e, outer) ==
    /\ x.used = u /\ x.nest = <<e>> \o outer
    /\ u \in Nat /\ e \in Frame /\ outer \in Seq(Frame)

\* A clause is an operand of the innermost expression.
LEMMA ReadClause ==
  ASSUME NEW x, NEW u, NEW e, NEW outer, At(x, u, e, outer), e.due,
         NEW token \in ClauseType, NEW params, NEW row,
         NEW piece, SubSeq(params, u + 1, u + token.places) = piece
  PROVE  At(Read(x, token, params, row), u + token.places,
            Operand(e, TrueOf(token, piece, row[token.column])), outer)
<1> DEFINE b == TrueOf(token, piece, row[token.column])
           c == token.kind \notin Marks /\ b
           y == Read(x, token, params, row)
           g == Operand(e, b)
<1>1. token.kind \notin Marks /\ token.places \in Nat /\ token.kind \notin {"(", ")", "and", "or"}
  BY DEF ClauseType, Kind, Marks
<1>2. /\ x.used = u /\ x.nest = <<e>> \o outer
      /\ u \in Nat /\ e \in Frame /\ outer \in Seq(Frame)
  BY DEF At
<1>3. y.used = u + token.places /\ y.nest = Parse(x.nest, token.kind, c)
  BY <1>2 DEF Read
<1>4. g \in Frame /\ Operand(e, c) = g
  <2> HIDE DEF b
  <2>1. QED
    BY <1>1, <1>2 DEF Operand, Frame
<1> HIDE DEF y, b, c
<1>5. x.nest # <<>> /\ Head(x.nest) = e /\ Tail(x.nest) = outer
  BY <1>2, ConsIs
<1>6. Parse(x.nest, token.kind, c) = <<Operand(e, c)>> \o outer
  BY <1>1, <1>5 DEF Parse
<1>7. u + token.places \in Nat
  BY <1>1, <1>2
<1>8. y.nest = <<g>> \o outer
  BY <1>3, <1>4, <1>6, Zenon
<1> HIDE DEF g
<1>9. At(y, u + token.places, g, outer)
  BY <1>2, <1>3, <1>4, <1>7, <1>8, Zenon DEF At
<1>10. QED
  BY <1>9, Zenon DEF y, g, b

\* A mark takes no place.
LEMMA ReadMark ==
  ASSUME NEW x, NEW u, NEW e, NEW outer, At(x, u, e, outer), NEW kind \in Marks,
         NEW params, NEW row
  PROVE  LET y == Read(x, Mark(kind), params, row)
         IN  /\ y.used = u
             /\ \E b : y.nest = Parse(x.nest, kind, b)
             /\ x.nest # <<>> /\ Head(x.nest) = e /\ Tail(x.nest) = outer
<1> DEFINE m == Mark(kind)
           b == m.kind \notin Marks
                /\ TrueOf(m, SubSeq(params, x.used + 1, x.used + m.places), row[m.column])
<1>1. /\ x.used = u /\ x.nest = <<e>> \o outer
      /\ u \in Nat /\ e \in Frame /\ outer \in Seq(Frame)
  BY DEF At
<1>2. m.kind = kind /\ m.places = 0
  BY DEF Mark
<1>3. Read(x, m, params, row) = [used |-> x.used + m.places, nest |-> Parse(x.nest, m.kind, b)]
  BY DEF Read
<1> HIDE DEF m, b
<1>4. /\ Read(x, m, params, row).used = u
      /\ Read(x, m, params, row).nest = Parse(x.nest, kind, b)
  BY <1>1, <1>2, <1>3
<1>5. x.nest # <<>> /\ Head(x.nest) = e /\ Tail(x.nest) = outer
  BY <1>1, ConsIs
<1>6. QED
  BY <1>4, <1>5, Zenon DEF m

\* What "and", "or", "(" and ")" make of the expressions that are open.
LEMMA ReadMarks ==
  ASSUME NEW x, NEW u, NEW e, NEW outer, At(x, u, e, outer), NEW params, NEW row
  PROVE  /\ ~e.due => At(Read(x, Mark("and"), params, row), u, [e EXCEPT !.due = TRUE], outer)
         /\ ~e.due => At(Read(x, Mark("or"), params, row), u,
                         [some |-> Holds(e), last |-> TRUE, due |-> TRUE], outer)
         /\ e.due => At(Read(x, Mark("("), params, row), u, Open, <<e>> \o outer)
<1>1. u \in Nat /\ e \in Frame /\ outer \in Seq(Frame) /\ x.nest = <<e>> \o outer
  BY DEF At
<1>2. ASSUME ~e.due
      PROVE  At(Read(x, Mark("and"), params, row), u, [e EXCEPT !.due = TRUE], outer)
  <2> DEFINE y == Read(x, Mark("and"), params, row)
  <2>1. PICK b : y.used = u /\ y.nest = Parse(x.nest, "and", b) /\ x.nest # <<>>
                 /\ Head(x.nest) = e /\ Tail(x.nest) = outer
    BY ReadMark DEF Marks
  <2> HIDE DEF y
  <2>2. y.nest = <<[e EXCEPT !.due = TRUE]>> \o outer
    BY <1>2, <2>1 DEF Parse
  <2>3. [e EXCEPT !.due = TRUE] \in Frame
    BY <1>1 DEF Frame
  <2>4. QED
    BY <1>1, <2>1, <2>2, <2>3, Zenon DEF At, y
<1>3. ASSUME ~e.due
      PROVE  At(Read(x, Mark("or"), params, row), u,
                [some |-> Holds(e), last |-> TRUE, due |-> TRUE], outer)
  <2> DEFINE y == Read(x, Mark("or"), params, row)
  <2>1. PICK b : y.used = u /\ y.nest = Parse(x.nest, "or", b) /\ x.nest # <<>>
                 /\ Head(x.nest) = e /\ Tail(x.nest) = outer
    BY ReadMark DEF Marks
  <2> HIDE DEF y
  <2>2. y.nest = <<[some |-> Holds(e), last |-> TRUE, due |-> TRUE]>> \o outer
    BY <1>3, <2>1 DEF Parse
  <2>3. [some |-> Holds(e), last |-> TRUE, due |-> TRUE] \in Frame
    BY <1>1 DEF Frame, Holds
  <2>4. QED
    BY <1>1, <2>1, <2>2, <2>3, Zenon DEF At, y
<1>4. ASSUME e.due PROVE At(Read(x, Mark("("), params, row), u, Open, <<e>> \o outer)
  <2> DEFINE y == Read(x, Mark("("), params, row)
  <2>1. PICK b : y.used = u /\ y.nest = Parse(x.nest, "(", b) /\ x.nest # <<>>
                 /\ Head(x.nest) = e /\ Tail(x.nest) = outer
    BY ReadMark DEF Marks
  <2> HIDE DEF y
  <2>2. y.nest = <<Open>> \o x.nest
    BY <1>4, <2>1 DEF Parse, Marks
  <2>3. Open \in Frame /\ <<e>> \o outer \in Seq(Frame)
    BY <1>1, ConsIs DEF Frame, Open
  <2>4. QED
    BY <1>1, <2>1, <2>2, <2>3, Zenon DEF At, y
<1>5. QED
  BY <1>2, <1>3, <1>4

\* What is in parentheses is an operand of the expression around it.
LEMMA ReadClosing ==
  ASSUME NEW x, NEW u, NEW e, NEW g, NEW outer, g \in Frame, outer \in Seq(Frame),
         At(x, u, e, <<g>> \o outer), ~e.due, NEW params, NEW row
  PROVE  At(Read(x, Mark(")"), params, row), u, Operand(g, Holds(e)), outer)
<1> DEFINE y == Read(x, Mark(")"), params, row)
           o == <<g>> \o outer
<1>1. u \in Nat /\ e \in Frame
  BY DEF At
<1>2. o \in Seq(Frame) /\ o # <<>> /\ Head(o) = g /\ Tail(o) = outer
  BY ConsIs
<1> HIDE DEF o
<1>7. At(x, u, e, o) /\ ")" \in Marks
  BY Zenon DEF o, Marks
<1>3. PICK b : y.used = u /\ y.nest = Parse(x.nest, ")", b) /\ x.nest # <<>>
               /\ Head(x.nest) = e /\ Tail(x.nest) = o
  BY <1>7, ReadMark
<1> HIDE DEF y
<1>4. y.nest = <<Operand(g, Holds(e))>> \o outer
  BY <1>2, <1>3 DEF Parse
<1>5. Operand(g, Holds(e)) \in Frame
  BY <1>1 DEF Frame, Operand, Holds
<1>6. QED
  BY <1>1, <1>3, <1>4, <1>5, Zenon DEF At, y

\* Whatever the token, the reading goes on.
LEMMA ReadTyped ==
  ASSUME NEW at \in Position, NEW token \in Token, NEW params, NEW row
  PROVE  Read(at, token, params, row) \in Position
<1> DEFINE b == token.kind \notin Marks
                /\ TrueOf(token, SubSeq(params, at.used + 1, at.used + token.places),
                          row[token.column])
           z == Parse(at.nest, token.kind, b)
<1>1. at.used \in Nat /\ at.nest \in Seq(Frame) /\ token.places \in Nat
  BY DEF Position, Token, ClauseType, Mark
<1>2. b \in BOOLEAN
  OBVIOUS
<1>3. Read(at, token, params, row) = [used |-> at.used + token.places, nest |-> z]
  BY DEF Read
<1> HIDE DEF b
<1>4. z \in Seq(Frame)
  <2> DEFINE e == Head(at.nest)
             outer == Tail(at.nest)
  <2>1. CASE at.nest = <<>>
    BY <1>1, <2>1 DEF Parse
  <2>2. CASE at.nest # <<>>
    <3>1. e \in Frame /\ outer \in Seq(Frame)
      BY <1>1, <2>2, HeadTailProperties
    <3>2. ASSUME NEW g \in Frame, NEW o \in Seq(Frame) PROVE <<g>> \o o \in Seq(Frame)
      BY ConsIs
    <3>3. outer # <<>> => Head(outer) \in Frame /\ Tail(outer) \in Seq(Frame)
      BY <3>1, HeadTailProperties
    <3>4. \A g \in Frame, c \in BOOLEAN : Operand(g, c) \in Frame /\ Holds(g) \in BOOLEAN
      BY DEF Frame, Operand, Holds
    <3>5. /\ Open \in Frame /\ [e EXCEPT !.due = TRUE] \in Frame
          /\ [some |-> Holds(e), last |-> TRUE, due |-> TRUE] \in Frame
      BY <3>1, <3>4 DEF Frame, Open
    <3>6. /\ <<Open>> \o at.nest \in Seq(Frame)
          /\ <<[e EXCEPT !.due = TRUE]>> \o outer \in Seq(Frame)
          /\ <<[some |-> Holds(e), last |-> TRUE, due |-> TRUE]>> \o outer \in Seq(Frame)
          /\ <<Operand(e, b)>> \o outer \in Seq(Frame)
          /\ outer # <<>> => <<Operand(Head(outer), Holds(e))>> \o Tail(outer) \in Seq(Frame)
      BY <1>1, <1>2, <3>1, <3>2, <3>3, <3>4, <3>5
    <3>7. <<>> \in Seq(Frame)
      OBVIOUS
    <3>8. z \in {<<Open>> \o at.nest, <<[e EXCEPT !.due = TRUE]>> \o outer,
                 <<[some |-> Holds(e), last |-> TRUE, due |-> TRUE]>> \o outer,
                 <<Operand(e, b)>> \o outer, <<>>}
          \/ (outer # <<>> /\ z = <<Operand(Head(outer), Holds(e))>> \o Tail(outer))
      BY <2>2 DEF Parse, Marks
    <3>9. QED
      BY <3>6, <3>7, <3>8
  <2>3. QED
    BY <2>1, <2>2
<1> HIDE DEF z
<1>5. QED
  BY <1>1, <1>3, <1>4 DEF Position

\* r[i] is where the reading of the statement is after i tokens.
Reads(r, s, row) ==
    /\ r \in [0 .. Len(s.where) -> Position]
    /\ r[0] = [used |-> Len(s.sets), nest |-> <<Open>>]
    /\ \A i \in 1 .. Len(s.where) : r[i] = Read(r[i - 1], s.where[i], s.params, row)

\* A statement is read so.
LEMMA EvaluatedReads ==
  ASSUME NEW s, NEW row, s.where \in Seq(Token), Len(s.sets) \in Nat
  PROVE  \E r : Reads(r, s, row) /\ Evaluated(s, row) = r[Len(s.where)]
<1> DEFINE n == Len(s.where)
           w == s.where
           b == [used |-> Len(s.sets), nest |-> <<Open>>]
           G == [i \in 1 .. n |-> [x \in Position |-> Read(x, w[i], s.params, row)]]
           D(h) == h = [i \in 0 .. n |-> IF i = 0 THEN b ELSE Read(h[i - 1], w[i], s.params, row)]
<1>1. n \in Nat /\ \A i \in 1 .. n : w[i] \in Token
  OBVIOUS
<1>2. b \in Position
  <2>1. <<Open>> \in Seq(Frame)
    BY DEF Open, Frame
  <2>2. QED
    BY <2>1 DEF Position
<1>3. \A i \in 1 .. n : \A x \in Position : Read(x, w[i], s.params, row) \in Position
  BY <1>1, ReadTyped
<1>4. G \in [1 .. n -> [Position -> Position]]
  BY <1>3
<1>5. \A i \in 1 .. n, x \in Position : G[i][x] = Read(x, w[i], s.params, row)
  OBVIOUS
<1>6. Evaluated(s, row) = (CHOOSE h : D(h))[n]
  BY DEF Evaluated
<1> HIDE DEF n, w, b, G
<1>7. PICK f : Iterates(f, n, Position, b, G)
  BY <1>1, <1>2, <1>4, Recursion
<1>8. f \in [0 .. n -> Position] /\ f[0] = b /\ \A i \in 1 .. n : f[i] = G[i][f[i - 1]]
  BY <1>7 DEF Iterates
<1>9. \A i \in 1 .. n : f[i] = Read(f[i - 1], w[i], s.params, row)
  <2>1. \A i \in 1 .. n : i - 1 \in 0 .. n
    BY <1>1
  <2>2. QED
    BY <1>5, <1>8, <2>1
<1>10. D(f)
  <2>1. ASSUME NEW i \in 0 .. n
        PROVE  f[i] = IF i = 0 THEN b ELSE Read(f[i - 1], w[i], s.params, row)
    <3>1. i # 0 => i \in 1 .. n
      BY <1>1
    <3>2. QED
      BY <1>8, <1>9, <3>1
  <2>2. QED
    BY <1>8, <2>1
<1>11. PICK h : h = (CHOOSE k : D(k))
  OBVIOUS
<1>12. D(h)
  <2> HIDE DEF D
  <2>1. QED
    BY <1>10, <1>11
<1>13. /\ h[0] = b /\ \A i \in 1 .. n : h[i] = Read(h[i - 1], w[i], s.params, row)
       /\ DOMAIN h = 0 .. n
  <2>1. 0 \in 0 .. n /\ \A i \in 1 .. n : i \in 0 .. n /\ i # 0
    BY <1>1
  <2>2. QED
    BY <1>12, <2>1
<1> HIDE DEF D
<1>14. \A i \in 0 .. n : h[i] = f[i]
  <2> DEFINE Good == {i \in Nat : i <= n => h[i] = f[i]}
  <2>1. 0 \in Good
    BY <1>8, <1>13
  <2>2. ASSUME NEW i \in 0 .. n - 1, i \in Good PROVE i + 1 \in Good
    <3>1. i + 1 \in 1 .. n /\ (i + 1) - 1 = i /\ h[i] = f[i] /\ i + 1 \in Nat
      BY <1>1, <2>2
    <3>2. h[i + 1] = f[i + 1]
      BY <1>9, <1>13, <3>1, Zenon
    <3>3. QED
      BY <3>1, <3>2
  <2>3. Good \in SUBSET Nat
    OBVIOUS
  <2> HIDE DEF Good
  <2>4. \A i \in 0 .. n : i \in Good
    BY <1>1, <2>1, <2>2, <2>3, Counting
  <2>5. QED
    BY <1>1, <2>4 DEF Good
<1>15. Evaluated(s, row) = f[n]
  BY <1>1, <1>6, <1>11, <1>14
<1>16. Reads(f, s, row)
  BY <1>8, <1>9, Zenon DEF Reads, n, w, b
<1>17. QED
  BY <1>15, <1>16 DEF n

\* The clauses q, joined by mark, follow the first b tokens of the statement s, with
\* pieces[i] for the i-th among the parameters that follow the first a.
Stands(s, b, a, q, pieces, f, mark) ==
    /\ b \in Nat /\ a \in Nat /\ mark \in {"and", "or"}
    /\ q \in Seq(ClauseType) /\ q # <<>>
    /\ Joins(f, pieces, Parameter) /\ Len(pieces) = Len(q)
    /\ \A i \in 1 .. Len(q) : q[i].places = Len(pieces[i])
    /\ \A i \in 1 .. Len(q) : s.where[b + (2 * i - 1)] = q[i]
    /\ \A i \in 1 .. Len(q) - 1 : s.where[b + 2 * i] = Mark(mark)
    /\ b + (2 * Len(q) - 1) <= Len(s.where)
    /\ \A d \in 1 .. Len(f[Len(q)]) : s.params[a + d] = f[Len(q)][d]

\* What the i first of these clauses say of the row.
Together(q, pieces, row, mark, i) ==
    IF mark = "and"
    THEN \A k \in 1 .. i : TrueOf(q[k], pieces[k], row[q[k].column])
    ELSE \E k \in 1 .. i : TrueOf(q[k], pieces[k], row[q[k].column])

\* An expression that says this, with an "or" only if the clauses are joined so.
Says(x, u, outer, mark, truth) ==
    \E e \in Frame : /\ At(x, u, e, outer) /\ ~e.due
                     /\ Holds(e) <=> truth
                     /\ mark = "and" => ~e.some

\* One clause more.
LEMMA SaysMore ==
  ASSUME NEW x, NEW u, NEW e, NEW outer, At(x, u, e, outer), e.due,
         NEW token \in ClauseType, NEW params, NEW row,
         NEW piece, SubSeq(params, u + 1, u + token.places) = piece,
         NEW mark, mark = "and" => ~e.some, NEW truth,
         (e.some \/ (e.last /\ TrueOf(token, piece, row[token.column]))) <=> truth
  PROVE  Says(Read(x, token, params, row), u + token.places, outer, mark, truth)
<1> DEFINE b == TrueOf(token, piece, row[token.column])
           y == Read(x, token, params, row)
           v == u + token.places
           g == Operand(e, b)
<1>1. At(y, v, g, outer)
  BY ReadClause
<1> HIDE DEF b, y, v
<1>2. g.some = e.some /\ (g.last <=> e.last /\ b) /\ ~g.due
  BY DEF Operand
<1>3. g \in Frame
  BY <1>1 DEF At
<1>4. (Holds(g) <=> truth) /\ (mark = "and" => ~g.some)
  BY <1>2 DEF Holds, b
<1> HIDE DEF g
<1>5. Says(y, v, outer, mark, truth)
  BY <1>1, <1>2, <1>3, <1>4, Zenon DEF Says
<1>6. QED
  BY <1>5, Zenon DEF y, v

\* Clauses that are joined say together what their mark says of them.
LEMMA JoinedSay ==
  ASSUME NEW r, NEW s, NEW row, NEW b, NEW a, NEW q, NEW pieces, NEW f, NEW mark,
         NEW outer, Reads(r, s, row), Stands(s, b, a, q, pieces, f, mark),
         Len(s.where) \in Nat, At(r[b], a, Open, outer)
  PROVE  Says(r[b + (2 * Len(q) - 1)], a + Len(f[Len(q)]), outer, mark,
              Together(q, pieces, row, mark, Len(q)))
<1> DEFINE n == Len(q)
           w == s.where
           T(i) == TrueOf(q[i], pieces[i], row[q[i].column])
           Here(i) == Says(r[b + (2 * i - 1)], a + Len(f[i]), outer, mark,
                           Together(q, pieces, row, mark, i))
<1>1. /\ b \in Nat /\ a \in Nat /\ mark \in {"and", "or"}
      /\ q \in Seq(ClauseType) /\ q # <<>>
      /\ Joins(f, pieces, Parameter) /\ Len(pieces) = n
      /\ \A i \in 1 .. n : q[i].places = Len(pieces[i])
      /\ \A i \in 1 .. n : w[b + (2 * i - 1)] = q[i]
      /\ \A i \in 1 .. n - 1 : w[b + 2 * i] = Mark(mark)
      /\ b + (2 * n - 1) <= Len(w)
      /\ \A d \in 1 .. Len(f[n]) : s.params[a + d] = f[n][d]
  BY Zenon DEF Stands
<1>2. n \in Nat \ {0} /\ \A i \in 1 .. n : q[i] \in ClauseType
  BY <1>1, EmptySeq
<1>3. /\ Len(f[0]) = 0 /\ \A i \in 0 .. n : Len(f[i]) \in Nat
      /\ \A i \in 1 .. n : pieces[i] \in Seq(Parameter) /\ Len(pieces[i]) \in Nat
  BY <1>1, JoinsTyped, Zenon
<1>4. \A i \in 1 .. n : Adds(f, pieces, i) /\ Found(f, pieces, i)
  BY <1>1, JoinsStep, JoinsPieces, Zenon
<1>5. \A i \in 1 .. Len(w) : r[i] = Read(r[i - 1], w[i], s.params, row)
  BY Zenon DEF Reads
<1>6. \A i \in 1 .. n : Len(f[i]) = Len(f[i - 1]) + Len(pieces[i])
  BY <1>4, Zenon DEF Adds
<1>15. n = Len(pieces) /\ Len(w) \in Nat
  BY <1>1
<1> HIDE DEF n, w
<1>7. ASSUME NEW i \in 1 .. n
      PROVE  LET u == a + Len(f[i - 1])
             IN  SubSeq(s.params, u + 1, u + q[i].places) = pieces[i]
  <2> DEFINE here == Len(f[i - 1])
             width == Len(pieces[i])
             u == a + here
  <2>1. i - 1 \in 0 .. n /\ n \in 0 .. n
    BY <1>2
  <2>2. here \in Nat /\ width \in Nat /\ q[i].places = width /\ Len(f[n]) \in Nat
    BY <1>1, <1>3, <2>1
  <2>3. here + width <= Len(f[n]) /\ \A d \in 1 .. width : f[n][here + d] = pieces[i][d]
    <3>1. Found(f, pieces, i) /\ Adds(f, pieces, i)
      BY <1>4
    <3>2. QED
      BY <1>15, <3>1, Zenon DEF Found, Adds
  <2>4. pieces[i] \in Seq(Parameter) /\ width = Len(pieces[i])
    BY <1>3
  <2> HIDE DEF here, width
  <2>5. u \in Nat
    BY <1>1, <2>2
  <2>6. ASSUME NEW d \in 1 .. width PROVE s.params[u + d] = pieces[i][d]
    <3>1. here + d \in 1 .. Len(f[n]) /\ u + d = a + (here + d)
      BY <1>1, <2>2, <2>3
    <3>2. QED
      BY <1>1, <2>3, <3>1
  <2> HIDE DEF u
  <2>7. SubSeq(s.params, u + 1, u + Len(pieces[i])) = pieces[i]
    <3> DEFINE z == pieces[i]
               p == s.params
    <3>1. z \in Seq(Parameter) /\ \A d \in 1 .. Len(z) : p[u + d] = z[d]
      BY <2>4, <2>6
    <3> HIDE DEF z, p
    <3>2. SubSeq(p, u + 1, u + Len(z)) = z
      BY <2>5, <3>1, SubSeqIs
    <3>3. QED
      BY <3>2 DEF z, p
  <2>8. QED
    BY <2>2, <2>4, <2>7 DEF u, here
<1>8. \A i \in 1 .. n : T(i) <=> TrueOf(q[i], pieces[i], row[q[i].column])
  OBVIOUS
<1>9. ASSUME NEW i \in 1 .. n, NEW x, NEW e, At(x, a + Len(f[i - 1]), e, outer), e.due,
             mark = "and" => ~e.some,
             (e.some \/ (e.last /\ T(i))) <=> Together(q, pieces, row, mark, i),
             r[b + (2 * i - 1)] = Read(x, q[i], s.params, row)
      PROVE  Here(i)
  <2> DEFINE u == a + Len(f[i - 1])
             p == pieces[i]
             t == q[i]
             truth == Together(q, pieces, row, mark, i)
  <2>1. SubSeq(s.params, u + 1, u + t.places) = p
    BY <1>7
  <2>2. t \in ClauseType /\ u + t.places = a + Len(f[i])
    <3>1. i - 1 \in 0 .. n
      BY <1>2
    <3>2. Len(f[i - 1]) \in Nat /\ Len(pieces[i]) \in Nat
      BY <1>3, <3>1
    <3>3. t.places = Len(pieces[i]) /\ Len(f[i]) = Len(f[i - 1]) + Len(pieces[i])
      BY <1>1, <1>6, Zenon
    <3> DEFINE here == Len(f[i - 1])
               width == Len(pieces[i])
    <3>4. here \in Nat /\ width \in Nat /\ a \in Nat
      BY <1>1, <3>2
    <3>5. t.places = width /\ Len(f[i]) = here + width /\ u = a + here
      BY <3>3
    <3> HIDE DEF here, width, u, t
    <3>6. u + t.places = a + Len(f[i])
      BY <3>4, <3>5
    <3>7. QED
      BY <1>2, <3>6 DEF t
  <2>3. At(x, u, e, outer) /\ ((e.some \/ (e.last /\ TrueOf(t, p, row[t.column]))) <=> truth)
    BY <1>9
  <2> HIDE DEF u, p, t, truth
  <2>4. Says(Read(x, t, s.params, row), u + t.places, outer, mark, truth)
    BY <1>9, <2>1, <2>2, <2>3, SaysMore
  <2>5. QED
    BY <1>9, <2>2, <2>4 DEF t, truth
<1>10. Here(1)
  <2>1. 1 \in 1 .. n /\ b + (2 * 1 - 1) \in 1 .. Len(w) /\ (b + (2 * 1 - 1)) - 1 = b /\ 1 - 1 = 0
        /\ a + 0 = a
    BY <1>1, <1>2, <1>15
  <2>2. r[b + (2 * 1 - 1)] = Read(r[b], q[1], s.params, row)
    BY <1>1, <1>5, <2>1
  <2>3. At(r[b], a + Len(f[1 - 1]), Open, outer)
    BY <1>3, <2>1
  <2>4. Open.due /\ ~Open.some /\ Open.last
    BY DEF Open
  <2>5. T(1) <=> Together(q, pieces, row, mark, 1)
    BY DEF Together
  <2> HIDE DEF T, Here
  <2>6. QED
    BY <1>9, <2>1, <2>2, <2>3, <2>4, <2>5
<1>11. ASSUME NEW i \in 1 .. n - 1, Here(i) PROVE Here(i + 1)
  <2> DEFINE k == b + (2 * i - 1)
             truth == Together(q, pieces, row, mark, i)
  <2>1. /\ k \in 0 .. Len(w) /\ b + 2 * i \in 1 .. Len(w) /\ (b + 2 * i) - 1 = k
        /\ b + (2 * (i + 1) - 1) \in 1 .. Len(w) /\ (b + (2 * (i + 1) - 1)) - 1 = b + 2 * i
        /\ i \in 1 .. n /\ i + 1 \in 1 .. n /\ (i + 1) - 1 = i
    BY <1>1, <1>2, <1>15
  <2>2. PICK e \in Frame : /\ At(r[k], a + Len(f[i]), e, outer) /\ ~e.due
                           /\ Holds(e) <=> truth
                           /\ mark = "and" => ~e.some
    BY <1>11 DEF Says
  <2> DEFINE y == Read(r[k], Mark(mark), s.params, row)
  <2>3. r[b + 2 * i] = y
    BY <1>1, <1>5, <2>1
  <2>4. r[b + (2 * (i + 1) - 1)] = Read(y, q[i + 1], s.params, row)
    BY <1>1, <1>5, <2>1, <2>3
  <2> HIDE DEF k
  <2>5. /\ mark = "and" => At(y, a + Len(f[i]), [e EXCEPT !.due = TRUE], outer)
        /\ mark = "or" => At(y, a + Len(f[i]),
                             [some |-> Holds(e), last |-> TRUE, due |-> TRUE], outer)
    BY <2>2, ReadMarks
  <2> HIDE DEF y
  <2>6. CASE mark = "and"
    <3> DEFINE g == [e EXCEPT !.due = TRUE]
    <3>1. g.due /\ ~g.some /\ (g.last <=> truth)
      BY <2>2, <2>6 DEF Frame, Holds
    <3>2. (truth /\ T(i + 1)) <=> Together(q, pieces, row, mark, i + 1)
      <4>1. \A j \in 1 .. i + 1 : j = i + 1 \/ j \in 1 .. i
        OBVIOUS
      <4>2. i + 1 \in 1 .. i + 1 /\ \A j \in 1 .. i : j \in 1 .. i + 1
        OBVIOUS
      <4>3. QED
        BY <2>6, <4>1, <4>2, Zenon DEF Together
    <3>3. At(y, a + Len(f[(i + 1) - 1]), g, outer)
      BY <2>1, <2>5, <2>6
    <3> HIDE DEF T, Here, g, truth
    <3>4. (g.some \/ (g.last /\ T(i + 1))) <=> Together(q, pieces, row, mark, i + 1)
      BY <3>1, <3>2
    <3>5. QED
      BY <1>9, <2>1, <2>4, <3>1, <3>3, <3>4
  <2>7. CASE mark = "or"
    <3> DEFINE g == [some |-> Holds(e), last |-> TRUE, due |-> TRUE]
    <3>1. g.due /\ (g.some <=> truth) /\ g.last
      BY <2>2
    <3>2. (truth \/ T(i + 1)) <=> Together(q, pieces, row, mark, i + 1)
      <4>1. \A j \in 1 .. i + 1 : j = i + 1 \/ j \in 1 .. i
        OBVIOUS
      <4>2. i + 1 \in 1 .. i + 1 /\ \A j \in 1 .. i : j \in 1 .. i + 1
        OBVIOUS
      <4>3. mark # "and"
        BY <2>7
      <4>4. QED
        BY <4>1, <4>2, <4>3, Zenon DEF Together
    <3>3. At(y, a + Len(f[(i + 1) - 1]), g, outer)
      BY <2>1, <2>5, <2>7
    <3> HIDE DEF T, Here, g, truth
    <3>4. (g.some \/ (g.last /\ T(i + 1))) <=> Together(q, pieces, row, mark, i + 1)
      BY <3>1, <3>2
    <3>5. QED
      BY <1>9, <2>1, <2>4, <2>7, <3>1, <3>3, <3>4
  <2>8. QED
    BY <1>1, <2>6, <2>7
<1>12. Here(n)
  <2> DEFINE Good == {i \in Nat : i + 1 <= n => Here(i + 1)}
  <2>1. 0 \in Good
    <3>1. 0 + 1 = 1
      OBVIOUS
    <3> HIDE DEF Here
    <3>2. QED
      BY <1>10, <3>1
  <2>2. ASSUME NEW i \in 0 .. n - 1, i \in Good PROVE i + 1 \in Good
    <3>1. CASE i + 1 = n
      BY <1>2, <3>1
    <3>2. CASE i + 1 # n
      <4>1. i + 1 \in 1 .. n - 1 /\ i + 1 <= n
        BY <1>2, <3>2
      <4> HIDE DEF Here
      <4>2. Here(i + 1)
        BY <2>2, <4>1
      <4>3. Here((i + 1) + 1)
        BY <1>11, <4>1, <4>2
      <4>4. QED
        BY <4>3
    <3>3. QED
      BY <3>1, <3>2
  <2>3. Good \in SUBSET Nat
    OBVIOUS
  <2>4. n - 1 \in 0 .. n /\ (n - 1) + 1 = n /\ n <= n /\ n \in Nat
    BY <1>2
  <2> HIDE DEF Good
  <2>5. n - 1 \in Good
    <3>1. \A i \in 0 .. n : i \in Good
      BY <2>1, <2>2, <2>3, <2>4, Counting
    <3>2. QED
      BY <2>4, <3>1
  <2> HIDE DEF Here
  <2>6. QED
    BY <2>4, <2>5 DEF Good
<1>13. QED
  BY <1>12 DEF n

\* Clauses in parentheses are an operand of the expression around them.
LEMMA BracedSay ==
  ASSUME NEW r, NEW s, NEW row, NEW b \in Nat, NEW a, NEW q, NEW pieces, NEW f, NEW mark,
         NEW e, NEW outer, Reads(r, s, row), Len(s.where) \in Nat,
         Stands(s, b + 1, a, q, pieces, f, mark), At(r[b], a, e, outer), e.due,
         b + (2 * Len(q) + 1) <= Len(s.where),
         s.where[b + 1] = Mark("("), s.where[b + (2 * Len(q) + 1)] = Mark(")")
  PROVE  \E h \in BOOLEAN :
            /\ h <=> Together(q, pieces, row, mark, Len(q))
            /\ At(r[b + (2 * Len(q) + 1)], a + Len(f[Len(q)]), Operand(e, h), outer)
<1> DEFINE n == Len(q)
           m == Len(s.where)
           u == a + Len(f[n])
           o == <<e>> \o outer
           truth == Together(q, pieces, row, mark, n)
<1>1. \A i \in 1 .. m : r[i] = Read(r[i - 1], s.where[i], s.params, row)
  BY Zenon DEF Reads
<1>2. n \in Nat \ {0} /\ q \in Seq(ClauseType)
  BY EmptySeq DEF Stands
<1>3. e \in Frame /\ outer \in Seq(Frame)
  BY DEF At
<1>4. m \in Nat /\ b + (2 * n + 1) <= m
  OBVIOUS
<1>11. s.where[b + 1] = Mark("(") /\ s.where[b + (2 * n + 1)] = Mark(")")
  OBVIOUS
<1> HIDE DEF n, m
<1>5. /\ b + 1 \in 1 .. m /\ (b + 1) - 1 = b /\ (b + 1) + (2 * n - 1) = b + 2 * n
      /\ b + (2 * n + 1) \in 1 .. m /\ (b + (2 * n + 1)) - 1 = b + 2 * n
  BY <1>2, <1>4
<1>6. At(r[b + 1], a, Open, o)
  <2>1. r[b + 1] = Read(r[b], Mark("("), s.params, row)
    BY <1>1, <1>5, <1>11
  <2>2. At(Read(r[b], Mark("("), s.params, row), a, Open, o)
    BY ReadMarks, Zenon
  <2> HIDE DEF o
  <2>3. QED
    BY <2>1, <2>2, Zenon
<1>7. Says(r[b + 2 * n], u, o, mark, truth)
  <2>1. Says(r[(b + 1) + (2 * n - 1)], u, o, mark, truth)
    BY <1>6, JoinedSay, Zenon DEF n
  <2>2. QED
    BY <1>5, <2>1
<1> HIDE DEF u, truth
<1>8. PICK g \in Frame : At(r[b + 2 * n], u, g, o) /\ ~g.due /\ (Holds(g) <=> truth)
  BY <1>7 DEF Says
<1>9. At(r[b + (2 * n + 1)], u, Operand(e, Holds(g)), outer)
  <2>1. r[b + (2 * n + 1)] = Read(r[b + 2 * n], Mark(")"), s.params, row)
    BY <1>1, <1>5, <1>11
  <2>2. QED
    BY <1>3, <1>8, <2>1, ReadClosing
<1>10. QED
  <2>1. Holds(g) \in BOOLEAN
    BY DEF Frame, Holds
  <2>2. QED
    BY <1>8, <1>9, <2>1, Zenon DEF n, u, truth

\* What was read when one expression is open.
LEMMA AtEnd ==
  ASSUME NEW x, NEW u, NEW e, At(x, u, e, <<>>)
  PROVE  x.used = u /\ Len(x.nest) = 1 /\ Head(x.nest) = e
<1>1. e \in Frame /\ x.nest = <<e>> \o <<>> /\ <<>> \in Seq(Frame) /\ x.used = u
  BY DEF At
<1>2. Len(<<e>> \o <<>>) = Len(<<>>) + 1 /\ Head(<<e>> \o <<>>) = e
  BY <1>1, ConsIs
<1>3. Len(<<>>) = 0
  OBVIOUS
<1>4. QED
  BY <1>1, <1>2, <1>3

\* Where the reading begins.
LEMMA AtStart ==
  ASSUME NEW r, NEW s, NEW row, Reads(r, s, row), Len(s.sets) \in Nat
  PROVE  At(r[0], Len(s.sets), Open, <<>>)
<1>1. r[0] = [used |-> Len(s.sets), nest |-> <<Open>>]
  BY DEF Reads
<1>2. Open \in Frame /\ <<>> \in Seq(Frame)
  BY DEF Open, Frame
<1>3. <<Open>> \o <<>> = <<Open>>
  <2>1. <<Open>> \in Seq(Frame)
    BY <1>2
  <2>2. QED
    BY <2>1, ConcatEmptySeq
<1>4. QED
  BY <1>1, <1>2, <1>3 DEF At

\* A sequence in parentheses.
LEMMA BracedIs ==
  ASSUME NEW q \in Seq(Token)
  PROVE  /\ Braced(q) \in Seq(Token) /\ Len(q) \in Nat /\ Len(Braced(q)) = Len(q) + 2
         /\ Braced(q)[1] = Mark("(") /\ Braced(q)[Len(q) + 2] = Mark(")")
         /\ \A i \in 1 .. Len(q) : Braced(q)[1 + i] = q[i]
<1> DEFINE x == <<Mark("(")>>
           y == <<Mark(")")>>
           n == Len(q)
           c == x \o q
           z == c \o y
<1>1. /\ x \in Seq(Token) /\ Len(x) = 1 /\ x[1] = Mark("(") /\ n \in Nat
      /\ y \in Seq(Token) /\ Len(y) = 1 /\ y[1] = Mark(")")
  <2>1. Mark("(") \in Token /\ Mark(")") \in Token
    BY DEF Token, Marks
  <2>2. QED
    BY <2>1
<1>2. z = Braced(q)
  BY Zenon DEF Braced
<1> HIDE DEF x, y
<1>3. c \in Seq(Token) /\ Joined(x, q)
  BY <1>1, TwoJoined, Zenon
<1>4. Len(c) = n + 1 /\ c[1] = Mark("(") /\ \A i \in 1 .. n : c[1 + i] = q[i]
  <2>1. 1 \in 1 .. 1
    OBVIOUS
  <2>2. /\ Len(c) = Len(x) + n /\ \A d \in 1 .. Len(x) : c[d] = x[d]
        /\ \A d \in 1 .. n : c[Len(x) + d] = q[d]
    BY <1>3, Zenon DEF Joined
  <2> HIDE DEF c, n
  <2>3. QED
    BY <1>1, <2>1, <2>2
<1> HIDE DEF c
<1>5. z \in Seq(Token) /\ Joined(c, y)
  BY <1>1, <1>3, TwoJoined, Zenon
<1>6. /\ Len(z) = Len(c) + Len(y) /\ \A d \in 1 .. Len(c) : z[d] = c[d]
      /\ \A d \in 1 .. Len(y) : z[Len(c) + d] = y[d]
  BY <1>5, Zenon DEF Joined
<1> HIDE DEF z, n
<1>7. Len(z) = n + 2 /\ z[1] = Mark("(") /\ z[n + 2] = Mark(")")
  <2>1. 1 \in 1 .. Len(c) /\ 1 \in 1 .. Len(y) /\ Len(c) + 1 = n + 2
    BY <1>1, <1>4
  <2>2. QED
    BY <1>1, <1>4, <1>6, <2>1
<1>8. ASSUME NEW i \in 1 .. n PROVE z[1 + i] = q[i]
  <2>1. 1 + i \in 1 .. Len(c)
    BY <1>1, <1>4
  <2>2. QED
    BY <1>4, <1>6, <2>1
<1>9. QED
  BY <1>1, <1>2, <1>5, <1>7, <1>8 DEF n

-----------------------------------------------------------------------------
(* Requests                                                                *)

ParamsOf(r) == FlattenSeq(PatternsOf(r.scolumns, r.text)) \o FlattenSeq(BoundOf(r.conditions))

\* What is bound are lists of parameters, one for each clause.
LEMMA PiecesTyped ==
  ASSUME NEW r, RequestTyped(r)
  PROVE  /\ PatternsOf(r.scolumns, r.text) \in Seq(Seq(Parameter))
         /\ Len(PatternsOf(r.scolumns, r.text)) = Len(r.scolumns)
         /\ BoundOf(r.conditions) \in Seq(Seq(Parameter))
         /\ Len(BoundOf(r.conditions)) = Len(r.conditions)
         /\ r.values \in Seq(Parameter)
<1> DEFINE n == Len(r.scolumns)
           m == Len(r.conditions)
           x == Pattern(r.text)
<1>1. /\ r.scolumns \in Seq(Column) /\ r.conditions \in Seq(AnyCondition)
      /\ r.text \in Seq(Char) /\ r.values \in Seq(AnyValue)
  BY DEF RequestTyped
<1>2. n \in Nat /\ m \in Nat /\ \A i \in 1 .. m : r.conditions[i] \in AnyCondition
  BY <1>1
<1>3. x \in Seq(Sign)
  <2> DEFINE b == <<"%">>
             e == Escaped(r.text)
  <2>1. b \in Seq(Sign)
    BY DEF Sign
  <2>2. e \in Seq(Sign)
    BY <1>1, EscapedIs
  <2>3. x = (b \o e) \o b
    BY DEF Pattern
  <2> HIDE DEF b, e, x
  <2>4. b \o e \in Seq(Sign)
    BY <2>1, <2>2, ConcatProperties
  <2>5. (b \o e) \o b \in Seq(Sign)
    BY <2>1, <2>4, ConcatProperties
  <2>6. QED
    BY <2>3, <2>5
<1> HIDE DEF n, m, x
<1>4. <<x>> \in Seq(Parameter)
  BY <1>3, TwoOnes DEF Parameter
<1>5. PatternsOf(r.scolumns, r.text) = [i \in 1 .. n |-> <<x>>]
  BY DEF PatternsOf, n, x
<1>6. PatternsOf(r.scolumns, r.text) \in [1 .. n -> Seq(Parameter)]
  BY <1>4, <1>5, Zenon
<1>7. \A i \in 1 .. m : ValuesOf(r.conditions[i]) \in Seq(Parameter)
  <2>1. ASSUME NEW i \in 1 .. m PROVE ValuesOf(r.conditions[i]) \in Seq(Parameter)
    <3>1. ValuesOf(r.conditions[i]) \in Seq(AnyValue)
      BY <1>2, PrepareElementIs
    <3>2. QED
      BY <3>1, SeqMonotonic DEF Parameter
  <2>2. QED
    BY <2>1
<1>8. BoundOf(r.conditions) = [i \in 1 .. m |-> ValuesOf(r.conditions[i])]
  BY DEF BoundOf, m
<1>9. BoundOf(r.conditions) \in [1 .. m -> Seq(Parameter)]
  BY <1>7, <1>8, Zenon
<1>10. r.values \in Seq(Parameter)
  BY <1>1, SeqMonotonic DEF Parameter
<1>11. ASSUME NEW S, NEW k \in Nat, NEW z \in [1 .. k -> S] PROVE z \in Seq(S) /\ Len(z) = k
  BY SeqDef
<1>12. /\ PatternsOf(r.scolumns, r.text) \in Seq(Seq(Parameter))
       /\ Len(PatternsOf(r.scolumns, r.text)) = n
  BY <1>2, <1>6, <1>11, Zenon
<1>13. BoundOf(r.conditions) \in Seq(Seq(Parameter)) /\ Len(BoundOf(r.conditions)) = m
  BY <1>2, <1>9, <1>11, Zenon
<1>14. QED
  BY <1>10, <1>12, <1>13 DEF n, m

\* WHERE, and what follows the values in the parameters.
WhereOf(r) ==
    IF r.scolumns = <<>> THEN Join(ClausesOf(r.conditions), "and")
    ELSE Braced(Join(LikesOf(r.scolumns), "or"))
         \o (IF r.conditions = <<>> THEN <<>>
             ELSE <<Mark("and")>> \o Braced(Join(ClausesOf(r.conditions), "and")))

\* The statement of a request.
StatementIs(r, s) ==
    s.sets = r.columns /\ s.where = WhereOf(r) /\ s.params = r.values \o ParamsOf(r)

\* What Statement makes.
LEMMA StatementFields ==
  ASSUME NEW verb, NEW sets, NEW where, NEW params
  PROVE  /\ Statement(verb, sets, where, params).sets = sets
         /\ Statement(verb, sets, where, params).where = where
         /\ Statement(verb, sets, where, params).params = params
BY DEF Statement

\* Sequences of parameters make one.
LEMMA FlattenTyped ==
  ASSUME NEW T, NEW u \in Seq(Seq(T))
  PROVE  FlattenSeq(u) \in Seq(T)
<1>1. PICK f : Joins(f, u, T) /\ FlattenSeq(u) = f[Len(u)]
  BY FlattenJoins, Zenon
<1>2. Len(u) \in Nat /\ \A i \in 0 .. Len(u) : f[i] \in Seq(T)
  BY <1>1, JoinsTyped, Zenon
<1>3. QED
  BY <1>1, <1>2

\* It is what the builders make.
LEMMA StatementOfIs ==
  ASSUME NEW r, RequestTyped(r)
  PROVE  StatementIs(r, StatementOf(r))
<1> DEFINE s == StatementOf(r)
           cond == PrepareCondition(r.conditions)
           like == PrepareCondLike(r.scolumns, r.text)
<1>1. /\ r.method \in {"select", "search", "create", "update", "delete"}
      /\ r.scolumns \in Seq(Column) /\ r.text \in Seq(Char)
      /\ r.values \in Seq(AnyValue)
      /\ r.conditions \in Seq(AnyCondition)
      /\ r.method = "search" <=> r.scolumns # <<>>
      /\ r.method \notin {"create", "update"} => r.columns = <<>> /\ r.values = <<>>
      /\ r.method = "create" => r.conditions = <<>>
  BY DEF RequestTyped
<1>2. /\ cond.q = Join(ClausesOf(r.conditions), "and")
      /\ cond.v = FlattenSeq(BoundOf(r.conditions))
      /\ like.q = Join(LikesOf(r.scolumns), "or")
      /\ like.v = FlattenSeq(PatternsOf(r.scolumns, r.text))
  BY <1>1, PrepareConditionIs, PrepareCondLikeIs
<1>3. ParamsOf(r) = like.v \o cond.v
  BY <1>2, Zenon DEF ParamsOf
<1>4. cond.v \in Seq(Parameter) /\ like.v \in Seq(Parameter) /\ r.values \in Seq(Parameter)
  BY <1>2, FlattenTyped, PiecesTyped, Zenon
<1>5. r.scolumns = <<>> => like.v = <<>>
  <2>1. PatternsOf(<<>>, r.text) = <<>>
    BY EmptySeq DEF PatternsOf
  <2>2. FlattenSeq(<<>>) = <<>>
    BY EmptySeq DEF FlattenSeq
  <2>3. QED
    BY <1>2, <2>1, <2>2, Zenon
<1>6. r.conditions = <<>> => cond.q = <<>> /\ cond.v = <<>>
  <2>1. ClausesOf(<<>>) = <<>> /\ BoundOf(<<>>) = <<>>
    BY EmptySeq DEF ClausesOf, BoundOf
  <2>2. FlattenSeq(<<>>) = <<>> /\ Join(<<>>, "and") = <<>>
    BY EmptySeq DEF FlattenSeq, Join
  <2>3. QED
    BY <1>2, <2>1, <2>2, Zenon
<1>7. \A t \in Seq(Parameter) : t \o <<>> = t /\ <<>> \o t = t
  BY ConcatEmptySeq
<1>8. like.v \o cond.v \in Seq(Parameter) /\ <<>> \in Seq(Parameter)
  BY <1>4, ConcatProperties, EmptySeq
<1> DEFINE where == WhereOf(r)
<1>11. /\ r.scolumns = <<>> => where = cond.q
       /\ r.scolumns # <<>> =>
            where = Braced(like.q) \o (IF r.conditions = <<>> THEN <<>>
                                       ELSE <<Mark("and")>> \o Braced(cond.q))
  BY <1>2, Zenon DEF WhereOf
<1> HIDE DEF cond, like, where
<1>9. /\ s.sets = r.columns /\ s.where = where
      /\ s.params = r.values \o (like.v \o cond.v)
  <2>1. CASE r.method = "select"
    <3>1. s = Statement("select", <<>>, cond.q, cond.v)
      BY <2>1 DEF StatementOf, Select, cond
    <3>2. s.sets = <<>> /\ s.where = cond.q /\ s.params = cond.v
      BY <3>1, StatementFields
    <3>3. r.columns = <<>> /\ r.values = <<>> /\ like.v = <<>> /\ r.scolumns = <<>>
      BY <1>1, <1>5, <2>1
    <3>4. QED
      BY <1>4, <1>7, <1>11, <3>2, <3>3, Zenon
  <2>2. CASE r.method = "search"
    <3> DEFINE w == like.v \o cond.v
               more == IF r.conditions = <<>> THEN <<>>
                       ELSE <<Mark("and")>> \o Braced(cond.q)
               z == Braced(like.q) \o more
    <3>1. s = Statement("select", <<>>, z, w)
      BY <2>2 DEF StatementOf, Search, cond, like
    <3>2. s.sets = <<>> /\ s.where = z /\ s.params = w
      <4> HIDE DEF w, z
      <4>1. QED
        BY <3>1, StatementFields
    <3>3. r.columns = <<>> /\ r.values = <<>> /\ r.scolumns # <<>>
      BY <1>1, <2>2
    <3>4. QED
      BY <1>7, <1>8, <1>11, <3>2, <3>3, Zenon
  <2>3. CASE r.method = "create"
    <3>1. s = Statement("insert", r.columns, <<>>, r.values)
      BY <2>3 DEF StatementOf, Create
    <3>2. s.sets = r.columns /\ s.where = <<>> /\ s.params = r.values
      BY <3>1, StatementFields
    <3>3. cond.q = <<>> /\ cond.v = <<>> /\ like.v = <<>> /\ r.scolumns = <<>>
      BY <1>1, <1>5, <1>6, <2>3
    <3>5. QED
      BY <1>4, <1>7, <1>8, <1>11, <3>2, <3>3, Zenon
  <2>4. CASE r.method = "update"
    <3> DEFINE w == r.values \o cond.v
    <3>1. s = Statement("update", r.columns, cond.q, w)
      BY <2>4 DEF StatementOf, Update, UpdateParams, cond
    <3>2. s.sets = r.columns /\ s.where = cond.q /\ s.params = w
      <4> HIDE DEF w
      <4>1. QED
        BY <3>1, StatementFields
    <3>3. like.v = <<>> /\ r.scolumns = <<>>
      BY <1>1, <1>5, <2>4
    <3>4. QED
      BY <1>4, <1>7, <1>11, <3>2, <3>3, Zenon
  <2>5. CASE r.method = "delete"
    <3>1. s = Statement("delete", <<>>, cond.q, cond.v)
      BY <2>5 DEF StatementOf, Delete, cond
    <3>2. s.sets = <<>> /\ s.where = cond.q /\ s.params = cond.v
      BY <3>1, StatementFields
    <3>3. r.columns = <<>> /\ r.values = <<>> /\ like.v = <<>> /\ r.scolumns = <<>>
      BY <1>1, <1>5, <2>5
    <3>4. QED
      BY <1>4, <1>7, <1>11, <3>2, <3>3, Zenon
  <2>6. QED
    BY <1>1, <2>1, <2>2, <2>3, <2>4, <2>5
<1>10. QED
  BY <1>3, <1>9, Zenon DEF StatementIs, where

\* A clause for each piece, with as many places as the piece has parameters.
Fits(q, pieces, n) ==
    /\ q \in Seq(ClauseType) /\ pieces \in Seq(Seq(Parameter))
    /\ Len(q) = n /\ Len(pieces) = n
    /\ \A i \in 1 .. n : q[i].places = Len(pieces[i])

\* The clauses of LIKE and those of the conditions do.
LEMMA ClausesFit ==
  ASSUME NEW r, RequestTyped(r)
  PROVE  /\ Fits(LikesOf(r.scolumns), PatternsOf(r.scolumns, r.text), Len(r.scolumns))
         /\ Fits(ClausesOf(r.conditions), BoundOf(r.conditions), Len(r.conditions))
<1> DEFINE n == Len(r.scolumns)
           m == Len(r.conditions)
           u == PatternsOf(r.scolumns, r.text)
           v == BoundOf(r.conditions)
           a == LikesOf(r.scolumns)
           b == ClausesOf(r.conditions)
<1>1. r.scolumns \in Seq(Column) /\ r.conditions \in Seq(AnyCondition)
  BY DEF RequestTyped
<1>2. /\ n \in Nat /\ m \in Nat /\ \A i \in 1 .. n : r.scolumns[i] \in Column
      /\ \A j \in 1 .. m : r.conditions[j] \in AnyCondition
  BY <1>1
<1>3. /\ u \in Seq(Seq(Parameter)) /\ Len(u) = n /\ v \in Seq(Seq(Parameter)) /\ Len(v) = m
  BY PiecesTyped, Zenon
<1>4. /\ \A i \in 1 .. n : u[i] = <<Pattern(r.text)>> /\ a[i] = Clause("like", r.scolumns[i], 1)
      /\ \A j \in 1 .. m : v[j] = ValuesOf(r.conditions[j]) /\ b[j] = ClauseOf(r.conditions[j])
  BY DEF PatternsOf, BoundOf, LikesOf, ClausesOf
<1>5. /\ a = [i \in 1 .. n |-> Clause("like", r.scolumns[i], 1)]
      /\ b = [j \in 1 .. m |-> ClauseOf(r.conditions[j])]
  BY DEF LikesOf, ClausesOf
<1> HIDE DEF n, m, u, v, a, b
<1>6. a \in Seq(ClauseType) /\ Len(a) = n /\ b \in Seq(ClauseType) /\ Len(b) = m
  <2>3. a \in [1 .. n -> ClauseType]
    <3>1. \A i \in 1 .. n : Clause("like", r.scolumns[i], 1) \in ClauseType
      BY <1>2, ClauseTyped DEF Kind
    <3>2. QED
      BY <1>5, <3>1, Zenon
  <2>4. b \in [1 .. m -> ClauseType]
    <3>1. \A j \in 1 .. m : ClauseOf(r.conditions[j]) \in ClauseType
      BY <1>2, PrepareElementIs
    <3>2. QED
      BY <1>5, <3>1, Zenon
  <2>5. ASSUME NEW S, NEW k \in Nat, NEW z \in [1 .. k -> S] PROVE z \in Seq(S) /\ Len(z) = k
    BY SeqDef
  <2>6. QED
    BY <1>2, <2>3, <2>4, <2>5, Zenon
<1>7. ASSUME NEW i \in 1 .. n PROVE a[i].places = Len(u[i])
  <2> DEFINE x == Pattern(r.text)
  <2>1. a[i] = Clause("like", r.scolumns[i], 1) /\ u[i] = <<x>>
    BY <1>4, Zenon
  <2> HIDE DEF x
  <2>2. QED
    BY <2>1 DEF Clause
<1>8. ASSUME NEW j \in 1 .. m PROVE b[j].places = Len(v[j])
  <2>1. b[j] = ClauseOf(r.conditions[j]) /\ v[j] = ValuesOf(r.conditions[j])
    BY <1>4, Zenon
  <2>2. QED
    BY <2>1 DEF Clause, ClauseOf
<1>9. QED
  BY <1>3, <1>6, <1>7, <1>8, Zenon DEF Fits, n, m, u, v, a, b

\* The clause of a condition is true of the rows that meet it.
LEMMA ConditionIsMet ==
  ASSUME NEW e \in AnyCondition, NEW row
  PROVE  TrueOf(ClauseOf(e), ValuesOf(e), row[e.column]) <=> Meets(row, e)
<1> DEFINE value == row[e.column]
<1>1. /\ e.column \in Column /\ e.list \in BOOLEAN
      /\ e.list => e.values \in Seq(AnyValue)
      /\ ~e.list => \E v \in AnyValue : e.values = <<v>>
  BY ConditionTyped
<1>2. ClauseOf(e).kind = KindOf(e)
  BY DEF ClauseOf, Clause
<1>3. CASE e.list
  <2>1. ValuesOf(e) = e.values /\ e.values \in Seq(AnyValue)
    BY <1>1, <1>3 DEF ValuesOf, PrepareElement
  <2>2. Meets(row, e) <=> value \in ToSet(e.values) \ {Null}
    BY <1>3 DEF Meets
  <2>5. CASE e.values = <<>>
    <3>1. KindOf(e) = "never"
      BY <1>3, <2>5 DEF KindOf
    <3>2. ToSet(e.values) = {}
      BY <2>5 DEF ToSet
    <3>3. QED
      BY <1>2, <2>2, <3>1, <3>2 DEF TrueOf
  <2>6. CASE e.values # <<>>
    <3>1. KindOf(e) = "in"
      BY <1>3, <2>6 DEF KindOf
    <3>2. TrueOf(ClauseOf(e), ValuesOf(e), value) <=> value # Null /\ value \in ToSet(e.values)
      BY <1>2, <2>1, <3>1 DEF TrueOf
    <3>3. QED
      BY <2>2, <3>2
  <2>7. QED
    BY <2>5, <2>6
<1>4. CASE ~e.list
  <2>1. PICK v \in AnyValue : e.values = <<v>>
    BY <1>1, <1>4
  <2>2. e.values[1] = v
    BY <2>1
  <2>3. Meets(row, e) <=> value = v
    BY <1>4, <2>2 DEF Meets
  <2>4. CASE v = Null
    <3>1. KindOf(e) = "is null"
      BY <1>4, <2>2, <2>4 DEF KindOf
    <3>2. QED
      BY <1>2, <2>3, <2>4, <3>1 DEF TrueOf
  <2>5. CASE v # Null
    <3>1. KindOf(e) = "="
      BY <1>4, <2>2, <2>5 DEF KindOf
    <3>2. ValuesOf(e) = e.values
      BY <1>4, <2>2, <2>5 DEF ValuesOf, PrepareElement
    <3>3. ToSet(e.values) = {v}
      BY <2>1 DEF ToSet
    <3>4. TrueOf(ClauseOf(e), ValuesOf(e), value) <=> value # Null /\ value \in {v}
      BY <1>2, <3>1, <3>2, <3>3 DEF TrueOf
    <3>5. QED
      BY <2>3, <2>5, <3>4
  <2>6. QED
    BY <2>4, <2>5
<1>5. QED
  BY <1>1, <1>3, <1>4

\* What the patterns say together is that one of the columns has the text in it.
LEMMA LikesSay ==
  ASSUME NEW r, RequestTyped(r), NEW row \in AnyRow
  PROVE  Together(LikesOf(r.scolumns), PatternsOf(r.scolumns, r.text), row, "or",
                  Len(r.scolumns))
         <=> \E c \in ToSet(r.scolumns) : row[c] # Null /\ HasPart(row[c], r.text)
<1> DEFINE n == Len(r.scolumns)
           a == LikesOf(r.scolumns)
           u == PatternsOf(r.scolumns, r.text)
           x == Pattern(r.text)
           Has(c) == row[c] # Null /\ HasPart(row[c], r.text)
<1>1. r.scolumns \in Seq(Column) /\ r.text \in Seq(Char)
  BY DEF RequestTyped
<1>2. DOMAIN r.scolumns = 1 .. n /\ \A i \in 1 .. n : r.scolumns[i] \in Column
  BY <1>1
<1>3. \A i \in 1 .. n : u[i] = <<x>> /\ a[i] = Clause("like", r.scolumns[i], 1)
  BY DEF PatternsOf, LikesOf
<1> HIDE DEF a, u, n
<1>4. ASSUME NEW i \in 1 .. n
      PROVE  TrueOf(a[i], u[i], row[a[i].column]) <=> Has(r.scolumns[i])
  <2> DEFINE c == r.scolumns[i]
             value == row[c]
  <2>1. a[i] = Clause("like", c, 1) /\ u[i] = <<x>>
    BY <1>3
  <2>2. value # Null => value \in Seq(Char)
    BY <1>2 DEF AnyRow, AnyValue
  <2>3. value # Null => (Like(value, x) <=> HasPart(value, r.text))
    BY <1>1, <2>2, LikeIsPart, Zenon
  <2> HIDE DEF x, c
  <2>4. a[i].kind = "like" /\ a[i].column = c /\ u[i][1] = x
    BY <2>1 DEF Clause
  <2> HIDE DEF value
  <2>5. TrueOf(a[i], u[i], value) <=> value # Null /\ Like(value, x)
    BY <2>4 DEF TrueOf
  <2>6. QED
    BY <2>3, <2>4, <2>5, Zenon DEF value, c
<1>5. Together(a, u, row, "or", n) <=> \E i \in 1 .. n : TrueOf(a[i], u[i], row[a[i].column])
  BY DEF Together
<1> HIDE DEF Has
<1>6. (\E i \in 1 .. n : Has(r.scolumns[i])) <=> \E c \in ToSet(r.scolumns) : Has(c)
  BY <1>2 DEF ToSet
<1>7. Together(a, u, row, "or", n) <=> \E c \in ToSet(r.scolumns) : Has(c)
  BY <1>4, <1>5, <1>6, Zenon
<1>8. QED
  BY <1>7, Zenon DEF a, u, n, Has

\* What the clauses of the conditions say together is that the row meets them.
LEMMA ConditionsSay ==
  ASSUME NEW r, RequestTyped(r), NEW row
  PROVE  Together(ClausesOf(r.conditions), BoundOf(r.conditions), row, "and",
                  Len(r.conditions))
         <=> \A e \in ToSet(r.conditions) : Meets(row, e)
<1> DEFINE m == Len(r.conditions)
           b == ClausesOf(r.conditions)
           v == BoundOf(r.conditions)
<1>1. r.conditions \in Seq(AnyCondition)
  BY DEF RequestTyped
<1>2. DOMAIN r.conditions = 1 .. m /\ \A j \in 1 .. m : r.conditions[j] \in AnyCondition
  BY <1>1
<1>3. \A j \in 1 .. m : v[j] = ValuesOf(r.conditions[j]) /\ b[j] = ClauseOf(r.conditions[j])
  BY DEF BoundOf, ClausesOf
<1> HIDE DEF b, v, m
<1>4. ASSUME NEW j \in 1 .. m
      PROVE  TrueOf(b[j], v[j], row[b[j].column]) <=> Meets(row, r.conditions[j])
  <2> DEFINE e == r.conditions[j]
  <2>1. e \in AnyCondition /\ b[j] = ClauseOf(e) /\ v[j] = ValuesOf(e)
    BY <1>2, <1>3
  <2> HIDE DEF e
  <2>2. b[j].column = e.column
    BY <2>1 DEF ClauseOf, Clause
  <2>3. TrueOf(ClauseOf(e), ValuesOf(e), row[e.column]) <=> Meets(row, e)
    BY <2>1, ConditionIsMet
  <2>4. QED
    BY <2>1, <2>2, <2>3, Zenon DEF e
<1>5. Together(b, v, row, "and", m) <=> \A j \in 1 .. m : TrueOf(b[j], v[j], row[b[j].column])
  BY DEF Together
<1>6. (\A j \in 1 .. m : Meets(row, r.conditions[j]))
      <=> \A e \in ToSet(r.conditions) : Meets(row, e)
  BY <1>2 DEF ToSet
<1>7. Together(b, v, row, "and", m) <=> \A e \in ToSet(r.conditions) : Meets(row, e)
  BY <1>4, <1>5, <1>6, Zenon
<1>8. QED
  BY <1>7, Zenon DEF b, v, m

\* The k-th token after the first b.
Holding(s, b, z) ==
    b + Len(z) <= Len(s.where) /\ \A i \in 1 .. Len(z) : s.where[b + i] = z[i]

\* The parameters after the first a.
Bound(s, a, p) == \A d \in 1 .. Len(p) : s.params[a + d] = p[d]

\* Joined clauses stand where their tokens and their parameters are.
LEMMA JoinStands ==
  ASSUME NEW s, NEW b \in Nat, NEW a \in Nat, NEW q, NEW pieces, NEW n, Fits(q, pieces, n),
         q # <<>>, NEW mark \in {"and", "or"}, Holding(s, b, Join(q, mark)),
         Bound(s, a, FlattenSeq(pieces))
  PROVE  /\ \E f : Stands(s, b, a, q, pieces, f, mark) /\ f[Len(q)] = FlattenSeq(pieces)
         /\ Len(Join(q, mark)) = 2 * Len(q) - 1 /\ Len(q) = n /\ n \in Nat \ {0}
<1> DEFINE z == Join(q, mark)
           w == s.where
<1>1. /\ q \in Seq(ClauseType) /\ pieces \in Seq(Seq(Parameter))
      /\ Len(q) = n /\ Len(pieces) = n
      /\ \A i \in 1 .. n : q[i].places = Len(pieces[i])
  BY Zenon DEF Fits
<1>2. PICK f : Joins(f, pieces, Parameter) /\ FlattenSeq(pieces) = f[n]
  BY <1>1, FlattenJoins
<1>3. n \in Nat \ {0} /\ Between(z, q, n, mark)
  <2>1. mark \in Marks
    BY DEF Marks
  <2>2. QED
    BY <1>1, <2>1, JoinIs
<1>4. /\ Len(z) = 2 * n - 1
      /\ \A i \in 1 .. n : z[2 * i - 1] = q[i]
      /\ \A i \in 1 .. n - 1 : z[2 * i] = Mark(mark)
  BY <1>3 DEF Between
<1>5. b + Len(z) <= Len(w) /\ \A i \in 1 .. Len(z) : w[b + i] = z[i]
  BY DEF Holding
<1>6. \A d \in 1 .. Len(f[n]) : s.params[a + d] = f[n][d]
  BY <1>2, Zenon DEF Bound
<1> HIDE DEF z, w
<1>7. ASSUME NEW i \in 1 .. n PROVE w[b + (2 * i - 1)] = q[i]
  <2>1. 2 * i - 1 \in 1 .. Len(z)
    BY <1>3, <1>4
  <2>2. QED
    BY <1>4, <1>5, <2>1
<1>8. ASSUME NEW i \in 1 .. n - 1 PROVE w[b + 2 * i] = Mark(mark)
  <2>1. 2 * i \in 1 .. Len(z)
    BY <1>3, <1>4
  <2>2. QED
    BY <1>4, <1>5, <2>1
<1>9. b + (2 * n - 1) <= Len(w)
  BY <1>4, <1>5
<1>10. Stands(s, b, a, q, pieces, f, mark)
  BY <1>1, <1>2, <1>6, <1>7, <1>8, <1>9, Zenon DEF Stands, w
<1>11. QED
  BY <1>1, <1>2, <1>3, <1>4, <1>10, Zenon DEF z

\* A reading that says of the row what was asked: it comes to the end, has passed as
\* many places as there are parameters, and the one expression says truth.
Ends(x, s, truth) ==
    /\ x.used = Len(s.params) /\ Len(x.nest) = 1 /\ ~Head(x.nest).due
    /\ Holds(Head(x.nest)) <=> truth


\* Clauses in parentheses are read as one operand.
LEMMA BracedAt ==
  ASSUME NEW x, NEW s, NEW row, NEW b \in Nat, NEW a \in Nat, NEW q, NEW pieces, NEW n,
         Fits(q, pieces, n), q # <<>>, NEW mark \in {"and", "or"}, Len(s.where) \in Nat,
         Reads(x, s, row), Holding(s, b, Braced(Join(q, mark))),
         Bound(s, a, FlattenSeq(pieces)), NEW e, NEW outer, At(x[b], a, e, outer), e.due
  PROVE  \E h \in BOOLEAN :
            /\ h <=> Together(q, pieces, row, mark, n)
            /\ At(x[b + Len(Braced(Join(q, mark)))], a + Len(FlattenSeq(pieces)),
                  Operand(e, h), outer)
<1> DEFINE z == Join(q, mark)
           y == Braced(z)
           w == s.where
<1>1. mark \in Marks /\ q \in Seq(ClauseType)
  BY DEF Marks, Fits
<1>2. z \in Seq(Token) /\ Len(z) = 2 * Len(q) - 1 /\ Len(q) \in Nat \ {0}
  BY <1>1, JoinIs DEF Between
<1> HIDE DEF z
<1>3. /\ Len(y) = Len(z) + 2 /\ y[1] = Mark("(") /\ y[Len(z) + 2] = Mark(")")
      /\ \A i \in 1 .. Len(z) : y[1 + i] = z[i]
  BY <1>2, BracedIs
<1>4. b + Len(y) <= Len(w) /\ \A i \in 1 .. Len(y) : w[b + i] = y[i]
  BY DEF Holding, z
<1> HIDE DEF y, w
<1>5. Holding(s, b + 1, z)
  <2>1. (b + 1) + Len(z) <= Len(w)
    BY <1>2, <1>3, <1>4
  <2>2. ASSUME NEW i \in 1 .. Len(z) PROVE w[(b + 1) + i] = z[i]
    <3>1. 1 + i \in 1 .. Len(y) /\ b + (1 + i) = (b + 1) + i
      BY <1>2, <1>3
    <3>2. QED
      BY <1>3, <1>4, <3>1
  <2>3. QED
    BY <2>1, <2>2, Zenon DEF Holding, w
<1>6. b + 1 \in Nat
  OBVIOUS
<1>7. PICK f : Stands(s, b + 1, a, q, pieces, f, mark) /\ f[Len(q)] = FlattenSeq(pieces)
  BY <1>5, <1>6, JoinStands, Zenon DEF z
<1>8. Len(q) = n
  BY Zenon DEF Fits
<1>9. /\ w[b + 1] = Mark("(") /\ w[b + (2 * Len(q) + 1)] = Mark(")")
      /\ b + (2 * Len(q) + 1) <= Len(w) /\ Len(y) = 2 * Len(q) + 1
  <2>1. 1 \in 1 .. Len(y) /\ 2 * Len(q) + 1 \in 1 .. Len(y) /\ Len(z) + 2 = 2 * Len(q) + 1
    BY <1>2, <1>3
  <2>2. QED
    BY <1>3, <1>4, <2>1
<1>10. PICK h \in BOOLEAN :
          /\ h <=> Together(q, pieces, row, mark, Len(q))
          /\ At(x[b + (2 * Len(q) + 1)], a + Len(f[Len(q)]), Operand(e, h), outer)
  BY <1>7, <1>9, BracedSay, Zenon DEF w
<1>11. QED
  BY <1>7, <1>8, <1>9, <1>10, Zenon DEF y, z

\* What is read to the end.
LEMMA EndsAt ==
  ASSUME NEW x, NEW s, NEW e, NEW u, At(x, u, e, <<>>), u = Len(s.params), ~e.due,
         NEW truth, Holds(e) <=> truth
  PROVE  Ends(x, s, truth)
<1>1. x.used = u /\ Len(x.nest) = 1 /\ Head(x.nest) = e
  BY AtEnd, Zenon
<1>2. QED
  BY <1>1 DEF Ends

\* These tokens and nothing else follow WHERE.
Written(s, z) == s.where = z

\* WHERE clause and ...
LEMMA JoinedEnds ==
  ASSUME NEW s, NEW row, NEW q, NEW pieces, NEW n, Fits(q, pieces, n), q # <<>>,
         Written(s, Join(q, "and")), s.sets \in Seq(Column),
         Bound(s, Len(s.sets), FlattenSeq(pieces)),
         Len(s.params) = Len(s.sets) + Len(FlattenSeq(pieces))
  PROVE  s.where # <<>> /\ Ends(Evaluated(s, row), s, Together(q, pieces, row, "and", n))
<1> DEFINE z == Join(q, "and")
           a == Len(s.sets)
<1>1. "and" \in Marks /\ q \in Seq(ClauseType) /\ Len(q) = n /\ a \in Nat
  BY DEF Marks, Fits
<1>2. z \in Seq(Token) /\ z # <<>> /\ Len(z) = 2 * n - 1 /\ n \in Nat \ {0}
  BY <1>1, JoinIs DEF Between
<1>3. s.where = z
  BY DEF Written
<1> HIDE DEF z, a
<1>4. s.where \in Seq(Token) /\ Len(s.where) \in Nat /\ Len(s.where) = 2 * n - 1
  BY <1>2, <1>3
<1>5. Holding(s, 0, z)
  <2>1. 0 + Len(z) <= Len(s.where) /\ \A i \in 1 .. Len(z) : 0 + i = i
    BY <1>2, <1>3
  <2>2. \A i \in 1 .. Len(z) : s.where[0 + i] = z[i]
    BY <1>3, <2>1
  <2>3. QED
    BY <2>1, <2>2, Zenon DEF Holding
<1>6. 0 \in Nat
  OBVIOUS
<1>7. PICK f : Stands(s, 0, a, q, pieces, f, "and") /\ f[Len(q)] = FlattenSeq(pieces)
  <2>0. "and" \in {"and", "or"}
    OBVIOUS
  <2>1. a \in Nat
    BY <1>1
  <2>2. \A b \in Nat, d \in Nat :
           Holding(s, b, z) /\ Bound(s, d, FlattenSeq(pieces)) =>
              \E f : Stands(s, b, d, q, pieces, f, "and") /\ f[Len(q)] = FlattenSeq(pieces)
    BY <2>0, JoinStands, Zenon DEF z
  <2>3. Bound(s, a, FlattenSeq(pieces))
    BY Zenon DEF a
  <2>4. QED
    BY <1>5, <1>6, <2>1, <2>2, <2>3
<1>8. PICK x : Reads(x, s, row) /\ Evaluated(s, row) = x[Len(s.where)]
  BY <1>1, <1>4, EvaluatedReads, Zenon DEF a
<1>9. At(x[0], a, Open, <<>>)
  BY <1>1, <1>8, AtStart, Zenon DEF a
<1>10. Says(x[0 + (2 * Len(q) - 1)], a + Len(f[Len(q)]), <<>>, "and",
            Together(q, pieces, row, "and", Len(q)))
  BY <1>4, <1>7, <1>8, <1>9, JoinedSay, Zenon
<1>11. 0 + (2 * Len(q) - 1) = Len(s.where)
  BY <1>1, <1>2, <1>4
<1>12. PICK e \in Frame :
          /\ At(Evaluated(s, row), Len(s.params), e, <<>>) /\ ~e.due
          /\ Holds(e) <=> Together(q, pieces, row, "and", n)
  BY <1>1, <1>7, <1>8, <1>10, <1>11, Zenon DEF Says, a
<1>13. Ends(Evaluated(s, row), s, Together(q, pieces, row, "and", n))
  BY <1>12, EndsAt, Zenon
<1>14. QED
  BY <1>2, <1>3, <1>13, Zenon

\* WHERE (like or ...)
LEMMA BracedEnds ==
  ASSUME NEW s, NEW row, NEW q, NEW pieces, NEW n, Fits(q, pieces, n), q # <<>>,
         Written(s, Braced(Join(q, "or"))),
         s.sets \in Seq(Column), Bound(s, Len(s.sets), FlattenSeq(pieces)),
         Len(s.params) = Len(s.sets) + Len(FlattenSeq(pieces))
  PROVE  s.where # <<>> /\ Ends(Evaluated(s, row), s, Together(q, pieces, row, "or", n))
<1> DEFINE z == Join(q, "or")
           y == Braced(z)
           a == Len(s.sets)
<1>1. "or" \in Marks /\ q \in Seq(ClauseType) /\ a \in Nat
  BY DEF Marks, Fits
<1>2. z \in Seq(Token)
  BY <1>1, JoinIs
<1> HIDE DEF z
<1>3. y \in Seq(Token) /\ Len(y) \in Nat \ {0} /\ Len(z) \in Nat
  BY <1>2, BracedIs
<1>4. s.where = y
  BY Zenon DEF Written, y, z
<1> HIDE DEF y, a
<1>5. s.where \in Seq(Token) /\ Len(s.where) \in Nat /\ s.where # <<>>
  BY <1>3, <1>4
<1>6. Holding(s, 0, y)
  <2>1. 0 + Len(y) <= Len(s.where) /\ \A i \in 1 .. Len(y) : 0 + i = i
    BY <1>3, <1>4
  <2>2. \A i \in 1 .. Len(y) : s.where[0 + i] = y[i]
    BY <1>4, <2>1
  <2>3. QED
    BY <2>1, <2>2, Zenon DEF Holding
<1>7. PICK x : Reads(x, s, row) /\ Evaluated(s, row) = x[Len(s.where)]
  BY <1>1, <1>5, EvaluatedReads, Zenon DEF a
<1>8. At(x[0], a, Open, <<>>)
  BY <1>1, <1>7, AtStart, Zenon DEF a
<1>9. 0 \in Nat /\ 0 + Len(y) = Len(s.where) /\ Open.due
  BY <1>3, <1>4 DEF Open
<1>10. PICK h \in BOOLEAN :
          /\ h <=> Together(q, pieces, row, "or", n)
          /\ At(x[0 + Len(y)], a + Len(FlattenSeq(pieces)), Operand(Open, h), <<>>)
  <2>0. "or" \in {"and", "or"}
    OBVIOUS
  <2>1. a \in Nat
    BY <1>1
  <2>2. \A b \in Nat, d \in Nat :
           /\ Holding(s, b, y) /\ Bound(s, d, FlattenSeq(pieces))
           /\ At(x[b], d, Open, <<>>)
           => \E h \in BOOLEAN :
                 /\ h <=> Together(q, pieces, row, "or", n)
                 /\ At(x[b + Len(y)], d + Len(FlattenSeq(pieces)), Operand(Open, h), <<>>)
    BY <1>5, <1>7, <1>9, <2>0, BracedAt, Zenon DEF y, z
  <2>3. Bound(s, a, FlattenSeq(pieces))
    BY Zenon DEF a
  <2>4. QED
    BY <1>6, <1>8, <1>9, <2>1, <2>2, <2>3, Zenon
<1>11. ~Operand(Open, h).due /\ (Holds(Operand(Open, h)) <=> h)
  BY DEF Operand, Open, Holds
<1>12. At(Evaluated(s, row), Len(s.params), Operand(Open, h), <<>>)
  BY <1>7, <1>9, <1>10, Zenon DEF a
<1>13. Ends(Evaluated(s, row), s, Together(q, pieces, row, "or", n))
  BY <1>10, <1>11, <1>12, EndsAt, Zenon
<1>14. QED
  BY <1>5, <1>13, Zenon

\* WHERE (like or ...) AND (clause and ...)
LEMMA BothEnd ==
  ASSUME NEW s, NEW row, s.sets \in Seq(Column),
         NEW q, NEW pieces, NEW n, Fits(q, pieces, n), q # <<>>,
         NEW p, NEW bound, NEW m, Fits(p, bound, m), p # <<>>,
         s.where = Braced(Join(q, "or")) \o (<<Mark("and")>> \o Braced(Join(p, "and"))),
         Len(FlattenSeq(pieces)) \in Nat, Bound(s, Len(s.sets), FlattenSeq(pieces)),
         Bound(s, Len(s.sets) + Len(FlattenSeq(pieces)), FlattenSeq(bound)),
         Len(s.params) = (Len(s.sets) + Len(FlattenSeq(pieces))) + Len(FlattenSeq(bound))
  PROVE  /\ s.where # <<>>
         /\ Ends(Evaluated(s, row), s, /\ Together(q, pieces, row, "or", n)
                                       /\ Together(p, bound, row, "and", m))
<1> DEFINE y == Braced(Join(q, "or"))
           t == Braced(Join(p, "and"))
           o == <<Mark("and")>>
           l == Len(y)
           a == Len(s.sets)
           c == a + Len(FlattenSeq(pieces))
           w == s.where
<1>1. q \in Seq(ClauseType) /\ p \in Seq(ClauseType) /\ a \in Nat /\ c \in Nat
  BY DEF Fits
<1>2. y \in Seq(Token) /\ l \in Nat \ {0} /\ t \in Seq(Token) /\ Len(t) \in Nat \ {0}
  <2> DEFINE z == Join(q, "or")
             v == Join(p, "and")
  <2>1. z \in Seq(Token) /\ v \in Seq(Token)
    BY <1>1, JoinIs DEF Marks
  <2> HIDE DEF z, v
  <2>2. /\ Braced(z) \in Seq(Token) /\ Len(Braced(z)) \in Nat \ {0}
        /\ Braced(v) \in Seq(Token) /\ Len(Braced(v)) \in Nat \ {0}
    BY <2>1, BracedIs
  <2>3. QED
    BY <2>2 DEF z, v
<1>3. o \in Seq(Token) /\ Len(o) = 1 /\ o[1] = Mark("and")
  <2>1. Mark("and") \in Token
    BY DEF Token, Marks
  <2>2. QED
    BY <2>1
<1>4. w = y \o (o \o t)
  OBVIOUS
<1> HIDE DEF y, t, o, l, a, c, w
<1>5. Joined(o, t) /\ o \o t \in Seq(Token)
  BY <1>2, <1>3, TwoJoined, Zenon
<1>6. Joined(y, o \o t) /\ w \in Seq(Token)
  BY <1>2, <1>4, <1>5, TwoJoined, Zenon
<1>7. Len(o \o t) = 1 + Len(t) /\ (o \o t)[1] = Mark("and")
      /\ \A d \in 1 .. Len(t) : (o \o t)[1 + d] = t[d]
  <2>1. 1 \in 1 .. 1
    OBVIOUS
  <2>2. /\ Len(o \o t) = Len(o) + Len(t) /\ \A d \in 1 .. Len(o) : (o \o t)[d] = o[d]
        /\ \A d \in 1 .. Len(t) : (o \o t)[Len(o) + d] = t[d]
    BY <1>5, Zenon DEF Joined
  <2>3. QED
    BY <1>3, <2>1, <2>2
<1>8. /\ Len(w) = l + Len(o \o t) /\ \A d \in 1 .. l : w[d] = y[d]
      /\ \A d \in 1 .. Len(o \o t) : w[l + d] = (o \o t)[d]
  BY <1>4, <1>6, Zenon DEF Joined, l
<1>9. Len(w) = l + 1 + Len(t) /\ Len(w) \in Nat /\ w # <<>>
  BY <1>2, <1>6, <1>7, <1>8
<1>10. Holding(s, 0, y)
  <2>1. 0 + Len(y) <= Len(w) /\ \A i \in 1 .. Len(y) : 0 + i = i
    BY <1>2, <1>9 DEF l
  <2>2. \A i \in 1 .. Len(y) : w[0 + i] = y[i]
    BY <1>8, <2>1 DEF l
  <2>3. QED
    BY <2>1, <2>2, Zenon DEF Holding, w
<1>11. w[l + 1] = Mark("and")
  <2>1. 1 \in 1 .. Len(o \o t)
    BY <1>2, <1>7
  <2>2. QED
    BY <1>7, <1>8, <2>1
<1>12. Holding(s, l + 1, t)
  <2>1. (l + 1) + Len(t) <= Len(w)
    BY <1>2, <1>9
  <2>2. ASSUME NEW i \in 1 .. Len(t) PROVE w[(l + 1) + i] = t[i]
    <3>1. 1 + i \in 1 .. Len(o \o t) /\ l + (1 + i) = (l + 1) + i
      BY <1>2, <1>7
    <3>2. QED
      BY <1>7, <1>8, <3>1
  <2>3. QED
    BY <2>1, <2>2, Zenon DEF Holding, w
<1>13. PICK x : Reads(x, s, row) /\ Evaluated(s, row) = x[Len(w)]
  BY <1>1, <1>6, EvaluatedReads, Zenon DEF a, w
<1>14. At(x[0], a, Open, <<>>)
  BY <1>1, <1>13, AtStart, Zenon DEF a
<1>15. /\ 0 \in Nat /\ 0 + l = l /\ l + 1 \in Nat /\ l + 1 \in 1 .. Len(w)
       /\ (l + 1) - 1 = l /\ (l + 1) + Len(t) = Len(w)
       /\ "or" \in {"and", "or"} /\ "and" \in {"and", "or"}
  BY <1>2, <1>9
<1>16. PICK h \in BOOLEAN :
          /\ h <=> Together(q, pieces, row, "or", n)
          /\ At(x[l], c, Operand(Open, h), <<>>)
  <2>1. Open.due
    BY DEF Open
  <2>2. \E h \in BOOLEAN :
          /\ h <=> Together(q, pieces, row, "or", n)
          /\ At(x[0 + l], c, Operand(Open, h), <<>>)
    BY <1>1, <1>9, <1>10, <1>13, <1>14, <1>15, <2>1, BracedAt, Zenon DEF y, l, a, c, w
  <2>3. QED
    BY <1>15, <2>2
<1> DEFINE e == Operand(Open, h)
           g == [e EXCEPT !.due = TRUE]
<1>17. ~e.due /\ g.due /\ ~g.some /\ (g.last <=> h)
  BY DEF Operand, Open
<1> HIDE DEF e, g
<1>18. At(x[l + 1], c, g, <<>>)
  <2>1. x[l + 1] = Read(x[(l + 1) - 1], w[l + 1], s.params, row)
    BY <1>13, <1>15, Zenon DEF Reads, w
  <2>2. x[l + 1] = Read(x[l], Mark("and"), s.params, row)
    BY <1>11, <1>15, <2>1
  <2>3. At(Read(x[l], Mark("and"), s.params, row), c, g, <<>>)
    BY <1>16, <1>17, ReadMarks, Zenon DEF e, g
  <2>4. QED
    BY <2>2, <2>3, Zenon
<1>19. PICK k \in BOOLEAN :
          /\ k <=> Together(p, bound, row, "and", m)
          /\ At(x[(l + 1) + Len(t)], c + Len(FlattenSeq(bound)), Operand(g, k), <<>>)
  BY <1>1, <1>9, <1>12, <1>13, <1>15, <1>17, <1>18, BracedAt, Zenon DEF t, c, a, w
<1>20. ~Operand(g, k).due /\ (Holds(Operand(g, k)) <=> h /\ k)
  BY <1>17 DEF Operand, Holds
<1>21. At(Evaluated(s, row), Len(s.params), Operand(g, k), <<>>)
  BY <1>13, <1>15, <1>19, Zenon DEF c, a
<1>22. Ends(Evaluated(s, row), s, /\ Together(q, pieces, row, "or", n)
                                  /\ Together(p, bound, row, "and", m))
  BY <1>16, <1>19, <1>20, <1>21, EndsAt, Zenon
<1>23. QED
  BY <1>9, <1>22, Zenon DEF w

\* The parameters: those of SET, of LIKE and of the conditions.
LEMMA ParamsStand ==
  ASSUME NEW r, NEW s, RequestTyped(r), StatementIs(r, s)
  PROVE  LET u == FlattenSeq(PatternsOf(r.scolumns, r.text))
             v == FlattenSeq(BoundOf(r.conditions))
         IN  /\ s.sets \in Seq(Column) /\ Len(s.sets) \in Nat
             /\ Len(u) \in Nat /\ Len(v) \in Nat
             /\ Bound(s, Len(s.sets), u) /\ Bound(s, Len(s.sets) + Len(u), v)
             /\ Len(s.params) = (Len(s.sets) + Len(u)) + Len(v)
<1> DEFINE u == FlattenSeq(PatternsOf(r.scolumns, r.text))
           v == FlattenSeq(BoundOf(r.conditions))
           a == Len(s.sets)
           z == u \o v
           p == s.params
<1>1. u \in Seq(Parameter) /\ v \in Seq(Parameter) /\ r.values \in Seq(Parameter)
  BY PiecesTyped, FlattenTyped, Zenon
<1>2. /\ s.sets = r.columns /\ p = r.values \o z /\ r.columns \in Seq(Column)
      /\ Len(r.columns) = Len(r.values)
  BY Zenon DEF StatementIs, ParamsOf, RequestTyped
<1> HIDE DEF u, v
<1>3. /\ s.sets \in Seq(Column) /\ a \in Nat /\ Len(u) \in Nat /\ Len(v) \in Nat
      /\ Len(r.values) = a
  BY <1>1, <1>2
<1>4. Joined(u, v) /\ z \in Seq(Parameter)
  BY <1>1, TwoJoined, Zenon
<1>5. Joined(r.values, z)
  BY <1>1, <1>4, TwoJoined, Zenon
<1>6. /\ Len(z) = Len(u) + Len(v) /\ \A d \in 1 .. Len(u) : z[d] = u[d]
      /\ \A d \in 1 .. Len(v) : z[Len(u) + d] = v[d]
  BY <1>4, Zenon DEF Joined
<1>7. Len(p) = a + Len(z) /\ \A d \in 1 .. Len(z) : p[a + d] = z[d]
  BY <1>2, <1>3, <1>5, Zenon DEF Joined
<1> HIDE DEF z, p, a
<1>8. ASSUME NEW d \in 1 .. Len(u) PROVE p[a + d] = u[d]
  <2>1. d \in 1 .. Len(z)
    BY <1>3, <1>6
  <2>2. QED
    BY <1>6, <1>7, <2>1
<1>9. ASSUME NEW d \in 1 .. Len(v) PROVE p[(a + Len(u)) + d] = v[d]
  <2>1. Len(u) + d \in 1 .. Len(z) /\ a + (Len(u) + d) = (a + Len(u)) + d
    BY <1>3, <1>6
  <2>2. QED
    BY <1>6, <1>7, <2>1
<1>10. Len(p) = (a + Len(u)) + Len(v)
  BY <1>3, <1>6, <1>7
<1>11. QED
  BY <1>3, <1>8, <1>9, <1>10, Zenon DEF Bound, p, a, u, v

\* The statement runs, and WHERE lets through the rows that were asked for.
LEMMA WhereIsAsked ==
  ASSUME NEW r, NEW s, RequestTyped(r), StatementIs(r, s), NEW row \in AnyRow
  PROVE  /\ Runs(s, row)
         /\ Where(s, row) <=>
              /\ \A e \in ToSet(r.conditions) : Meets(row, e)
              /\ r.method = "search" =>
                    \E c \in ToSet(r.scolumns) : row[c] # Null /\ HasPart(row[c], r.text)
<1> DEFINE n == Len(r.scolumns)
           m == Len(r.conditions)
           q == LikesOf(r.scolumns)
           p == ClausesOf(r.conditions)
           patterns == PatternsOf(r.scolumns, r.text)
           bound == BoundOf(r.conditions)
           u == FlattenSeq(patterns)
           v == FlattenSeq(bound)
           There == \E c \in ToSet(r.scolumns) : row[c] # Null /\ HasPart(row[c], r.text)
           Met == \A e \in ToSet(r.conditions) : Meets(row, e)
           Some == Together(q, patterns, row, "or", n)
           All == Together(p, bound, row, "and", m)
<1>1. /\ r.scolumns \in Seq(Column) /\ r.conditions \in Seq(AnyCondition)
      /\ (r.method = "search" <=> r.scolumns # <<>>)
  BY DEF RequestTyped
<1>2. Fits(q, patterns, n) /\ Fits(p, bound, m)
  BY ClausesFit, Zenon
<1>3. /\ s.sets \in Seq(Column) /\ Len(s.sets) \in Nat /\ Len(u) \in Nat /\ Len(v) \in Nat
      /\ Bound(s, Len(s.sets), u) /\ Bound(s, Len(s.sets) + Len(u), v)
      /\ Len(s.params) = (Len(s.sets) + Len(u)) + Len(v)
  BY ParamsStand, Zenon
<1>4. (Some <=> There) /\ (All <=> Met)
  BY LikesSay, ConditionsSay, Zenon
<1>5. /\ r.scolumns = <<>> => s.where = Join(p, "and")
      /\ r.scolumns # <<>> /\ r.conditions = <<>> => s.where = Braced(Join(q, "or")) \o <<>>
      /\ r.scolumns # <<>> /\ r.conditions # <<>> =>
            s.where = Braced(Join(q, "or")) \o (<<Mark("and")>> \o Braced(Join(p, "and")))
  BY Zenon DEF StatementIs, WhereOf
<1>6. /\ r.scolumns = <<>> => patterns = <<>> /\ u = <<>>
      /\ r.scolumns # <<>> => q # <<>>
      /\ r.conditions = <<>> => p = <<>> /\ bound = <<>> /\ v = <<>>
      /\ r.conditions # <<>> => p # <<>>
  <2>1. PatternsOf(<<>>, r.text) = <<>> /\ ClausesOf(<<>>) = <<>> /\ BoundOf(<<>>) = <<>>
    BY EmptySeq DEF PatternsOf, ClausesOf, BoundOf
  <2>2. FlattenSeq(<<>>) = <<>>
    BY EmptySeq DEF FlattenSeq
  <2>3. Len(q) = n /\ Len(p) = m /\ Len(<<>>) = 0
    BY <1>2 DEF Fits
  <2>4. (r.scolumns # <<>> => n # 0) /\ (r.conditions # <<>> => m # 0)
    BY <1>1, EmptySeq
  <2>5. QED
    BY <2>1, <2>2, <2>3, <2>4, Zenon
<1>7. "and" \in {"and", "or"} /\ "or" \in {"and", "or"}
  OBVIOUS
<1> HIDE DEF n, m, q, p, patterns, bound, There, Met
<1>8. (r.conditions = <<>> => Met) /\ (r.scolumns = <<>> => (There <=> FALSE))
  BY DEF Met, There, ToSet
<1> DEFINE Good == (r.scolumns # <<>> => There) /\ Met
<1>9. CASE s.where # <<>> /\ Ends(Evaluated(s, row), s, Good)
  <2>1. Evaluated(s, row).used = Len(s.params) /\ Len(Evaluated(s, row).nest) = 1
        /\ ~Head(Evaluated(s, row).nest).due
        /\ (Holds(Head(Evaluated(s, row).nest)) <=> Good)
    BY <1>9, Zenon DEF Ends
  <2> HIDE DEF Good
  <2>2. Runs(s, row) /\ (Where(s, row) <=> Good)
    BY <1>9, <2>1, Zenon DEF Runs, Where
  <2>3. QED
    BY <1>1, <2>2, Zenon DEF Good, Met, There
<1>10. CASE r.scolumns = <<>> /\ r.conditions = <<>>
  <2>1. s.where = <<>> /\ Len(s.params) = Len(s.sets)
    <3>1. Join(<<>>, "and") = <<>>
      BY DEF Join
    <3>2. s.where = <<>>
      BY <1>5, <1>6, <1>10, <3>1, Zenon
    <3>3. Len(u) = 0 /\ Len(v) = 0
      BY <1>6, <1>10
    <3>4. QED
      BY <1>3, <3>2, <3>3
  <2>2. Len(s.where) = 0 /\ s.where \in Seq(Token)
    BY <2>1
  <2>3. PICK x : Reads(x, s, row) /\ Evaluated(s, row) = x[Len(s.where)]
    BY <1>3, <2>2, EvaluatedReads, Zenon
  <2>4. At(x[0], Len(s.sets), Open, <<>>)
    BY <1>3, <2>3, AtStart, Zenon
  <2>5. Evaluated(s, row).used = Len(s.params)
    BY <2>1, <2>2, <2>3, <2>4 DEF At
  <2>6. Runs(s, row) /\ Where(s, row)
    BY <2>1, <2>5, Zenon DEF Runs, Where
  <2>7. QED
    BY <1>1, <1>8, <1>10, <2>6, Zenon DEF Met
<1>11. CASE r.scolumns = <<>> /\ r.conditions # <<>>
  <2>1. Len(u) = 0
    BY <1>6, <1>11
  <2>2. Len(s.sets) + Len(u) = Len(s.sets)
    BY <1>3, <2>1
  <2>3. Bound(s, Len(s.sets), v) /\ Len(s.params) = Len(s.sets) + Len(v)
    BY <1>3, <2>2, Zenon
  <2>4. s.where # <<>> /\ Ends(Evaluated(s, row), s, All)
    BY <1>2, <1>3, <1>5, <1>6, <1>7, <1>11, <2>3, JoinedEnds, Zenon DEF Written
  <2>5. Ends(Evaluated(s, row), s, Good)
    BY <1>4, <1>11, <2>4, Zenon DEF Ends
  <2>6. QED
    BY <1>9, <2>4, <2>5, Zenon
<1>12. CASE r.scolumns # <<>> /\ r.conditions = <<>>
  <2>1. Len(v) = 0
    BY <1>6, <1>12
  <2>2. Len(s.params) = Len(s.sets) + Len(u)
    BY <1>3, <2>1
  <2>3. s.where = Braced(Join(q, "or"))
    <3>1. q \in Seq(ClauseType) /\ q # <<>>
      BY <1>2, <1>6, <1>12, Zenon DEF Fits
    <3> DEFINE z == Join(q, "or")
    <3>2. z \in Seq(Token)
      BY <3>1, JoinIs DEF Marks
    <3> HIDE DEF z
    <3>3. Braced(z) \in Seq(Token)
      BY <3>2, BracedIs
    <3>4. Braced(z) \o <<>> = Braced(z)
      BY <3>3, ConcatEmptySeq
    <3>5. QED
      BY <1>5, <1>12, <3>4, Zenon DEF z
  <2>4. s.where # <<>> /\ Ends(Evaluated(s, row), s, Some)
    BY <1>2, <1>3, <1>6, <1>7, <1>12, <2>2, <2>3, BracedEnds, Zenon DEF Written
  <2>5. Ends(Evaluated(s, row), s, Good)
    BY <1>4, <1>8, <1>12, <2>4, Zenon DEF Ends
  <2>6. QED
    BY <1>9, <2>4, <2>5, Zenon
<1>13. CASE r.scolumns # <<>> /\ r.conditions # <<>>
  <2>1. s.where = Braced(Join(q, "or")) \o (<<Mark("and")>> \o Braced(Join(p, "and")))
    BY <1>5, <1>13, Zenon
  <2>2. s.where # <<>> /\ Ends(Evaluated(s, row), s, Some /\ All)
    BY <1>2, <1>3, <1>6, <1>13, <2>1, BothEnd, Zenon
  <2>3. Ends(Evaluated(s, row), s, Good)
    BY <1>4, <1>13, <2>2, Zenon DEF Ends
  <2>4. QED
    BY <1>9, <2>2, <2>3, Zenon
<1>14. QED
  BY <1>10, <1>11, <1>12, <1>13, Zenon

\* The first parameters of a statement are the values it assigns.
LEMMA AssignedIs ==
  ASSUME NEW r, NEW s, RequestTyped(r), StatementIs(r, s), NEW row
  PROVE  Assigned(row, s.sets, s.params) = Assigned(row, r.columns, r.values)
<1> DEFINE columns == r.columns
           values == r.values
           z == ParamsOf(r)
           Place(c) == CHOOSE i \in DOMAIN columns : columns[i] = c
<1>1. columns \in Seq(Column) /\ Len(columns) = Len(values)
  BY DEF RequestTyped
<1>2. s.sets = columns /\ s.params = values \o z
  BY Zenon DEF StatementIs
<1>3. values \in Seq(Parameter) /\ z \in Seq(Parameter)
  <2>1. /\ FlattenSeq(PatternsOf(r.scolumns, r.text)) \in Seq(Parameter)
        /\ FlattenSeq(BoundOf(r.conditions)) \in Seq(Parameter) /\ values \in Seq(Parameter)
    BY PiecesTyped, FlattenTyped, Zenon
  <2>2. QED
    BY <2>1, TwoJoined, Zenon DEF ParamsOf
<1> HIDE DEF z
<1>4. Joined(values, z)
  BY <1>3, TwoJoined, Zenon
<1>5. \A i \in 1 .. Len(values) : (values \o z)[i] = values[i]
  BY <1>4, Zenon DEF Joined
<1>6. DOMAIN columns = 1 .. Len(columns)
  BY <1>1, LenProperties
<1>7. ASSUME NEW c \in Column, Contains(columns, c) PROVE s.params[Place(c)] = values[Place(c)]
  <2>1. \E i \in DOMAIN columns : columns[i] = c
    BY <1>6, <1>7, Zenon DEF Contains
  <2>2. Place(c) \in DOMAIN columns
    BY <2>1, Zenon
  <2> HIDE DEF Place
  <2>3. QED
    BY <1>1, <1>2, <1>5, <1>6, <2>2
<1>8. QED
  <2> DEFINE A(p) == [c \in Column |-> IF Contains(columns, c) THEN p[Place(c)] ELSE row[c]]
  <2>1. \A c \in Column : (IF Contains(columns, c) THEN s.params[Place(c)] ELSE row[c])
                          = (IF Contains(columns, c) THEN values[Place(c)] ELSE row[c])
    BY <1>7, Zenon
  <2>2. A(s.params) = A(values)
    <3> HIDE DEF Place
    <3>1. QED
      BY <2>1
  <2>3. Assigned(row, columns, s.params) = A(s.params) /\ Assigned(row, columns, values) = A(values)
    BY DEF Assigned
  <2>4. Assigned(row, s.sets, s.params) = Assigned(row, columns, s.params)
    BY <1>2
  <2>5. QED
    BY <2>2, <2>3, <2>4, Zenon

\* Whatever a method is called with - texts, values, lists and conditions of any
\* length, None among them or not - its statement can be read to the end and has a
\* parameter for each place, and it answers, writes or deletes a row exactly as the
\* arguments say: the clauses that were joined by AND, OR and parentheses are read as
\* they were meant (objects.py:55-96, 272, 277).
THEOREM AnyRequestAsAsked ==
  ASSUME NEW r, RequestTyped(r), NEW row \in AnyRow
  PROVE  Runs(StatementOf(r), row) /\ Effect(StatementOf(r), row) = Asked(r, row)
<1> DEFINE s == StatementOf(r)
<1>1. StatementIs(r, s)
  BY StatementOfIs, Zenon
<1> HIDE DEF s
<1>2. /\ Runs(s, row)
      /\ Where(s, row) <=>
           /\ \A e \in ToSet(r.conditions) : Meets(row, e)
           /\ r.method = "search" =>
                 \E c \in ToSet(r.scolumns) : row[c] # Null /\ HasPart(row[c], r.text)
  BY <1>1, WhereIsAsked, Zenon
<1>3. Assigned(row, s.sets, s.params) = Assigned(row, r.columns, r.values)
  BY <1>1, AssignedIs, Zenon
<1>4. Effect(s, row) = Asked(r, row)
  BY <1>2, <1>3, Zenon DEF Effect, Asked
<1>5. QED
  BY <1>2, <1>4, Zenon DEF s

\* The rows that a run looks at are among those.
LEMMA RowsTyped ==
  ASSUME NEW r, NEW row \in RowsFor(r)
  PROVE  row \in AnyRow
<1>1. Value \subseteq AnyValue /\ Text \subseteq AnyValue /\ Null \in AnyValue
  BY ModelTyped DEF AnyValue
<1>2. CASE r.method = "search"
  <2>1. PICK d \in Column, x \in Text, y \in Value :
           row = [b \in Column |-> IF b = d THEN x ELSE y]
    BY <1>2 DEF RowsFor
  <2>2. QED
    BY <1>1, <2>1 DEF AnyRow
<1>3. CASE r.method = "create"
  <2>1. row = [c \in Column |-> Null]
    BY <1>3 DEF RowsFor
  <2>2. QED
    BY <1>1, <2>1 DEF AnyRow
<1>4. CASE r.method \notin {"search", "create"}
  <2>1. row \in [Column -> Value]
    BY <1>4 DEF RowsFor, Row
  <2>2. QED
    BY <1>1, <2>1 DEF AnyRow
<1>5. QED
  BY <1>2, <1>3, <1>4

\* The requests of the model are such calls.
LEMMA RequestsAsAsked ==
  \A r \in Request : AsAsked(r)
<1> SUFFICES ASSUME NEW r \in Request PROVE AsAsked(r)
  OBVIOUS
<1>1. RequestTyped(r)
  BY RequestIs, Zenon
<1>2. \A row \in AnyRow : Runs(StatementOf(r), row) /\ Effect(StatementOf(r), row) = Asked(r, row)
  BY <1>1, AnyRequestAsAsked, Zenon
<1>3. \A row \in RowsFor(r) : row \in AnyRow
  BY RowsTyped, Zenon
<1>4. QED
  BY <1>2, <1>3, Zenon DEF AsAsked

\* Each action runs no statement, or one that is of such a call.
LEMMA OnlyQueryStrays ==
  ASSUME NEW t \in Thread, ThreadStep(t)
  PROVE  UNCHANGED stray \/ RunStatement
<1>1. CASE Query(t)
  BY <1>1 DEF Query
<1>2. CASE Start(t) \/ End(t) \/ Disconnect(t) \/ BeginSweep(t) \/ SweepOne(t) \/ EndSweep(t)
           \/ BreakSweep(t)
  BY <1>2 DEF Start, End, Disconnect, BeginSweep, SweepOne, EndSweep, BreakSweep, callvars
<1>3. CASE Connect(t) \/ Commit(t)
  BY <1>3 DEF Connect, Commit
<1>4. QED
  BY <1>1, <1>2, <1>3 DEF ThreadStep

\* Every statement that runs, on whatever connection and in whatever order, does
\* what its call asked for (objects.py:55-96 and the methods that call them).
THEOREM StatementsDoAsAsked == Spec => []StatementsAsAsked
<1>1. Init => StatementsAsAsked
  BY DEF Init, StatementsAsAsked
<1>2. Outcomes \subseteq {TRUE}
  <2>1. ASSUME NEW r \in Request PROVE AsAsked(r) = TRUE
    BY RequestsAsAsked, Zenon
  <2>2. QED
    BY <2>1 DEF Outcomes
<1>3. StatementsAsAsked /\ [Next]_vars => StatementsAsAsked'
  <2> SUFFICES ASSUME ~stray, [Next]_vars PROVE ~stray'
    BY DEF StatementsAsAsked
  <2>1. RunStatement => ~stray'
    BY <1>2 DEF RunStatement
  <2>2. CASE UNCHANGED vars
    BY <2>2 DEF vars, callvars
  <2>3. CASE \E t \in Thread : ThreadStep(t)
    BY <2>1, <2>3, OnlyQueryStrays
  <2>4. CASE \E c \in Conn : Drop(c)
    BY <2>4, DropEffect DEF callvars
  <2>5. QED
    BY <2>2, <2>3, <2>4 DEF Next
<1>4. QED
  BY <1>1, <1>3, PTL DEF Spec
=============================================================================
