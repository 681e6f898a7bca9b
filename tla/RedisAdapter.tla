----------------------------- MODULE RedisAdapter -----------------------------
(***************************************************************************)
(* DWhoAdapterRedis of dwho.adapters.redis: one call is a loop over the    *)
(* selected servers, with one or two commands for each, that the first     *)
(* error ends; and DWhoNotifierRedis.send of dwho.classes.notifiers, which *)
(* connects an adapter of its own, makes one such call and disconnects.    *)
(*                                                                         *)
(* The servers are external.  A command is carried out and answered,       *)
(* carried out without its answer reaching the client, or not carried out. *)
(* One string, one hash and one stream on each server stand for all keys.  *)
(* Each HSET writes a field of its own, which is named by its call.  What  *)
(* sets hold is left out, as no property tells it apart.                   *)
(***************************************************************************)
EXTENDS Integers, FiniteSets

CONSTANTS Server, Client, Shared, NoCall, MaxClientCalls

ASSUME RedisAdapterAssumption ==
    /\ Server # {}
    /\ Shared \notin Client
    /\ MaxClientCalls \in Nat

ClientCall == Client \X (1..MaxClientCalls)     \* a call: its client and its count
Adapter == Client \cup {Shared}     \* one that all share, and one of each send

VARIABLES
    phase,      \* where each client is
    op,         \* the method that it calls
    count,      \* how many calls it has made
    selected,   \* the servers that `servers` and `prefix` select
    wanted,     \* the fields that hget_key and hdel_key name
    todo,       \* those that the loop has yet to visit
    at,         \* the server between the two commands of one pass
    done,       \* the servers that carried out the command of the call
    conn,       \* conn[a]: the servers that adapter a has a connection for
    value,      \* value[s]: the call whose SET the string holds, or NoCall
    fields,     \* fields[s]: the calls whose HSET the hash holds
    expiring,   \* the servers where the hash has a time to live
    stream,     \* stream[s][k]: how many entries call k added to the stream
    missing,    \* missing[c]: the servers that at some time of the call of c
                \* did not hold the string or the field that it reads
    found,      \* found[c]: the keys collected on the server that c scans
    due,        \* due[c]: those of that server since the scan began
    told        \* told[k]: what call k answered

loop == <<op, count, selected, wanted>>
server == <<value, fields, expiring, stream>>
adapterVars == <<phase, loop, todo, at, done, conn, server, missing, found, due, told>>

Send == {"send_set", "send_xadd"}
\* "members" is sadd, srem or sort, and "ask" is ping or exists.
Loop == {"set_key", "xadd", "hset", "hset_expire", "del_key", "hdel_key", "members", "ask"}
        \cup Send
Get == {"get_key", "hget_key"}
Op == Loop \cup Get \cup {"expire", "has_key", "keys"}
Step == {"idle", "command", "get", "expire", "scan", "disconnect"}
Key == {"string", "hash", "stream"}

AdapterTypeOK ==
    /\ phase \in [Client -> Step]
    /\ op \in [Client -> Op]
    /\ count \in [Client -> 0..MaxClientCalls]
    /\ selected \in [Client -> SUBSET Server]
    /\ wanted \in [Client -> SUBSET ClientCall]
    /\ todo \in [Client -> SUBSET Server]
    /\ at \in [Client -> Server]
    /\ done \in [Client -> SUBSET Server]
    /\ conn \in [Adapter -> SUBSET Server]
    /\ value \in [Server -> ClientCall \cup {NoCall}]
    /\ fields \in [Server -> SUBSET ClientCall]
    /\ expiring \subseteq {s \in Server : fields[s] # {}}
    /\ stream \in [Server -> [ClientCall -> 0..2]]
    /\ missing \in [Client -> SUBSET Server]
    /\ found \in [Client -> SUBSET Key] /\ due \in [Client -> SUBSET Key]
    /\ told \in [ClientCall -> {"nothing", "returned", "none", "raised"}]

AdapterInit ==
    /\ phase = [c \in Client |-> "idle"] /\ op = [c \in Client |-> "get_key"]
    /\ count = [c \in Client |-> 0]
    /\ selected = [c \in Client |-> {}] /\ todo = [c \in Client |-> {}]
    /\ wanted = [c \in Client |-> {}]
    /\ at = [c \in Client |-> CHOOSE s \in Server : TRUE]
    /\ done = [c \in Client |-> {}]
    /\ conn = [a \in Adapter |-> IF a = Shared THEN Server ELSE {}]   \* load
    /\ value = [s \in Server |-> NoCall]
    /\ fields = [s \in Server |-> {}] /\ expiring = {}
    /\ stream = [s \in Server |-> [k \in ClientCall |-> 0]]
    /\ missing = [c \in Client |-> {}]
    /\ found = [c \in Client |-> {}] /\ due = [c \in Client |-> {}]
    /\ told = [k \in ClientCall |-> "nothing"]

Now(c) == <<c, count[c]>>
Using(c) == IF op[c] \in Send THEN c ELSE Shared
Go(c, step) == phase' = [phase EXCEPT ![c] = step]

\* The keys of server s, whether it has the one that c's call is about, and whether
\* that one has what the call reads: a hash may lack the field.
Held(s) == {k \in Key : CASE k = "string" -> value[s] # NoCall
                          [] k = "hash" -> fields[s] # {}
                          [] k = "stream" -> \E d \in ClientCall : stream[s][d] > 0}
Has(c, s) == (IF op[c] = "get_key" THEN "string" ELSE "hash") \in Held(s)
Finds(c, s) == Has(c, s) /\ wanted[c] \subseteq fields[s]

-----------------------------------------------------------------------------
(* The effect of a command                                                 *)

Sets(c) == op[c] \in {"set_key", "send_set"}
Adds(c) == op[c] \in {"xadd", "send_xadd"}
Hashes(c) == op[c] \in {"hset", "hset_expire"}

\* The fields that DEL and HDEL remove.
Removed(c) == IF op[c] = "del_key" THEN ClientCall
              ELSE IF op[c] = "hdel_key" THEN wanted[c] ELSE {}

\* The main command of a pass, carried out by s.  A hash without fields is gone, and
\* its time to live with it.
Execute(c, s) ==
    /\ value' = [value EXCEPT ![s] = IF Sets(c) THEN Now(c)
                                     ELSE IF op[c] = "del_key" THEN NoCall ELSE @]
    /\ fields' = [fields EXCEPT ![s] = IF Hashes(c) THEN @ \cup {Now(c)}
                                       ELSE @ \ Removed(c)]
    /\ expiring' = IF fields'[s] = {} THEN expiring \ {s} ELSE expiring
    /\ stream' = IF Adds(c) THEN [stream EXCEPT ![s][Now(c)] = @ + 1] ELSE stream
    /\ done' = [done EXCEPT ![c] = @ \cup {s}]

\* EXPIRE, carried out by s: nothing for a hash that is not there.
ExpireKey_Skipped(s) == UNCHANGED expiring
ExpireKey(s) ==
    expiring' = IF fields[s] # {} THEN expiring \cup {s} ELSE expiring

-----------------------------------------------------------------------------
(* The end of a call                                                       *)

\* A send disconnects its adapter in a finally block.
Answer(c, what) ==
    /\ told' = [told EXCEPT ![Now(c)] = what]
    /\ Go(c, IF op[c] \in Send THEN "disconnect" ELSE "idle")

Disconnect(c) ==
    /\ phase[c] = "disconnect"
    /\ conn' = [conn EXCEPT ![c] = {}]
    /\ Go(c, "idle")
    /\ UNCHANGED <<loop, todo, at, done, server, found, told>>

-----------------------------------------------------------------------------
(* A call: the selection, and one pass of the loop                         *)

\* A send has one server of its own, "notifier"; a call on the shared adapter
\* visits the servers that its arguments select, which may be none.  hget_key names a
\* field, hdel_key one or several.
Begin(c) ==
    /\ phase[c] = "idle" /\ count[c] < MaxClientCalls
    /\ count' = [count EXCEPT ![c] = @ + 1]
    /\ \E o \in Op, sel \in SUBSET Server, named \in SUBSET ClientCall :
          /\ o \in Send => Cardinality(sel) = 1
          /\ (named = {}) <=> (o \notin {"hget_key", "hdel_key"})
          /\ o = "hget_key" => Cardinality(named) = 1
          /\ op' = [op EXCEPT ![c] = o]
          /\ selected' = [selected EXCEPT ![c] = sel]
          /\ wanted' = [wanted EXCEPT ![c] = named]
          /\ todo' = [todo EXCEPT ![c] = sel]
          /\ conn' = IF o \in Send THEN [conn EXCEPT ![c] = sel] ELSE conn
    /\ done' = [done EXCEPT ![c] = {}]
    /\ Go(c, "command")
    /\ UNCHANGED <<at, server, found, told>>

\* The servers left after the pass for s was answered.
Left_First(c, s) == {}
Left(c, s) == todo[c] \ {s}

\* The command of a write and its answer; hset_key with an expiry has a second
\* command to send to the same server.
Answered(c, s) ==
    /\ s \in conn[Using(c)]
    /\ Execute(c, s)
    /\ IF op[c] = "hset_expire"
       THEN Go(c, "expire") /\ at' = [at EXCEPT ![c] = s] /\ UNCHANGED todo
       ELSE todo' = [todo EXCEPT ![c] = Left(c, s)] /\ UNCHANGED <<phase, at>>
    /\ UNCHANGED <<found, told>>

\* An error: of the server or the network before the command was carried out
\* or after it, or an AttributeError because the adapter was disconnected.
Lost(c, s) ==
    /\ s \in conn[Using(c)]
    /\ Execute(c, s)
    /\ Answer(c, "raised")
    /\ UNCHANGED <<todo, at, found>>

Refused_Swallowed(c) ==
    /\ \E s \in todo[c] : todo' = [todo EXCEPT ![c] = @ \ {s}]
    /\ Go(c, "command")
    /\ UNCHANGED <<told, at, done, server, found>>
Refused(c) ==
    /\ Answer(c, "raised")
    /\ UNCHANGED <<todo, at, done, server, found>>

WriteCommand(c) ==
    /\ phase[c] = "command" /\ op[c] \in Loop
    /\ \E s \in todo[c] : Answered(c, s) \/ Lost(c, s) \/ Refused(c)
    /\ UNCHANGED <<loop, conn>>

\* The second command of hset_key, and that of expire.
ExpireCommand(c) ==
    /\ phase[c] = "expire"
    /\ \/ /\ at[c] \in conn[Using(c)]
          /\ ExpireKey(at[c])
          /\ \/ /\ todo' = [todo EXCEPT ![c] = Left(c, at[c])]
                /\ Go(c, "command")
                /\ UNCHANGED told
             \/ Answer(c, "raised") /\ UNCHANGED todo
          /\ UNCHANGED <<at, done, value, fields, stream, found>>
       \/ Refused(c)
    /\ UNCHANGED <<loop, conn>>

\* EXISTS, which these send first: a server without the key is passed over.
ExistsCommand(c) ==
    /\ phase[c] = "command" /\ op[c] \in Get \cup {"expire"}
    /\ \E s \in todo[c] :
          \/ /\ s \in conn[Using(c)]
             /\ IF Has(c, s)
                THEN /\ Go(c, IF op[c] \in Get THEN "get" ELSE "expire")
                     /\ at' = [at EXCEPT ![c] = s]
                     /\ UNCHANGED todo
                ELSE /\ todo' = [todo EXCEPT ![c] = Left(c, s)]
                     /\ UNCHANGED <<phase, at>>
             /\ UNCHANGED <<done, server, found, told>>
          \/ Refused(c)
    /\ UNCHANGED <<loop, conn>>

\* has_key answers for the first server that is selected, and asks no other.
HasKey(c) ==
    /\ phase[c] = "command" /\ op[c] = "has_key"
    /\ \E s \in todo[c] :
          \/ s \in conn[Using(c)] /\ Answer(c, "returned")
          \/ Answer(c, "raised")
    /\ UNCHANGED <<loop, todo, at, done, conn, server, found>>

\* GET or HGET on the server that had the key: it may be gone by now, or be a hash
\* without the field.  The answer is that of the call; no other server is asked.
GetCommand(c) ==
    /\ phase[c] = "get"
    /\ \/ /\ at[c] \in conn[Using(c)]
          /\ Answer(c, IF Finds(c, at[c]) THEN "returned" ELSE "none")
       \/ Answer(c, "raised")
    /\ UNCHANGED <<loop, todo, at, done, conn, server, found>>

\* Mutant: a page without keys is taken for the last one.
LastPage_Empty(zero, page) == zero \/ page = {}
\* The last page is the one that comes with the cursor 0.
LastPage(zero, page) == zero

\* One SCAN of the loop of `keys` on server s.  The server answers any of its keys,
\* again or for the first time, or none, and the cursor 0 not before each key that
\* it held throughout was answered.
Scan(c, s) ==
    \E page \in SUBSET Held(s), zero \in BOOLEAN :
       LET new == phase[c] = "command"
           all == IF new THEN page ELSE found[c] \cup page
       IN  /\ zero => (IF new THEN Held(s) ELSE due[c]) \subseteq all
           /\ found' = [found EXCEPT ![c] = all]
           /\ at' = [at EXCEPT ![c] = s]
           /\ IF LastPage(zero, page)
              THEN Go(c, "command") /\ todo' = [todo EXCEPT ![c] = Left(c, s)]
              ELSE Go(c, "scan") /\ UNCHANGED todo

ScanCommand(c) ==
    /\ phase[c] \in {"command", "scan"} /\ op[c] = "keys"
    /\ \E s \in IF phase[c] = "scan" THEN {at[c]} ELSE todo[c] :
          \/ s \in conn[Using(c)] /\ Scan(c, s) /\ UNCHANGED <<done, server, told>>
          \/ Refused(c)
    /\ UNCHANGED <<loop, conn>>

\* The loop has visited every server.
Return(c) ==
    /\ phase[c] = "command" /\ todo[c] = {}
    /\ Answer(c, IF op[c] \in Get \cup {"has_key"} THEN "none" ELSE "returned")
    /\ UNCHANGED <<loop, todo, at, done, conn, server, found>>

-----------------------------------------------------------------------------
(* The rest                                                                *)

\* disconnect(name) and connect(name) on the shared adapter, by any thread.
DisconnectName(s) ==
    /\ conn' = [conn EXCEPT ![Shared] = @ \ {s}]
    /\ UNCHANGED <<phase, loop, todo, at, done, server, found, told>>
ConnectName(s) ==
    /\ conn' = [conn EXCEPT ![Shared] = @ \cup {s}]
    /\ UNCHANGED <<phase, loop, todo, at, done, server, found, told>>

\* A string with a time to live expires, and so does a hash.
ExpireString(s) ==
    /\ value[s] # NoCall
    /\ value' = [value EXCEPT ![s] = NoCall]
    /\ UNCHANGED <<phase, loop, todo, at, done, conn, fields, expiring, stream, found, told>>
ExpireHash(s) ==
    /\ s \in expiring
    /\ expiring' = expiring \ {s} /\ fields' = [fields EXCEPT ![s] = {}]
    /\ UNCHANGED <<phase, loop, todo, at, done, conn, value, stream, found, told>>

ClientStep(c) ==
    \/ Begin(c) \/ WriteCommand(c) \/ ExpireCommand(c) \/ ExistsCommand(c) \/ HasKey(c)
    \/ GetCommand(c) \/ ScanCommand(c) \/ Return(c) \/ Disconnect(c)

\* The histories, which concern the current call of a reader only.
Watch ==
    /\ missing' = [c \in Client |->
           IF phase'[c] = "idle" \/ op'[c] \notin Get THEN {}
           ELSE (IF phase[c] = "idle" THEN {} ELSE missing[c])
                    \cup {s \in Server : ~Finds(c, s)'}]
    /\ due' = [c \in Client |->
           IF phase'[c] # "scan" THEN {}
           ELSE Held(at[c])' \cap (IF phase[c] = "scan" THEN due[c] ELSE Key)]

AdapterNext ==
    /\ \/ \E c \in Client : ClientStep(c)
       \/ \E s \in Server : \/ DisconnectName(s) \/ ConnectName(s)
                            \/ ExpireString(s) \/ ExpireHash(s)
    /\ Watch

AdapterSpec == AdapterInit /\ [][AdapterNext]_adapterVars

-----------------------------------------------------------------------------
(* Properties                                                              *)

Ends(c, what) ==
    count[c] > 0 /\ told[Now(c)] = "nothing" /\ told'[Now(c)] = what

\* A write that returned was carried out on every server it selected, however
\* many failures and disconnections there were, and an entry was added once: an
\* error is never swallowed, no server skipped and no command sent again.
ReturnedEverywhere ==
    [][\A c \in Client : Ends(c, "returned") /\ op[c] \in Loop =>
          /\ done[c] = selected[c]
          /\ Adds(c) => \A s \in selected[c] : stream[s][Now(c)] = 1]_adapterVars

\* get_key and hget_key answer None only when each selected server was without the string
\* or the field at some time of the call, or when one that had the key was: it lost the key
\* before GET or HGET, or its hash has other fields only.  Such a server ends the search,
\* though a later one may have the field.
MissIsReal ==
    [][\A c \in Client :
          Ends(c, "none") =>
             IF phase[c] = "get" THEN at[c] \in missing[c]
                              ELSE selected[c] \subseteq missing[c]]_adapterVars

\* `keys` lists every key that the server held while it was scanned, however other
\* clients write and delete meanwhile, and however the server cuts its pages.
KeysComplete ==
    [][\A c \in Client :
          op[c] = "keys" /\ phase'[c] = "command" /\ todo'[c] # todo[c] /\ phase[c] # "idle" =>
             (IF phase[c] = "scan" THEN due[c] ELSE Held(at[c])')
                 \subseteq found'[c]]_adapterVars

\* The fields that an hset_key with an expiry returned for are in a hash that
\* expires, whatever other clients delete and write between its two commands.
HashExpires ==
    \A c \in Client, s \in Server :
       phase[c] = "idle" /\ count[c] > 0 /\ op[c] = "hset_expire" =>
          (told[Now(c)] = "returned" /\ Now(c) \in fields[s] => s \in expiring)
=============================================================================
