------------------------- MODULE RedisSessionsProofs -------------------------
(***************************************************************************)
(* Proofs about RedisSessions, for every number of clients, tokens and     *)
(* commands that arrive late, and every TTL and clock resolution.          *)
(***************************************************************************)
EXTENDS RedisSessions, TLAPS

-----------------------------------------------------------------------------
(* Arithmetic of the expiry computations.                                  *)

\* A product of durations is a duration.
LEMMA Duration == ASSUME NEW a \in Nat, NEW b \in Nat PROVE a * b \in Nat
  BY SMT

\* Scaling durations keeps their order.
LEMMA Scaling ==
  ASSUME NEW a \in Int, NEW b \in Int, NEW c \in Nat, a <= b
  PROVE  a * c <= b * c
  BY SMT

\* Rounding the remaining life down to seconds never exceeds it.
LEMMA RenewalBound ==
  ASSUME NEW abs \in Nat, NEW now \in Nat, SessionAssumption
  PROVE  /\ RenewalTTL(abs, now) \in Int
         /\ RenewalTTL(abs, now) * Second <= abs - now
<1> DEFINE q == (abs - now) \div Second
<1>1. q \in Int /\ q * Second <= abs - now
  BY SMT DEF SessionAssumption
<1>2. RenewalTTL(abs, now) \in Int /\ RenewalTTL(abs, now) <= q
  BY <1>1 DEF RenewalTTL, Sooner, SessionAssumption
<1>3. RenewalTTL(abs, now) * Second <= q * Second
  <2>1. Second \in Nat
    BY DEF SessionAssumption
  <2> HIDE DEF q
  <2> QED BY <1>1, <1>2, <2>1, Scaling
<1>4. RenewalTTL(abs, now) * Second \in Int /\ q * Second \in Int
  BY <1>1, <1>2 DEF SessionAssumption
<1> HIDE DEF q
<1> QED BY <1>1, <1>2, <1>3, <1>4

\* The idle TTL fits in the absolute one, in ticks as in seconds.
LEMMA IdleFits ==
  ASSUME SessionAssumption
  PROVE  /\ IdleTTL * Second \in Nat \ {0}
         /\ AbsoluteTTL * Second \in Nat
         /\ IdleTTL * Second <= AbsoluteTTL * Second
  BY SMT DEF SessionAssumption

-----------------------------------------------------------------------------
(* The locals of a call whose backend calls are one command each.          *)

Stage == {"idle", "draw", "check", "expire", "ttl", "touch"}

\* Locals l of a call at stage s, against the clock and the stored records.
Fits(s, l, now, rec) ==
    /\ l.now <= now
    /\ s = "draw" => l.abs = l.now + AbsoluteTTL * Second
    /\ s \in {"check", "expire", "ttl", "touch"} =>
           l.token \in Token /\ l.abs > 0 /\ rec[l.token] = l.abs
    /\ s = "expire" => l.abs <= now
    /\ s = "touch" => l.now + l.ttl * Second <= l.abs

LocalsInv ==
    /\ clock \in Nat /\ record \in [Token -> Nat]
    /\ pc \in [Client -> Stage] /\ call \in [Client -> Call]
    /\ \A c \in Client : Fits(pc[c], call[c], clock, record)

\* A call goes on with fitting locals: what is stored once is not stored again.
LEMMA CallGoesOn ==
  ASSUME LocalsInv, NEW c \in Client, NEW s \in Stage, NEW l \in Call, Continue(c, s, l),
         clock' = clock, record' \in [Token -> Nat],
         \A t \in Token : record[t] # 0 => record'[t] = record[t],
         Fits(s, l, clock, record')
  PROVE  LocalsInv'
<1>1. pc' \in [Client -> Stage] /\ call' \in [Client -> Call]
  BY DEF LocalsInv, Continue
<1>2. ASSUME NEW d \in Client PROVE Fits(pc'[d], call'[d], clock, record')
  <2>1. CASE d = c
    BY <2>1 DEF LocalsInv, Continue
  <2>2. CASE d # c
    <3>1. pc'[d] = pc[d] /\ call'[d] = call[d] /\ Fits(pc[d], call[d], clock, record)
      BY <2>2 DEF LocalsInv, Continue
    <3>2. QED
      BY <3>1 DEF Fits
  <2>3. QED
    BY <2>1, <2>2
<1>3. QED
  BY <1>1, <1>2 DEF LocalsInv

\* No locals at all fit the end of a call.
LEMMA NoCallFits ==
  ASSUME LocalsInv, SessionAssumption
  PROVE  NoCall \in Call /\ \A rec : Fits("idle", NoCall, clock, rec)
  BY DEF NoCall, Call, Draws, Fits, LocalsInv, SessionAssumption

\* A call returns.
LEMMA CallReturns ==
  ASSUME LocalsInv, SessionAssumption, NEW c \in Client, Return(c),
         clock' = clock, record' \in [Token -> Nat],
         \A t \in Token : record[t] # 0 => record'[t] = record[t]
  PROVE  LocalsInv'
<1>1. NoCall \in Call /\ Fits("idle", NoCall, clock, record')
  BY NoCallFits
<1>2. Continue(c, "idle", NoCall) /\ "idle" \in Stage
  BY DEF Return, Stage
<1>3. QED
  BY <1>1, <1>2, CallGoesOn

\* The steps of the manager between two backend calls.
LEMMA ManagerStep ==
  ASSUME LocalsInv, SessionAssumption, NEW c \in Client, NEW drawable,
         BeginCreate(c, drawable) \/ CheckLifetime(c) \/ ComputeTTL(c)
  PROVE  LocalsInv' /\ UNCHANGED <<clock, record, granted, denied, revoked>>
<1>1. /\ UNCHANGED <<clock, record, granted, denied, revoked>>
      /\ record' \in [Token -> Nat] /\ call[c] \in Call /\ clock \in Nat
      /\ Fits(pc[c], call[c], clock, record)
  BY DEF BeginCreate, CheckLifetime, ComputeTTL, LocalsInv
<1>2. /\ call[c].now \in Nat /\ call[c].abs \in Nat /\ call[c].ttl \in Nat
      /\ call[c].token \in Token \cup {NoToken}
  BY <1>1 DEF Call
<1>3. CASE BeginCreate(c, drawable)
  <2> DEFINE l == [NoCall EXCEPT !.now = clock, !.abs = clock + AbsoluteTTL * Second]
  <2>1. clock + AbsoluteTTL * Second \in Nat
    BY <1>1, IdleFits
  <2>2. l \in Call /\ l.now = clock /\ l.abs = clock + AbsoluteTTL * Second
    BY <1>1, <2>1, NoCallFits DEF NoCall, Call
  <2>3. Continue(c, "draw", l)
    BY <1>3 DEF BeginCreate
  <2> HIDE DEF l
  <2>4. Fits("draw", l, clock, record') /\ "draw" \in Stage
    BY <1>1, <2>2 DEF Fits, Stage
  <2>5. QED
    BY <1>1, <2>2, <2>3, <2>4, CallGoesOn
<1>4. CASE CheckLifetime(c)
  <2>1. \/ Return(c)
        \/ call[c].abs <= clock /\ Continue(c, "expire", call[c])
        \/ Continue(c, "ttl", call[c])
    BY <1>4 DEF CheckLifetime
  <2>2. Fits("ttl", call[c], clock, record')
        /\ (call[c].abs <= clock => Fits("expire", call[c], clock, record'))
    BY <1>1, <1>4 DEF CheckLifetime, Fits
  <2>3. "ttl" \in Stage /\ "expire" \in Stage
    BY DEF Stage
  <2>4. QED
    BY <1>1, <2>1, <2>2, <2>3, CallGoesOn, CallReturns
<1>5. CASE ComputeTTL(c)
  <2> DEFINE ttl == RenewalTTL(call[c].abs, clock)
             l == [call[c] EXCEPT !.now = clock, !.ttl = ttl]
  <2>1. ttl \in Int /\ ttl * Second <= call[c].abs - clock
    BY <1>1, <1>2, RenewalBound
  <2>2. pc[c] = "ttl" /\ (Return(c) \/ (ttl >= 1 /\ Continue(c, "touch", l)))
    BY <1>5, <2>1 DEF ComputeTTL
  <2> HIDE DEF ttl
  <2>4. ttl >= 1 => /\ l \in Call /\ l.now = clock /\ l.ttl = ttl
                    /\ l.abs = call[c].abs /\ l.token = call[c].token
    <3> DEFINE k == [call[c] EXCEPT !.now = clock]
    <3>1. /\ k \in Call /\ k.now = clock /\ k.abs = call[c].abs /\ k.token = call[c].token
      BY <1>1, <1>2 DEF Call
    <3>2. l = [k EXCEPT !.ttl = ttl]
      OBVIOUS
    <3> HIDE DEF k, l
    <3>3. QED
      BY <2>1, <3>1, <3>2 DEF Call
  <2>5. ttl >= 1 => clock + ttl * Second <= call[c].abs
    <3>1. ttl * Second \in Int
      BY <2>1 DEF SessionAssumption
    <3>2. QED
      BY <1>1, <1>2, <2>1, <3>1
  <2> HIDE DEF l
  <2>6. ttl >= 1 => Fits("touch", l, clock, record')
    BY <1>1, <2>2, <2>4, <2>5 DEF Fits
  <2>7. "touch" \in Stage
    BY DEF Stage
  <2>8. QED
    BY <1>1, <2>2, <2>4, <2>6, <2>7, CallGoesOn, CallReturns
<1>6. QED
  BY <1>1, <1>3, <1>4, <1>5

-----------------------------------------------------------------------------
(* The inductive invariant, in named parts.                                *)

TypeInv ==
    /\ granted \in [Token -> Nat] /\ entry \in [Token -> Nat]
    /\ revoked \subseteq Token /\ inflight \subseteq Command

\* A token that was never stored has left no trace.
RecordInv == \A t \in Token : record[t] = 0 => entry[t] = Absent /\ granted[t] = 0

\* A SET on its way is the only one for its token, which was never stored.
LateSets == {m \in inflight : m.op = "SET"}
LateInv ==
    \A m \in LateSets :
        /\ record[m.token] = 0 /\ m.abs > 0 /\ m.ttl = IdleTTL
        /\ \A n \in LateSets : n.token = m.token => n = m

StoreInv == RecordInv /\ LateInv /\ GrantWithinLifetime /\ GrantHonoured

IInv == TypeInv /\ LocalsInv /\ StoreInv

\* The variables that the store is seen through.
store == <<record, granted, revoked, entry, inflight>>

\* A step that touches neither store nor clock keeps what is said of them.
LEMMA StoreUnchanged ==
  ASSUME TypeInv, StoreInv, UNCHANGED <<clock, store>>
  PROVE  TypeInv' /\ StoreInv'
  BY DEF store, TypeInv, StoreInv, RecordInv, LateInv, LateSets, GrantWithinLifetime, GrantHonoured

\* What the fields of a command are.
LEMMA CommandFields ==
  ASSUME TypeInv, NEW m \in inflight
  PROVE  m.token \in Token /\ m.abs \in Nat /\ m.ttl \in Nat /\ m.op \in {"SET", "EVAL", "DEL"}
  BY DEF TypeInv, Command

\* The fields of the locals of a call.
LEMMA CallFields ==
  ASSUME LocalsInv, NEW c \in Client
  PROVE  /\ call[c].now \in Nat /\ call[c].abs \in Nat /\ call[c].ttl \in Nat
         /\ clock \in Nat /\ Fits(pc[c], call[c], clock, record)
<1>1. call[c] \in Call /\ clock \in Nat /\ Fits(pc[c], call[c], clock, record)
  BY DEF LocalsInv
<1>2. QED
  BY <1>1 DEF Call

-----------------------------------------------------------------------------
(* Each step keeps the invariant.                                          *)

\* Every command that is not SET leaves the late SETs as they are.
LEMMA OtherCommand ==
  ASSUME LateInv, record' = record, inflight' \subseteq inflight \cup {m \in Command : m.op # "SET"}
  PROVE  LateInv'
  BY DEF LateInv, LateSets

\* The server drops what has expired, which no unexpired grant is for.
LEMMA TickStep == ASSUME SessionAssumption, IInv, Tick PROVE IInv'
<1>1. /\ clock \in Nat /\ clock' = clock + 1
      /\ UNCHANGED <<pc, call, record, granted, revoked, inflight>>
      /\ entry' = [t \in Token |-> IF entry[t] <= clock' THEN Absent ELSE entry[t]]
  BY DEF Tick, IInv, LocalsInv
<1>2. LocalsInv'
  <2>1. ASSUME NEW c \in Client PROVE Fits(pc'[c], call'[c], clock', record')
    BY <1>1, CallFields DEF IInv, Fits
  <2>2. QED
    BY <1>1, <2>1 DEF IInv, LocalsInv
<1>3. TypeInv' /\ RecordInv'
  BY <1>1 DEF IInv, TypeInv, StoreInv, RecordInv, Absent
<1>4. LateInv' /\ GrantWithinLifetime'
  BY <1>1 DEF IInv, StoreInv, LateInv, LateSets, GrantWithinLifetime
<1>5. GrantHonoured'
  BY <1>1 DEF IInv, TypeInv, StoreInv, GrantHonoured, Absent
<1>6. QED
  BY <1>2, <1>3, <1>4, <1>5 DEF IInv, StoreInv

\* SET NX of a token that was never stored: its record, and an expiry ttl ahead.
LEMMA SetStep ==
  ASSUME SessionAssumption, IInv, clock' = clock, UNCHANGED revoked,
         NEW t \in Token, record[t] = 0, NEW abs \in Nat \ {0}, SetIfAbsent(t, abs, IdleTTL),
         inflight' \subseteq inflight, \A m \in inflight' : m.op = "SET" => m.token # t,
         \/ granted' = granted
         \/ \E now \in Nat : /\ now <= clock /\ Grant(t, now + IdleTTL * Second)
                             /\ now + IdleTTL * Second <= abs
  PROVE  /\ TypeInv' /\ StoreInv'
         /\ record' \in [Token -> Nat] /\ \A u \in Token : record[u] # 0 => record'[u] = record[u]
<1>1. /\ TypeInv /\ RecordInv /\ LateInv /\ GrantWithinLifetime /\ GrantHonoured
      /\ record \in [Token -> Nat] /\ entry \in [Token -> Nat] /\ granted \in [Token -> Nat]
      /\ clock \in Nat /\ IdleTTL * Second \in Nat \ {0}
  BY IdleFits DEF IInv, StoreInv, TypeInv, LocalsInv
<1>2. /\ entry[t] = Absent /\ granted[t] = 0
      /\ record' = [record EXCEPT ![t] = abs] /\ entry' = [entry EXCEPT ![t] = clock + IdleTTL * Second]
  BY <1>1 DEF RecordInv, SetIfAbsent
<1>3. /\ granted' \in [Token -> Nat] /\ granted'[t] <= clock + IdleTTL * Second /\ granted'[t] <= abs
      /\ \A u \in Token \ {t} : granted'[u] = granted[u]
  BY <1>1, <1>2 DEF Grant, Later
<1>4. TypeInv' /\ record' \in [Token -> Nat]
  <2>1. clock + IdleTTL * Second \in Nat
    BY <1>1
  <2>2. entry' \in [Token -> Nat] /\ record' \in [Token -> Nat]
    BY <1>1, <1>2, <2>1
  <2>3. QED
    BY <1>1, <1>3, <2>2 DEF TypeInv
<1>5. RecordInv'
  BY <1>1, <1>2, <1>3 DEF RecordInv
<1>6. GrantWithinLifetime' /\ GrantHonoured'
  BY <1>1, <1>2, <1>3 DEF GrantWithinLifetime, GrantHonoured
<1>7. LateInv'
  <2>1. \A m \in LateSets' : m \in LateSets /\ m.token # t /\ m.token \in Token
    BY <1>1, CommandFields DEF LateSets
  <2>2. QED
    BY <1>1, <1>2, <2>1 DEF LateInv
<1>8. QED
  BY <1>1, <1>2, <1>4, <1>5, <1>6, <1>7 DEF StoreInv

\* The touch script never shortens an expiry, and never stores a missing key.
LEMMA TouchStep ==
  ASSUME SessionAssumption, IInv, clock' = clock, UNCHANGED revoked, inflight' \subseteq inflight,
         NEW t \in Token, NEW ttl \in Nat, TouchScript(t, ttl),
         \/ granted' = granted
         \/ /\ entry[t] # Absent
            /\ \E now \in Nat : /\ now <= clock /\ Grant(t, now + ttl * Second)
                                /\ now + ttl * Second <= record[t]
  PROVE  TypeInv' /\ StoreInv' /\ record' = record
<1>1. /\ TypeInv /\ RecordInv /\ LateInv /\ GrantWithinLifetime /\ GrantHonoured
      /\ record \in [Token -> Nat] /\ entry \in [Token -> Nat] /\ granted \in [Token -> Nat]
      /\ clock \in Nat /\ ttl * Second \in Nat
  BY Duration DEF IInv, StoreInv, TypeInv, LocalsInv, SessionAssumption
<1>2. /\ record' = record
      /\ entry' = [entry EXCEPT ![t] = TouchDeadline(t, ttl)]
  BY DEF TouchScript
<1>3. /\ TouchDeadline(t, ttl) \in Nat /\ TouchDeadline(t, ttl) >= entry[t]
      /\ entry[t] = Absent => TouchDeadline(t, ttl) = Absent
      /\ entry[t] # Absent => TouchDeadline(t, ttl) >= clock + ttl * Second
  BY <1>1 DEF TouchDeadline, Later, Absent
<1> HIDE DEF Absent
<1>4. /\ granted' \in [Token -> Nat] /\ granted'[t] <= record[t]
      /\ \A u \in Token \ {t} : granted'[u] = granted[u]
      /\ granted'[t] = granted[t] \/ (entry[t] # Absent /\ granted'[t] <= clock + ttl * Second)
  BY <1>1 DEF Grant, Later, GrantWithinLifetime
<1>5. TypeInv'
  BY <1>1, <1>2, <1>3, <1>4 DEF TypeInv
<1>6. RecordInv'
  BY <1>1, <1>2, <1>3, <1>4 DEF RecordInv
<1>7. GrantWithinLifetime'
  BY <1>1, <1>2, <1>4 DEF GrantWithinLifetime
<1>8. GrantHonoured'
  <2> SUFFICES ASSUME NEW u \in Token \ revoked, clock < granted'[u]
               PROVE  entry'[u] >= granted'[u]
    BY DEF GrantHonoured
  <2>1. CASE u # t
    BY <1>1, <1>2, <1>4, <2>1 DEF GrantHonoured
  <2>2. CASE u = t /\ granted'[t] = granted[t]
    <3>1. entry[t] >= granted[t]
      BY <2>2, <1>1 DEF GrantHonoured
    <3>2. QED
      BY <1>1, <1>2, <1>3, <2>2, <3>1
  <2>3. CASE u = t /\ entry[t] # Absent /\ granted'[t] <= clock + ttl * Second
    <3>1. entry'[t] = TouchDeadline(t, ttl) /\ TouchDeadline(t, ttl) >= clock + ttl * Second
      BY <1>1, <1>2, <1>3, <2>3
    <3>2. QED
      BY <1>1, <1>3, <1>4, <2>3, <3>1
  <2>4. QED
    BY <1>4, <2>1, <2>2, <2>3
<1>9. LateInv'
  BY <1>1, <1>2, OtherCommand
<1>10. QED
  BY <1>2, <1>5, <1>6, <1>7, <1>8, <1>9 DEF StoreInv

\* DEL of a token that is revoked, or whose session is over.
LEMMA DeleteStep ==
  ASSUME IInv, clock' = clock, inflight' \subseteq inflight, granted' = granted,
         NEW t \in Token, Delete(t),
         \/ revoked' = revoked \cup {t}
         \/ revoked' = revoked /\ record[t] <= clock
  PROVE  TypeInv' /\ StoreInv' /\ record' = record
<1>1. /\ TypeInv /\ RecordInv /\ LateInv /\ GrantWithinLifetime /\ GrantHonoured
      /\ record \in [Token -> Nat] /\ entry \in [Token -> Nat] /\ granted \in [Token -> Nat]
      /\ clock \in Nat
  BY DEF IInv, StoreInv, TypeInv, LocalsInv
<1>2. record' = record /\ entry' = [entry EXCEPT ![t] = Absent]
  BY DEF Delete
<1>3. TypeInv' /\ RecordInv' /\ LateInv'
  BY <1>1, <1>2, OtherCommand DEF TypeInv, RecordInv, Absent
<1>4. GrantWithinLifetime'
  BY <1>1, <1>2 DEF GrantWithinLifetime
<1>5. GrantHonoured'
  BY <1>1, <1>2 DEF GrantHonoured, GrantWithinLifetime
<1>6. QED
  BY <1>2, <1>3, <1>4, <1>5 DEF StoreInv

\* The steps of one client keep the invariant.
LEMMA ClientInv ==
  ASSUME SessionAssumption, IInv, NEW c \in Client, ClientStep(c)
  PROVE  IInv'
<1>0. TypeInv /\ LocalsInv /\ StoreInv /\ RecordInv /\ LateInv /\ GrantWithinLifetime
      /\ record \in [Token -> Nat]
  BY DEF IInv, StoreInv, LocalsInv
<1>1. ASSUME BeginCreate(c, Drawable) \/ CheckLifetime(c) \/ ComputeTTL(c),
             UNCHANGED <<entry, inflight, lost>>
      PROVE  IInv'
  BY <1>0, <1>1, ManagerStep, StoreUnchanged DEF IInv, store
<1>2. CASE CreateCollides(c)
  <2>1. /\ pc[c] = "draw" /\ UNCHANGED <<clock, record, granted, revoked, entry, inflight>>
        /\ Collide(c)
    BY <1>2 DEF CreateCollides
  <2>2. LocalsInv'
    <3> DEFINE l == [call[c] EXCEPT !.draws = @ + 1]
    <3>1. CASE Return(c)
      BY <1>0, <2>1, <3>1, CallReturns
    <3>2. CASE call[c].draws + 1 < Draws /\ Continue(c, "draw", l)
      <4>1. call[c] \in Call /\ call[c].draws \in 0 .. Draws - 1
        BY <1>0 DEF LocalsInv, Call
      <4>2. l \in Call /\ l.now = call[c].now /\ l.abs = call[c].abs
        BY <4>1, <3>2 DEF Call, Draws
      <4> HIDE DEF l
      <4>3. Fits("draw", l, clock, record') /\ "draw" \in Stage
        BY <1>0, <2>1, <4>2, CallFields DEF Fits, Stage
      <4>4. QED
        BY <1>0, <2>1, <3>2, <4>2, <4>3, CallGoesOn
    <3>3. QED
      BY <2>1, <3>1, <3>2 DEF Collide
  <2>3. QED
    BY <1>0, <2>1, <2>2, StoreUnchanged DEF IInv, store
<1>3. CASE Create(c)
  <2>1. PICK t \in Drawable : /\ SetIfAbsent(t, call[c].abs, IdleTTL)
                              /\ Grant(t, call[c].now + IdleTTL * Second)
    BY <1>3 DEF Create
  <2>2. /\ pc[c] = "draw" /\ Return(c) /\ UNCHANGED <<clock, revoked, inflight>>
        /\ t \in Token /\ record[t] = 0 /\ \A m \in inflight : m.token # t
    BY <1>3, <2>1 DEF Create, Drawable, Unused
  <2>3. /\ call[c].now \in Nat /\ call[c].now <= clock
        /\ call[c].abs \in Nat \ {0} /\ call[c].now + IdleTTL * Second <= call[c].abs
    BY <1>0, <2>2, CallFields, IdleFits DEF Fits
  <2>4. TypeInv' /\ StoreInv' /\ record' \in [Token -> Nat]
        /\ \A u \in Token : record[u] # 0 => record'[u] = record[u]
    BY <2>1, <2>2, <2>3, SetStep
  <2>5. QED
    BY <1>0, <2>2, <2>4, CallReturns DEF IInv
<1>4. CASE ExpireSession(c)
  <2>1. /\ pc[c] = "expire" /\ Delete(call[c].token) /\ Return(c)
        /\ UNCHANGED <<clock, granted, revoked, inflight>>
    BY <1>4 DEF ExpireSession, Deny
  <2>2. call[c].token \in Token /\ record[call[c].token] <= clock
    BY <1>0, <2>1, CallFields DEF Fits
  <2>3. TypeInv' /\ StoreInv' /\ record' = record
    BY <2>1, <2>2, DeleteStep
  <2>4. QED
    BY <1>0, <2>1, <2>3, CallReturns DEF IInv
<1>5. CASE Touch(c)
  <2> DEFINE t == call[c].token
             ttl == call[c].ttl
  <2>1. /\ pc[c] = "touch" /\ TouchScript(t, ttl) /\ Return(c)
        /\ UNCHANGED <<clock, revoked, inflight>>
        /\ \/ granted' = granted
           \/ entry[t] # Absent /\ Grant(t, call[c].now + ttl * Second)
    BY <1>5 DEF Touch, Deny
  <2>2. /\ t \in Token /\ ttl \in Nat /\ call[c].now \in Nat /\ call[c].now <= clock
        /\ call[c].now + ttl * Second <= record[t]
    BY <1>0, <2>1, CallFields DEF Fits
  <2> HIDE DEF t, ttl
  <2>3. TypeInv' /\ StoreInv' /\ record' = record
    BY <2>1, <2>2, TouchStep
  <2>4. QED
    BY <1>0, <2>1, <2>3, CallReturns DEF IInv
<1>6. ASSUME NEW t \in Token, NEW r \in BOOLEAN, BackendRead(c, t, r) PROVE IInv'
  <2>1. UNCHANGED <<clock, record, granted, revoked, entry, inflight>>
    BY <1>6 DEF BackendRead
  <2>2. CASE entry[t] # Absent
    <3> DEFINE l == Reading(t, r)
    <3>1. Continue(c, "check", l)
      BY <1>6, <2>2 DEF BackendRead
    <3>2. /\ l \in Call /\ l.now = 0 /\ l.token = t /\ l.abs = record[t]
          /\ record[t] \in Nat \ {0} /\ clock \in Nat
      BY <1>0, <2>2 DEF Reading, Call, Draws, RecordInv, LocalsInv
    <3> HIDE DEF l
    <3>3. Fits("check", l, clock, record') /\ "check" \in Stage
      BY <2>1, <3>2 DEF Fits, Stage
    <3>4. LocalsInv'
      BY <1>0, <2>1, <3>1, <3>2, <3>3, CallGoesOn
    <3>5. QED
      BY <1>0, <2>1, <3>4, StoreUnchanged DEF IInv, store
  <2>3. CASE entry[t] = Absent
    <3>1. Return(c)
      BY <1>6, <2>3 DEF BackendRead, Deny
    <3>2. LocalsInv'
      BY <1>0, <2>1, <3>1, CallReturns
    <3>3. QED
      BY <1>0, <2>1, <3>2, StoreUnchanged DEF IInv, store
  <2>4. QED
    BY <2>2, <2>3
<1>7. ASSUME NEW t \in Token, Revoke(c, t) PROVE IInv'
  <2>1. UNCHANGED <<clock, pc, call, granted, inflight>> /\ Delete(t) /\ revoked' = revoked \cup {t}
    BY <1>7 DEF Revoke
  <2>2. TypeInv' /\ StoreInv' /\ record' = record
    BY <2>1, DeleteStep
  <2>3. LocalsInv'
    BY <1>0, <2>1, <2>2 DEF LocalsInv
  <2>4. QED
    BY <2>2, <2>3 DEF IInv
<1>8. ASSUME NEW m \in Command, GiveUp(c, m),
             m.op = "SET" => m.token \in Drawable /\ m.abs > 0 /\ m.ttl = IdleTTL
      PROVE  IInv'
  <2>1. /\ UNCHANGED <<clock, record, granted, denied, revoked, entry>> /\ Return(c)
        /\ inflight' = inflight \cup {m}
    BY <1>8 DEF GiveUp
  <2>2. LocalsInv'
    BY <1>0, <2>1, CallReturns
  <2>3. TypeInv' /\ RecordInv' /\ GrantWithinLifetime' /\ GrantHonoured'
    BY <1>0, <1>8, <2>1
       DEF TypeInv, RecordInv, StoreInv, GrantWithinLifetime, GrantHonoured
  <2>4. LateInv'
    <3>1. CASE m.op # "SET"
      BY <1>0, <2>1, <3>1, <1>8, OtherCommand
    <3>2. CASE m.op = "SET"
      <4>1. record[m.token] = 0 /\ \A n \in inflight : n.token # m.token
        BY <1>8, <3>2 DEF Drawable, Unused
      <4>2. LateSets' = LateSets \cup {m}
        BY <2>1, <3>2 DEF LateSets
      <4>3. LateSets \subseteq inflight
        BY DEF LateSets
      <4>4. QED
        BY <1>0, <1>8, <2>1, <3>2, <4>1, <4>2, <4>3 DEF LateInv
    <3>3. QED
      BY <3>1, <3>2
  <2>5. QED
    BY <2>2, <2>3, <2>4 DEF IInv, StoreInv
<1>9. CASE CreateLost(c)
  <2>1. PICK t \in Drawable :
           GiveUp(c, [op |-> "SET", token |-> t, abs |-> call[c].abs, ttl |-> IdleTTL])
    BY <1>9 DEF CreateLost
  <2>2. call[c].abs \in Nat \ {0} /\ t \in Token /\ IdleTTL \in Nat
    BY <1>0, <1>9, CallFields, IdleFits DEF Fits, Drawable, Unused, CreateLost, SessionAssumption
  <2>3. [op |-> "SET", token |-> t, abs |-> call[c].abs, ttl |-> IdleTTL] \in Command
    BY <2>2 DEF Command
  <2>4. QED
    BY <1>8, <2>1, <2>2, <2>3
<1>10. CASE TouchLost(c)
  <2>1. [op |-> "EVAL", token |-> call[c].token, abs |-> 0, ttl |-> call[c].ttl] \in Command
    BY <1>0, <1>10, CallFields DEF Fits, TouchLost, Command
  <2>2. QED
    BY <1>8, <1>10, <2>1 DEF TouchLost
<1>11. ASSUME NEW t \in Token, DeleteLost(c, t) PROVE IInv'
  <2>1. [op |-> "DEL", token |-> t, abs |-> 0, ttl |-> 0] \in Command
    BY DEF Command
  <2>2. QED
    BY <1>8, <1>11, <2>1 DEF DeleteLost
<1>12. QED
  BY <1>1, <1>2, <1>3, <1>4, <1>5, <1>6, <1>7, <1>9, <1>10, <1>11 DEF ClientStep

\* A command that nobody waits for keeps the invariant, however late it is executed.
LEMMA LateStep ==
  ASSUME SessionAssumption, IInv, NEW m \in inflight, ExecuteLate(m)
  PROVE  IInv'
<1>1. /\ UNCHANGED <<clock, pc, call, granted, denied>> /\ inflight' = inflight \ {m}
      /\ m.token \in Token /\ m.abs \in Nat /\ m.ttl \in Nat
      /\ LocalsInv /\ LateInv
  BY CommandFields DEF ExecuteLate, IInv, StoreInv
<1>2. ASSUME record' \in [Token -> Nat], \A u \in Token : record[u] # 0 => record'[u] = record[u]
      PROVE  LocalsInv'
  <2>1. ASSUME NEW c \in Client PROVE Fits(pc'[c], call'[c], clock', record')
    BY <1>1, <1>2, CallFields DEF Fits
  <2>2. QED
    BY <1>1, <1>2, <2>1 DEF LocalsInv
<1>3. CASE m.op = "SET" /\ SetIfAbsent(m.token, m.abs, m.ttl) /\ UNCHANGED revoked
  <2>1. /\ record[m.token] = 0 /\ m.abs \in Nat \ {0} /\ m.ttl = IdleTTL
        /\ \A n \in inflight' : n.op = "SET" => n.token # m.token
    BY <1>1, <1>3 DEF LateInv, LateSets
  <2>2. /\ TypeInv' /\ StoreInv'
        /\ record' \in [Token -> Nat] /\ \A u \in Token : record[u] # 0 => record'[u] = record[u]
    BY <1>1, <1>3, <2>1, SetStep
  <2>3. QED
    BY <1>2, <2>2 DEF IInv
<1>4. CASE m.op = "EVAL" /\ TouchScript(m.token, m.ttl) /\ UNCHANGED revoked
  <2>1. TypeInv' /\ StoreInv' /\ record' = record
    BY <1>1, <1>4, TouchStep
  <2>2. QED
    BY <1>1, <1>2, <2>1 DEF IInv, LocalsInv
<1>5. CASE m.op = "DEL" /\ Delete(m.token) /\ revoked' = revoked \cup {m.token}
  <2>1. TypeInv' /\ StoreInv' /\ record' = record
    BY <1>1, <1>5, DeleteStep
  <2>2. QED
    BY <1>1, <1>2, <2>1 DEF IInv, LocalsInv
<1>6. QED
  BY <1>3, <1>4, <1>5 DEF ExecuteLate

-----------------------------------------------------------------------------
(* The invariant, and what follows from it.                                *)

\* The invariant holds before the first call.
LEMMA InvInit == SessionAssumption /\ Init => IInv
<1> SUFFICES ASSUME SessionAssumption, Init PROVE IInv
  OBVIOUS
<1>1. NoCall \in Call /\ "idle" \in Stage /\ Fits("idle", NoCall, 0, record)
  BY DEF NoCall, Call, Draws, Stage, Fits, SessionAssumption
<1>2. LocalsInv
  BY <1>1 DEF Init, ManagerInit, LocalsInv
<1>3. TypeInv /\ StoreInv
  BY DEF Init, ManagerInit, TypeInv, StoreInv, RecordInv, LateInv, LateSets, GrantWithinLifetime,
         GrantHonoured, Absent
<1>4. QED
  BY <1>2, <1>3 DEF IInv

\* Every step keeps it.
LEMMA InvStep == SessionAssumption /\ IInv /\ [Next]_vars => IInv'
<1> SUFFICES ASSUME SessionAssumption, IInv, [Next]_vars PROVE IInv'
  OBVIOUS
<1>1. CASE UNCHANGED vars
  BY <1>1, StoreUnchanged DEF IInv, LocalsInv, vars, managerVars, store
<1>2. QED
  BY <1>1, TickStep, ClientInv, LateStep DEF Next

\* The conjunction of the parts is inductive.
LEMMA Invariance == Spec => []IInv
<1>1. Init => IInv
  BY InvInit, SessionAssumption
<1>2. IInv /\ [Next]_vars => IInv'
  BY InvStep, SessionAssumption
<1>3. QED
  BY <1>1, <1>2, PTL DEF Spec

\* An unexpired grant finds its session, whatever commands arrive late, unless a
\* DEL for it was executed.
THEOREM GrantsHonoured == Spec => []GrantHonoured
<1>1. IInv => GrantHonoured
  BY DEF IInv, StoreInv
<1>2. QED
  BY <1>1, Invariance, PTL

\* No expiry given to a caller lies beyond the absolute lifetime, over Redis too.
THEOREM GrantsWithinLifetime == Spec => []GrantWithinLifetime
<1>1. IInv => GrantWithinLifetime
  BY DEF IInv, StoreInv
<1>2. QED
  BY <1>1, Invariance, PTL

-----------------------------------------------------------------------------
(* The refinement.                                                         *)

\* Each command, executed in time or late, is a step of the storage contract.
LEMMA SetImplements ==
  ASSUME SessionAssumption, IInv, UNCHANGED <<clock, revoked>>, NEW t \in Token, record[t] = 0,
         NEW abs \in Nat \ {0}, SetIfAbsent(t, abs, IdleTTL)
  PROVE  Contract!Next
<1>1. /\ entry[t] = Absent /\ entry \in [Token -> Nat] /\ record \in [Token -> Nat]
      /\ clock \in Nat /\ IdleTTL * Second \in Nat \ {0}
  BY IdleFits DEF IInv, StoreInv, RecordInv, TypeInv, LocalsInv
<1>2. /\ record' = [record EXCEPT ![t] = abs] /\ entry' = [entry EXCEPT ![t] = clock + IdleTTL * Second]
  BY <1>1 DEF SetIfAbsent
<1>3. Contract!Admit(t)
  BY <1>1, <1>2 DEF Contract!Admit, Contract!Absent, Absent
<1>4. QED
  BY <1>3 DEF Contract!Next

\* A touch, of a caller or late, is a renewal of the contract or no step of it.
LEMMA TouchImplements ==
  ASSUME SessionAssumption, IInv, UNCHANGED <<clock, revoked>>, NEW t \in Token, NEW ttl \in Nat,
         TouchScript(t, ttl)
  PROVE  [Contract!Next]_Contract!vars
<1>1. /\ entry \in [Token -> Nat] /\ clock \in Nat /\ ttl * Second \in Nat
  BY Duration DEF IInv, TypeInv, LocalsInv, SessionAssumption
<1>2. /\ record' = record /\ entry' = [entry EXCEPT ![t] = TouchDeadline(t, ttl)]
  BY DEF TouchScript
<1>3. CASE entry[t] = Absent
  BY <1>1, <1>2, <1>3 DEF TouchDeadline, Contract!vars
<1>4. CASE entry[t] # Absent
  <2>1. TouchDeadline(t, ttl) >= entry[t]
    BY <1>1, <1>4 DEF TouchDeadline, Later
  <2>2. Contract!Extend(t)
    BY <1>1, <1>2, <1>4, <2>1 DEF Contract!Extend, Contract!Absent, Absent
  <2>3. QED
    BY <2>2 DEF Contract!Next
<1>5. QED
  BY <1>3, <1>4

\* A DEL that is recorded as a revocation, or for a session that is over, is a Delete.
LEMMA DeleteImplements ==
  ASSUME IInv, clock' = clock, NEW t \in Token, Delete(t),
         \/ revoked' = revoked \cup {t}
         \/ revoked' = revoked /\ record[t] <= clock
  PROVE  Contract!Next
<1>1. entry \in [Token -> Nat] /\ record' = record /\ entry' = [entry EXCEPT ![t] = Absent]
  BY DEF IInv, TypeInv, Delete
<1>2. CASE revoked' = revoked \cup {t}
  BY <1>1, <1>2 DEF Contract!Next, Contract!Revoke, Contract!Absent, Absent
<1>3. CASE revoked' = revoked /\ record[t] <= clock
  <2>1. entry' = [u \in Token |-> entry'[u]]
    BY <1>1
  <2>2. Contract!Age
    BY <1>1, <1>3, <2>1 DEF Contract!Age, Contract!Absent, Absent
  <2>3. QED
    BY <2>2 DEF Contract!Next
<1>4. QED
  BY <1>2, <1>3

\* Every step is one of the storage contract, or a stutter.
LEMMA StepImplementsContract ==
  ASSUME SessionAssumption, IInv, [Next]_vars
  PROVE  [Contract!Next]_Contract!vars
<1>0. TypeInv /\ LocalsInv /\ LateInv /\ entry \in [Token -> Nat]
  BY DEF IInv, StoreInv, TypeInv
<1>1. CASE UNCHANGED <<clock, record, entry, revoked>>
  BY <1>1 DEF Contract!vars
<1>2. CASE Tick
  <2>1. entry' = [t \in Token |-> entry'[t]]
    BY <1>0, <1>2 DEF Tick
  <2>2. Contract!Age
    BY <1>0, <1>2, <2>1 DEF Tick, Contract!Age, Contract!Absent, Absent
  <2>3. QED
    BY <2>2 DEF Contract!Next
<1>3. ASSUME NEW c \in Client, ClientStep(c)
      PROVE  [Contract!Next]_Contract!vars
  <2>1. CASE (BeginCreate(c, Drawable) \/ CheckLifetime(c) \/ ComputeTTL(c))
                /\ UNCHANGED <<entry, inflight, lost>>
    BY <1>1, <2>1 DEF BeginCreate, CheckLifetime, ComputeTTL
  <2>2. CASE CreateCollides(c) \/ CreateLost(c) \/ TouchLost(c)
    BY <1>1, <2>2 DEF CreateCollides, CreateLost, TouchLost, GiveUp
  <2>3. CASE Create(c)
    <3>1. PICK t \in Drawable : SetIfAbsent(t, call[c].abs, IdleTTL)
      BY <2>3 DEF Create
    <3>2. /\ t \in Token /\ record[t] = 0 /\ UNCHANGED <<clock, revoked>>
          /\ call[c].abs \in Nat \ {0}
      BY <1>0, <2>3, CallFields, IdleFits DEF Create, Drawable, Unused, Fits
    <3>3. QED
      BY <3>1, <3>2, SetImplements
  <2>4. CASE ExpireSession(c)
    BY <1>0, <2>4, CallFields, DeleteImplements DEF ExpireSession, Fits
  <2>5. CASE Touch(c)
    BY <1>0, <2>5, CallFields, TouchImplements DEF Touch, Fits
  <2>6. ASSUME NEW t \in Token, NEW r \in BOOLEAN, BackendRead(c, t, r)
        PROVE  [Contract!Next]_Contract!vars
    BY <1>1, <2>6 DEF BackendRead
  <2>7. ASSUME NEW t \in Token, Revoke(c, t) \/ DeleteLost(c, t)
        PROVE  [Contract!Next]_Contract!vars
    BY <1>1, <2>7, DeleteImplements DEF Revoke, DeleteLost, GiveUp
  <2>8. QED
    BY <1>3, <2>1, <2>2, <2>3, <2>4, <2>5, <2>6, <2>7 DEF ClientStep
<1>4. ASSUME NEW m \in inflight, ExecuteLate(m)
      PROVE  [Contract!Next]_Contract!vars
  <2>1. /\ m.token \in Token /\ m.abs \in Nat /\ m.ttl \in Nat /\ clock' = clock
        /\ m.op = "SET" => record[m.token] = 0 /\ m.abs > 0 /\ m.ttl = IdleTTL
    BY <1>0, <1>4, CommandFields DEF ExecuteLate, LateInv, LateSets
  <2>2. CASE m.op = "SET" /\ SetIfAbsent(m.token, m.abs, m.ttl) /\ UNCHANGED revoked
    BY <2>1, <2>2, SetImplements
  <2>3. CASE m.op = "EVAL" /\ TouchScript(m.token, m.ttl) /\ UNCHANGED revoked
    BY <2>1, <2>3, TouchImplements
  <2>4. CASE m.op = "DEL" /\ Delete(m.token) /\ revoked' = revoked \cup {m.token}
    BY <2>1, <2>4, DeleteImplements
  <2>5. QED
    BY <1>4, <2>2, <2>3, <2>4 DEF ExecuteLate
<1>5. QED
  BY <1>1, <1>2, <1>3, <1>4 DEF Next, vars, managerVars

\* SessionManager's callers over RedisSessionBackend see what the storage contract
\* promises: the same that MemorySessionBackend is shown to refine.
THEOREM RefinesContract == Spec => ImplementsContract
<1>1. Init => Contract!Init
  BY DEF Init, ManagerInit, Contract!Init, Contract!Absent, Absent
<1>2. IInv /\ [Next]_vars => [Contract!Next]_Contract!vars
  BY StepImplementsContract, SessionAssumption
<1>3. QED
  BY <1>1, <1>2, Invariance, PTL DEF Spec, ImplementsContract, Contract!Spec
=============================================================================
