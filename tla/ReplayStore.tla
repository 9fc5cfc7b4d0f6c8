----------------------------- MODULE ReplayStore -----------------------------
(***************************************************************************)
(* The two replay stores: MemoryStore (pkg/tempo/store.go), one mutex      *)
(* around two maps, which drops expired entries when it meets them and     *)
(* sweeps now and then; and the Redis store (pkg/tempo/redisstore), whose  *)
(* calls reach the server later than they are made, and whose expiries are *)
(* whole seconds.                                                          *)
(*                                                                         *)
(* Put, whose entries the Redis store keeps for a configured TTL, is not   *)
(* called by the verifier; it is here since it replaces what is.           *)
(***************************************************************************)
EXTENDS Naturals

CONSTANTS
  Keys, Values, NoValue, Never,
  Second,         \* instants per second
  SweepInterval,  \* memoryStoreSweepInterval
  TTL,            \* of the Redis store's Put; 0 is none
  MaxClock,       \* bound: the last instant of a behaviour
  MaxPending      \* bound: requests on their way to Redis

ASSUME StoreAssumption ==
  /\ NoValue \notin Values /\ Never \notin Nat
  /\ Second \in Nat \ {0} /\ {SweepInterval, TTL, MaxClock, MaxPending} \subseteq Nat

VARIABLES
  backend,    \* "memory" or "redis"; never changes
  now,
  values,     \* the entries
  expiries,   \* Never: the entry is in values only
  lastSweep,  \* Never: there was none
  pending,    \* SET NX commands on their way
  answer,     \* of the last call, with the expiry its caller asked for
  due         \* history: what the last claim of each key was promised

vars == <<backend, now, values, expiries, lastSweep, pending, answer, due>>

Lasts(expiry, t) == expiry = Never \/ t < expiry
Answer(op, key, value, expiry) ==
  [op |-> op, key |-> key, value |-> value, expiresAt |-> expiry]
Idle == [op |-> "none", value |-> NoValue]

-----------------------------------------------------------------------------
Expired == {k \in Keys : ~Lasts(expiries[k], now)}

\* evictExpiredLocked, sweepExpiredLocked; Redis expires keys by itself.
Sweeping == lastSweep = Never \/ now - lastSweep >= SweepInterval
SweptUnread ==   \* mutant: sweeps every key that will expire
  IF Sweeping THEN {k \in Keys : expiries[k] # Never} ELSE {}
Swept == IF Sweeping THEN Expired ELSE {}

Kept(dropped, k) == IF k \in dropped THEN NoValue ELSE values[k]

\* The maps after keys are dropped, and after k is set too.
Drop(dropped) ==
  /\ values' = [k \in Keys |-> Kept(dropped, k)]
  /\ expiries' = [k \in Keys |-> IF k \in dropped THEN Never ELSE expiries[k]]
Set(dropped, k, v, e) ==
  /\ values' = [j \in Keys |-> IF j = k THEN v ELSE Kept(dropped, j)]
  /\ expiries' = [j \in Keys |-> IF j = k THEN e
                                 ELSE IF j \in dropped THEN Never ELSE expiries[j]]

Claimed(k, v, e) ==
  /\ answer' = Answer("Claimed", k, v, e)
  /\ due' = [due EXCEPT ![k] = e]
Refused(k, e) ==
  /\ answer' = Answer("Refused", k, NoValue, e)
  /\ UNCHANGED due

-----------------------------------------------------------------------------
Get(k) ==
  /\ Drop(Expired \cap {k})
  /\ answer' = Answer("Get", k, Kept(Expired, k), Never)
  /\ UNCHANGED <<backend, now, lastSweep, pending, due>>

Put(k, v) ==
  /\ backend = "memory"
  /\ Set({}, k, v, Never)
  /\ answer' = Answer("Put", k, v, Never)
  /\ due' = [due EXCEPT ![k] = 0]
  /\ UNCHANGED <<backend, now, lastSweep, pending>>

RedisPut(k, v) ==
  /\ backend = "redis"
  /\ Set({}, k, v, IF TTL = 0 THEN Never ELSE now + TTL)
  /\ answer' = Answer("Put", k, v, Never)
  /\ due' = [due EXCEPT ![k] = 0]
  /\ UNCHANGED <<backend, now, lastSweep, pending>>

PutIfAbsent(k, v) ==
  /\ IF Kept(Expired, k) = NoValue
     THEN Set(Expired \cap {k}, k, v, Never) /\ Claimed(k, v, Never)
     ELSE Drop({}) /\ Refused(k, Never)
  /\ UNCHANGED <<backend, now, lastSweep, pending>>

\* MemoryStore: the clock is read, and everything done, under the lock.
PutIfAbsentUntil(k, v, e) ==
  /\ backend = "memory"
  /\ LET dropped == Swept \cup (Expired \cap {k}) IN
       IF Lasts(e, now) /\ Kept(dropped, k) = NoValue
       THEN Set(dropped, k, v, e) /\ Claimed(k, v, e)
       ELSE Drop(dropped) /\ Refused(k, e)
  /\ lastSweep' = IF Sweeping THEN now ELSE lastSweep
  /\ UNCHANGED <<backend, now, pending>>

Command(k, v, e) == [key |-> k, value |-> v, expiresAt |-> e]

\* Redis: the caller reads its clock, then the command travels.
Send(k, v, e) ==
  /\ backend = "redis"
  /\ \/ ~Lasts(e, now) /\ Refused(k, e) /\ UNCHANGED pending
     \/ /\ Lasts(e, now)
        /\ \E i \in 1 .. MaxPending :
             pending[i] = Idle /\ pending' = [pending EXCEPT ![i] = Command(k, v, e)]
        /\ answer' = Idle /\ UNCHANGED due
  /\ UNCHANGED <<backend, now, values, expiries, lastSweep>>

\* EXAT takes whole seconds.
RoundedDown(e) == e - (e % Second)   \* mutant
RoundedUp(e) == IF e % Second = 0 THEN e ELSE e - (e % Second) + Second

SetNX(i) ==
  /\ pending[i] # Idle
  /\ LET r == pending[i] IN
       IF Kept(Expired, r.key) = NoValue
       THEN Set(Expired \cap {r.key}, r.key, r.value, RoundedUp(r.expiresAt))
              /\ Claimed(r.key, r.value, r.expiresAt)
       ELSE Drop({}) /\ Refused(r.key, r.expiresAt)
  /\ pending' = [pending EXCEPT ![i] = Idle]
  /\ UNCHANGED <<backend, now, lastSweep>>

DeleteKeepingExpiry(k) ==   \* mutant: the expiry outlives the entry
  /\ values' = [values EXCEPT ![k] = NoValue]
  /\ answer' = Answer("Delete", k, NoValue, Never)
  /\ due' = [due EXCEPT ![k] = 0]
  /\ UNCHANGED <<backend, now, expiries, lastSweep, pending>>
Delete(k) ==
  /\ Drop({k})
  /\ answer' = Answer("Delete", k, NoValue, Never)
  /\ due' = [due EXCEPT ![k] = 0]
  /\ UNCHANGED <<backend, now, lastSweep, pending>>

Tick ==
  /\ now < MaxClock
  /\ now' = now + 1
  /\ answer' = Idle
  /\ UNCHANGED <<backend, values, expiries, lastSweep, pending, due>>

Init ==
  /\ backend \in {"memory", "redis"} /\ now = 0
  /\ values = [k \in Keys |-> NoValue] /\ expiries = [k \in Keys |-> Never]
  /\ lastSweep = Never /\ pending = [i \in 1 .. MaxPending |-> Idle]
  /\ answer = Idle /\ due = [k \in Keys |-> 0]

Next ==
  \/ \E k \in Keys : Get(k) \/ Delete(k)
  \/ \E k \in Keys, v \in Values : Put(k, v) \/ RedisPut(k, v) \/ PutIfAbsent(k, v)
  \/ \E k \in Keys, v \in Values, e \in 1 .. MaxClock :
       PutIfAbsentUntil(k, v, e) \/ Send(k, v, e)
  \/ \E i \in 1 .. MaxPending : SetNX(i)
  \/ Tick

Spec == Init /\ [][Next]_vars
-----------------------------------------------------------------------------
(* Properties.                                                             *)

\* The entries and expiries are well typed, and only an entry expires.
TypeOK ==
  /\ backend \in {"memory", "redis"} /\ now \in Nat
  /\ values \in [Keys -> Values \cup {NoValue}]
  /\ expiries \in [Keys -> Nat \cup {Never}]
  /\ \A k \in Keys : values[k] = NoValue => expiries[k] = Never
  /\ lastSweep \in Nat \cup {Never} /\ (lastSweep # Never => lastSweep <= now)
  /\ pending \in [1 .. MaxPending -> {Idle} \cup [key : Keys, value : Values, expiresAt : Nat]]
  /\ due \in [Keys -> Nat \cup {Never}]

\* "An entry must never be dropped before expiresAt": a key is not claimed
\* again while its last claim lasts, whatever is read, swept, replaced or
\* delayed in between, unless it was deleted or replaced.
ClaimsExclude ==
  [][\A k \in Keys :
       answer'.op = "Claimed" /\ answer'.key = k => ~Lasts(due[k], now)]_vars

\* "Get must report it as missing once it has expired."
ExpiredIsMissing ==
  answer.op = "Get" /\ answer.value # NoValue /\ due[answer.key] # 0
    => Lasts(due[answer.key], now)

\* The entry of key k as a caller sees it.
Live(k) == Lasts(expiries[k], now)
Contract == INSTANCE ExpiringStore WITH
  Instants <- 0 .. MaxClock + TTL,
  Calls <- 1 .. MaxPending,
  clock <- now,
  slack <- IF backend = "memory" THEN 0 ELSE Second - 1,
  entry <- [k \in Keys |-> IF Live(k) THEN values[k] ELSE NoValue],
  until <- [k \in Keys |-> IF Live(k) THEN expiries[k] ELSE Never],
  asked <- pending

\* Both stores keep the promise of ExpiringStore, memory to the instant and
\* Redis with entries that last up to a second longer: what is claimed is kept
\* until the expiry that was asked for, and a claim is refused only for a key
\* that is taken or an expiry that has passed when it is asked for.
ImplementsExpiringStore == Contract!Spec
===============================================================================
