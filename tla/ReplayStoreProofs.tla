-------------------------- MODULE ReplayStoreProofs --------------------------
(***************************************************************************)
(* Safety of ReplayStore, and its refinement of ExpiringStore, for any     *)
(* keys, values, sweep interval, TTL and granularity of Redis' expiries.   *)
(***************************************************************************)
EXTENDS ReplayStore, TLAPS

\* What is promised is stored, and does not expire before its promise ends.
Promised ==
  \A k \in Keys : Lasts(due[k], now) =>
    /\ values[k] # NoValue
    /\ expiries[k] = Never \/ (due[k] # Never /\ due[k] <= expiries[k])

Commands == [key : Keys, value : Values, expiresAt : Nat]

\* Only Redis has commands on their way, whose deadlines are instants of the model.
Sent ==
  \A i \in 1 .. MaxPending : pending[i] # Idle =>
    backend = "redis" /\ pending[i].expiresAt \in 1 .. MaxClock

IInv == TypeOK /\ Promised /\ Sent /\ now <= MaxClock

-----------------------------------------------------------------------------
\* Rounding up to a whole second moves a deadline by less than a second.
LEMMA RoundedUpBounds ==
  ASSUME NEW e \in Nat
  PROVE  RoundedUp(e) \in e .. e + (Second - 1)
  <1>1. e % Second \in 0 .. Second - 1
    BY StoreAssumption
  <1> QED
    BY <1>1, StoreAssumption DEF RoundedUp

\* A key that is dropped as expired is promised to nobody.
LEMMA ExpiredIsFree ==
  ASSUME IInv, NEW k \in Keys, k \in Expired
  PROVE  ~Lasts(due[k], now)
  BY StoreAssumption DEF IInv, TypeOK, Promised, Expired, Lasts

\* A key that can be claimed is promised to nobody.
LEMMA MissingIsFree ==
  ASSUME IInv, NEW k \in Keys, NEW dropped, dropped \subseteq Expired,
         Kept(dropped, k) = NoValue
  PROVE  ~Lasts(due[k], now)
  BY ExpiredIsFree DEF IInv, Promised, Kept

\* What expired is dropped, or nothing is, or the key's promise is withdrawn.
LEMMA DropKeeps ==
  ASSUME IInv, NEW dropped \in SUBSET Keys, Drop(dropped),
         \A k \in Keys : due'[k] = due[k] \/ due'[k] = 0,
         \A k \in dropped : ~Lasts(due'[k], now),
         due' \in [Keys -> Nat \cup {Never}], now' = now
  PROVE  /\ values' \in [Keys -> Values \cup {NoValue}]
         /\ expiries' \in [Keys -> Nat \cup {Never}]
         /\ \A k \in Keys : values'[k] = NoValue => expiries'[k] = Never
         /\ Promised'
  <1> USE StoreAssumption DEF IInv, TypeOK, Drop, Kept
  <1>1. \A k \in Keys : ~Lasts(0, now)
    BY DEF Lasts
  <1>2. Promised'
    BY <1>1 DEF Promised, Lasts
  <1> QED
    BY <1>2

\* A key is set, for at least as long as it is promised.
LEMMA SetKeeps ==
  ASSUME IInv, NEW dropped, dropped \subseteq Expired,
         NEW k \in Keys, NEW v \in Values, NEW e \in Nat \cup {Never}, Set(dropped, k, v, e),
         NEW d \in Nat \cup {Never}, due' = [due EXCEPT ![k] = d], now' = now,
         e = Never \/ ~Lasts(d, now) \/ (d # Never /\ d <= e)
  PROVE  /\ values' \in [Keys -> Values \cup {NoValue}]
         /\ expiries' \in [Keys -> Nat \cup {Never}]
         /\ due' \in [Keys -> Nat \cup {Never}]
         /\ \A j \in Keys : values'[j] = NoValue => expiries'[j] = Never
         /\ Promised'
  <1> USE StoreAssumption DEF IInv, TypeOK, Set, Kept
  <1>1. \A j \in dropped : ~Lasts(due[j], now)
    BY ExpiredIsFree DEF Expired
  <1>2. Promised'
    BY <1>1 DEF Promised, Lasts
  <1> QED
    BY <1>2

-----------------------------------------------------------------------------
\* The invariant holds of empty stores.
LEMMA InitIInv == Init => IInv
  BY StoreAssumption DEF Init, IInv, TypeOK, Promised, Sent, Lasts, Idle

\* Reading drops the key it finds expired.
LEMMA GetKeeps == ASSUME IInv, NEW k \in Keys, Get(k) PROVE IInv'
  <1>1. \A j \in Expired \cap {k} : ~Lasts(due'[j], now)
    BY ExpiredIsFree DEF Get
  <1> QED
    BY <1>1, DropKeeps DEF Get, IInv, TypeOK, Sent

\* A value that is put replaces what was promised.
LEMMA PutKeeps ==
  ASSUME IInv, NEW k \in Keys, NEW v \in Values, Put(k, v) \/ RedisPut(k, v)
  PROVE  IInv'
  <1>1. ~Lasts(0, now)
    BY StoreAssumption DEF IInv, TypeOK, Lasts
  <1>2. \E e \in Nat \cup {Never} : Set({}, k, v, e)
    <2>1. CASE Put(k, v)
      BY <2>1 DEF Put
    <2>2. CASE RedisPut(k, v)
      <3>1. now + TTL \in Nat
        BY StoreAssumption DEF IInv, TypeOK
      <3> QED
        BY <2>2, <3>1 DEF RedisPut
    <2> QED
      BY <2>1, <2>2
  <1> QED
    BY <1>1, <1>2, SetKeeps DEF Put, RedisPut, IInv, TypeOK, Sent

\* A claim that lasts for good sets an entry without an expiry.
LEMMA PutIfAbsentKeeps ==
  ASSUME IInv, NEW k \in Keys, NEW v \in Values, PutIfAbsent(k, v) PROVE IInv'
  <1>1. CASE Set(Expired \cap {k}, k, v, Never) /\ Claimed(k, v, Never)
    BY <1>1, SetKeeps DEF PutIfAbsent, Claimed, IInv, TypeOK, Sent
  <1>2. CASE Drop({}) /\ Refused(k, Never)
    BY <1>2, DropKeeps DEF PutIfAbsent, Refused, IInv, TypeOK, Sent
  <1> QED
    BY <1>1, <1>2 DEF PutIfAbsent

\* What a sweep drops has expired.
LEMMA PutIfAbsentUntilKeeps ==
  ASSUME IInv, NEW k \in Keys, NEW v \in Values, NEW e \in 1 .. MaxClock,
         PutIfAbsentUntil(k, v, e)
  PROVE  IInv'
  <1> DEFINE dropped == Swept \cup (Expired \cap {k})
  <1>1. dropped \subseteq Expired /\ e \in Nat /\ e # Never
    BY StoreAssumption DEF Swept
  <1>2. \A j \in dropped : ~Lasts(due[j], now)
    BY <1>1, ExpiredIsFree DEF Expired
  <1>3. lastSweep' \in Nat \cup {Never} /\ (lastSweep' # Never => lastSweep' <= now')
    BY DEF PutIfAbsentUntil, IInv, TypeOK
  <1>4. CASE Set(dropped, k, v, e) /\ Claimed(k, v, e)
    <2>1. due' = [due EXCEPT ![k] = e] /\ now' = now /\ e <= e
      BY <1>1, <1>4 DEF PutIfAbsentUntil, Claimed
    <2>2. /\ values' \in [Keys -> Values \cup {NoValue}]
          /\ expiries' \in [Keys -> Nat \cup {Never}]
          /\ due' \in [Keys -> Nat \cup {Never}]
          /\ \A j \in Keys : values'[j] = NoValue => expiries'[j] = Never
          /\ Promised'
      BY <1>1, <1>4, <2>1, SetKeeps
    <2> QED
      BY <1>3, <2>2 DEF PutIfAbsentUntil, IInv, TypeOK, Sent
  <1>5. CASE Drop(dropped) /\ Refused(k, e)
    BY <1>1, <1>2, <1>3, <1>5, DropKeeps DEF PutIfAbsentUntil, Refused, IInv, TypeOK, Sent, Expired
  <1> QED
    BY <1>4, <1>5 DEF PutIfAbsentUntil

\* Nothing is stored when a command leaves.
LEMMA SendKeeps ==
  ASSUME IInv, NEW k \in Keys, NEW v \in Values, NEW e \in 1 .. MaxClock, Send(k, v, e)
  PROVE  IInv'
  <1>1. Promised' /\ due' = due
    BY DEF Send, Refused, IInv, Promised
  <1>2. /\ pending' \in [1 .. MaxPending -> {Idle} \cup Commands]
        /\ Sent'
    <2>1. CASE UNCHANGED pending
      BY <2>1 DEF Send, IInv, TypeOK, Sent, Commands
    <2>2. CASE \E i \in 1 .. MaxPending : pending' = [pending EXCEPT ![i] = Command(k, v, e)]
      <3>1. /\ Command(k, v, e) \in Commands
            /\ Command(k, v, e).expiresAt \in 1 .. MaxClock
        BY StoreAssumption DEF Command, Commands
      <3> QED
        BY <2>2, <3>1 DEF Send, IInv, TypeOK, Sent, Commands
    <2> QED
      BY <2>1, <2>2 DEF Send
  <1> QED
    BY <1>1, <1>2 DEF Send, IInv, TypeOK, Commands

\* Redis keeps a claim at least as long as it was asked to.
LEMMA SetNXKeeps ==
  ASSUME IInv, NEW i \in 1 .. MaxPending, SetNX(i) PROVE IInv'
  <1> DEFINE r == pending[i]
  <1>1. r.key \in Keys /\ r.value \in Values /\ r.expiresAt \in Nat
    BY DEF SetNX, IInv, TypeOK
  <1>2. RoundedUp(r.expiresAt) \in Nat /\ r.expiresAt <= RoundedUp(r.expiresAt)
    BY <1>1, RoundedUpBounds, StoreAssumption
  <1>3. /\ pending' \in [1 .. MaxPending -> {Idle} \cup Commands]
        /\ Sent'
    BY DEF SetNX, IInv, TypeOK, Sent, Commands
  <1>4. r.expiresAt # Never
    BY <1>1, StoreAssumption
  <1>5. CASE /\ Set(Expired \cap {r.key}, r.key, r.value, RoundedUp(r.expiresAt))
             /\ Claimed(r.key, r.value, r.expiresAt)
    BY <1>1, <1>2, <1>3, <1>4, <1>5, SetKeeps DEF SetNX, Claimed, IInv, TypeOK, Commands
  <1>6. CASE Drop({}) /\ Refused(r.key, r.expiresAt)
    BY <1>3, <1>6, DropKeeps DEF SetNX, Refused, IInv, TypeOK, Commands
  <1> QED
    BY <1>5, <1>6 DEF SetNX

\* A key that is deleted is promised to nobody.
LEMMA DeleteKeeps == ASSUME IInv, NEW k \in Keys, Delete(k) PROVE IInv'
  <1>1. ~Lasts(0, now)
    BY StoreAssumption DEF IInv, TypeOK, Lasts
  <1> QED
    BY <1>1, DropKeeps DEF Delete, IInv, TypeOK, Sent

\* Promises only end as time passes.
LEMMA TickKeeps == ASSUME IInv, Tick PROVE IInv'
  <1>1. Promised'
    BY StoreAssumption DEF Tick, IInv, TypeOK, Promised, Lasts
  <1> QED
    BY <1>1, StoreAssumption DEF Tick, IInv, TypeOK, Sent

\* The invariant is inductive.
LEMMA NextIInv == ASSUME IInv, [Next]_vars PROVE IInv'
  <1>1. CASE UNCHANGED vars
    BY <1>1 DEF vars, IInv, TypeOK, Promised, Sent
  <1>2. CASE Next
    BY <1>2, GetKeeps, PutKeeps, PutIfAbsentKeeps, PutIfAbsentUntilKeeps, SendKeeps,
       SetNXKeeps, DeleteKeeps, TickKeeps DEF Next
  <1> QED
    BY <1>1, <1>2

LEMMA IInvHolds == Spec => []IInv
  BY InitIInv, NextIInv, PTL DEF Spec

\* Entries and expiries stay well typed, and only an entry expires.
THEOREM TypeCorrect == Spec => []TypeOK
  BY IInvHolds, PTL DEF IInv

-----------------------------------------------------------------------------
\* A key that is claimed was missing, or dropped as expired.
LEMMA ClaimsFree ==
  ASSUME IInv, NEW k \in Keys, Next, answer'.op = "Claimed", answer'.key = k
  PROVE  ~Lasts(due[k], now)
  <1> USE DEF Answer, Idle
  <1>1. ASSUME NEW j \in Keys, Get(j) \/ Delete(j) PROVE FALSE
    BY <1>1 DEF Get, Delete
  <1>2. ASSUME NEW j \in Keys, NEW v \in Values, Put(j, v) \/ RedisPut(j, v) PROVE FALSE
    BY <1>2 DEF Put, RedisPut
  <1>3. ASSUME NEW j \in Keys, NEW v \in Values, PutIfAbsent(j, v)
        PROVE  Kept(Expired, k) = NoValue
    BY <1>3 DEF PutIfAbsent, Claimed, Refused
  <1>4. ASSUME NEW j \in Keys, NEW v \in Values, NEW e \in 1 .. MaxClock,
               PutIfAbsentUntil(j, v, e)
        PROVE  Kept(Swept \cup (Expired \cap {j}), k) = NoValue
    BY <1>4 DEF PutIfAbsentUntil, Claimed, Refused
  <1>5. ASSUME NEW j \in Keys, NEW v \in Values, NEW e \in 1 .. MaxClock, Send(j, v, e)
        PROVE  FALSE
    BY <1>5 DEF Send, Refused
  <1>6. ASSUME NEW i \in 1 .. MaxPending, SetNX(i) PROVE Kept(Expired, k) = NoValue
    BY <1>6 DEF SetNX, Claimed, Refused
  <1>7. ~Tick
    BY DEF Tick
  <1>8. ASSUME NEW j PROVE Swept \cup (Expired \cap {j}) \subseteq Expired
    BY DEF Swept
  <1> QED
    BY <1>1, <1>2, <1>3, <1>4, <1>5, <1>6, <1>7, <1>8, MissingIsFree DEF Next

\* For both stores: no key is claimed again while its last claim lasts, unless
\* it was deleted or replaced.
THEOREM ClaimsExclusive == Spec => ClaimsExclude
  <1>1. ASSUME IInv, [Next]_vars
        PROVE  [\A k \in Keys : answer'.op = "Claimed" /\ answer'.key = k
                                  => ~Lasts(due[k], now)]_vars
    BY <1>1, ClaimsFree
  <1> QED
    BY <1>1, IInvHolds, PTL DEF Spec, ClaimsExclude

-----------------------------------------------------------------------------
(* The refinement of ExpiringStore.                                        *)

\* What a caller sees of the stores.
Entry == [k \in Keys |-> IF Live(k) THEN values[k] ELSE NoValue]
Until == [k \in Keys |-> IF Live(k) THEN expiries[k] ELSE Never]
Slack == IF backend = "memory" THEN 0 ELSE Second - 1
Instants == 0 .. MaxClock + TTL

\* Dropping what has expired changes nothing for a caller, whatever is set.
LEMMA DropIsUnseen ==
  ASSUME IInv, NEW dropped, dropped \subseteq Expired, Drop(dropped), now' = now
  PROVE  Entry' = Entry /\ Until' = Until
  BY StoreAssumption DEF IInv, TypeOK, Drop, Kept, Expired, Live, Lasts, Entry, Until

\* A key that is set is the contract's Store.
LEMMA SetIsStore ==
  ASSUME IInv, NEW dropped, dropped \subseteq Expired, now' = now, UNCHANGED backend,
         NEW k \in Keys, NEW v \in Values, NEW e \in Nat \cup {Never}, Set(dropped, k, v, e)
  PROVE  Contract!Store(k, v, e)
  <1>1. /\ Entry' = [Entry EXCEPT ![k] = IF Contract!Lasts(e, now) THEN v ELSE NoValue]
        /\ Until' = [Until EXCEPT ![k] = IF Contract!Lasts(e, now) THEN e ELSE Never]
    BY StoreAssumption DEF IInv, TypeOK, Set, Kept, Expired, Live, Lasts, Contract!Lasts, Entry, Until
  <1> QED
    BY <1>1 DEF Contract!Store, Entry, Until, Slack

\* A key is missing for a caller when the code finds nothing to keep.
LEMMA MissingIsUnseen ==
  ASSUME IInv, NEW k \in Keys, NEW dropped, dropped \subseteq Expired, Expired \cap {k} \subseteq dropped
  PROVE  Kept(dropped, k) = NoValue <=> Entry[k] = NoValue
  BY StoreAssumption DEF IInv, TypeOK, Kept, Expired, Live, Lasts, Entry

LEMMA GetRefines == ASSUME IInv, NEW k \in Keys, Get(k) PROVE Contract!Get(k)
  <1>1. Entry' = Entry /\ Until' = Until /\ Slack' = Slack
    BY DropIsUnseen DEF Get, Slack
  <1>2. Kept(Expired, k) = Entry[k]
    BY StoreAssumption DEF IInv, TypeOK, Kept, Expired, Live, Lasts, Entry
  <1> QED
    BY <1>1, <1>2 DEF Get, Contract!Get, Contract!Answer, Answer, Entry, Until, Slack

\* The TTL of the Redis store decides how long what is put lasts.
LEMMA PutRefines ==
  ASSUME IInv, NEW k \in Keys, NEW v \in Values, Put(k, v) \/ RedisPut(k, v)
  PROVE  Contract!Put(k, v)
  <1>1. \E u \in Instants \cup {Never} : Set({}, k, v, u)
    <2>1. CASE Put(k, v)
      BY <2>1 DEF Put
    <2>2. CASE RedisPut(k, v)
      <3>1. now + TTL \in Instants
        BY StoreAssumption DEF IInv, TypeOK, Instants
      <3> QED
        BY <2>2, <3>1 DEF RedisPut
    <2> QED
      BY <2>1, <2>2
  <1>2. PICK u \in Instants \cup {Never} : Set({}, k, v, u)
    BY <1>1
  <1>3. Contract!Store(k, v, u)
    BY <1>2, SetIsStore, StoreAssumption DEF Put, RedisPut, Instants
  <1> QED
    BY <1>3 DEF Put, RedisPut, Contract!Put, Contract!Answer, Answer, Instants

\* The contract and the stores mean the same by an expiry that lasts.
LEMMA SameLasts == \A e, t : Contract!Lasts(e, t) <=> Lasts(e, t)
  BY DEF Contract!Lasts, Lasts

\* A claim that is refused changes nothing for a caller.
LEMMA RefuseRefines ==
  ASSUME IInv, NEW k \in Keys, NEW e \in Instants \cup {Never},
         NEW dropped, dropped \subseteq Expired, Drop(dropped), Refused(k, e),
         now' = now, UNCHANGED backend
  PROVE  Contract!Deny(k, e)
  <1>1. Entry' = Entry /\ Until' = Until /\ Slack' = Slack
    BY DropIsUnseen DEF Slack
  <1> QED
    BY <1>1 DEF Refused, Contract!Deny, Contract!Answer, Answer, Entry, Until, Slack

\* A claim the stores grant is one the contract grants.
LEMMA ClaimRefines ==
  ASSUME IInv, NEW k \in Keys, NEW v \in Values, NEW e \in (1 .. MaxClock) \cup {Never},
         NEW dropped, dropped \subseteq Expired, NEW u \in Nat \cup {Never}, Set(dropped, k, v, u),
         Claimed(k, v, e), now' = now, UNCHANGED backend, Entry[k] = NoValue,
         \/ e = Never /\ u = Never
         \/ e # Never /\ u \in e .. e + Slack
  PROVE  Contract!Grant(k, v, e)
  <1>1. Contract!Store(k, v, u)
    BY SetIsStore
  <1>2. Contract!Answer("Claimed", k, v, e) = Answer("Claimed", k, v, e)
    BY DEF Contract!Answer, Answer
  <1>3. u \in IF e = Never THEN {Never} ELSE e .. e + Slack
    OBVIOUS
  <1> QED
    BY <1>1, <1>2, <1>3 DEF Claimed, Contract!Grant, Entry, Slack

LEMMA PutIfAbsentRefines ==
  ASSUME IInv, NEW k \in Keys, NEW v \in Values, PutIfAbsent(k, v)
  PROVE  Contract!Claim(k, v, Never) \/ Contract!Refuse(k, Never)
  <1>1. Kept(Expired, k) = NoValue <=> Entry[k] = NoValue
    BY MissingIsUnseen
  <1>2. CASE Kept(Expired, k) = NoValue
    <2>1. Contract!Grant(k, v, Never)
      BY <1>1, <1>2, ClaimRefines DEF PutIfAbsent
    <2> QED
      BY <2>1, SameLasts DEF Contract!Claim, PutIfAbsent, Lasts
  <1>3. CASE Kept(Expired, k) # NoValue
    <2>1. Contract!Deny(k, Never)
      BY <1>3, RefuseRefines DEF PutIfAbsent
    <2> QED
      BY <1>1, <1>3, <2>1 DEF Contract!Refuse, PutIfAbsent, Entry
  <1> QED
    BY <1>2, <1>3

LEMMA PutIfAbsentUntilRefines ==
  ASSUME IInv, NEW k \in Keys, NEW v \in Values, NEW e \in 1 .. MaxClock,
         PutIfAbsentUntil(k, v, e)
  PROVE  Contract!Claim(k, v, e) \/ Contract!Refuse(k, e)
  <1> DEFINE dropped == Swept \cup (Expired \cap {k})
  <1>1. dropped \subseteq Expired /\ Expired \cap {k} \subseteq dropped
    BY DEF Swept
  <1>2. Kept(dropped, k) = NoValue <=> Entry[k] = NoValue
    BY <1>1, MissingIsUnseen
  <1>3. e \in Instants /\ e # Never /\ e \in Nat /\ e \in e .. e + Slack
    BY StoreAssumption DEF Instants, Slack, PutIfAbsentUntil
  <1> HIDE DEF dropped
  <1>4. CASE Lasts(e, now) /\ Kept(dropped, k) = NoValue
    <2>1. Set(dropped, k, v, e) /\ Claimed(k, v, e) /\ now' = now /\ UNCHANGED backend
      BY <1>4 DEF PutIfAbsentUntil, dropped
    <2>2. Contract!Grant(k, v, e)
      BY <1>1, <1>2, <1>3, <1>4, <2>1, ClaimRefines
    <2> QED
      BY <1>4, <2>2, SameLasts DEF Contract!Claim, PutIfAbsentUntil
  <1>5. CASE ~(Lasts(e, now) /\ Kept(dropped, k) = NoValue)
    <2>1. Drop(dropped) /\ Refused(k, e) /\ now' = now /\ UNCHANGED backend
      BY <1>5 DEF PutIfAbsentUntil, dropped
    <2>2. Contract!Deny(k, e)
      BY <1>1, <1>3, <2>1, RefuseRefines
    <2> QED
      BY <1>2, <1>5, <2>2, SameLasts DEF Contract!Refuse, PutIfAbsentUntil, Entry
  <1> QED
    BY <1>4, <1>5

\* A command that leaves is a call that waits for its answer.
LEMMA SendRefines ==
  ASSUME IInv, NEW k \in Keys, NEW v \in Values, NEW e \in 1 .. MaxClock, Send(k, v, e)
  PROVE  Contract!Refuse(k, e) \/ \E c \in 1 .. MaxPending : Contract!Ask(c, k, v, e)
  <1>1. Entry' = Entry /\ Until' = Until /\ Slack' = Slack /\ now' = now
    BY DEF Send, Entry, Until, Live, Slack
  <1>2. CASE ~Lasts(e, now) /\ Refused(k, e) /\ UNCHANGED pending
    <2>1. Contract!Deny(k, e)
      BY <1>1, <1>2 DEF Refused, Contract!Deny, Contract!Answer, Answer, Entry, Until, Slack
    <2> QED
      BY <1>2, <2>1, SameLasts DEF Contract!Refuse
  <1>3. ASSUME Lasts(e, now), answer' = Idle, NEW i \in 1 .. MaxPending,
               pending[i] = Idle, pending' = [pending EXCEPT ![i] = Command(k, v, e)]
        PROVE  Contract!Ask(i, k, v, e)
    <2>1. Contract!Request(k, v, e) = Command(k, v, e)
      BY DEF Contract!Request, Command
    <2> QED
      BY <1>1, <1>3, <2>1, SameLasts DEF Contract!Ask, Contract!Idle, Idle, Entry, Until, Slack
  <1> QED
    BY <1>2, <1>3 DEF Send

\* A command that arrives claims its key if it is still missing.
LEMMA SetNXRefines ==
  ASSUME IInv, NEW i \in 1 .. MaxPending, SetNX(i)
  PROVE  Contract!Reply(i)
  <1>1. PICK k \in Keys, v \in Values, e \in 1 .. MaxClock :
          /\ k = pending[i].key /\ v = pending[i].value /\ e = pending[i].expiresAt
          /\ backend = "redis"
    BY DEF SetNX, IInv, TypeOK, Sent
  <1> DEFINE u == RoundedUp(e)
  <1>2. /\ u \in e .. e + Slack /\ u \in Nat /\ e # Never
        /\ e \in Instants \cup {Never}
    BY <1>1, RoundedUpBounds, StoreAssumption DEF Slack, Instants
  <1>3. Kept(Expired, k) = NoValue <=> Entry[k] = NoValue
    BY <1>1, MissingIsUnseen
  <1>4. /\ now' = now /\ backend' = backend
        /\ pending[i] # Idle /\ pending' = [pending EXCEPT ![i] = Idle]
        /\ IF Kept(Expired, k) = NoValue
           THEN Set(Expired \cap {k}, k, v, u) /\ Claimed(k, v, e)
           ELSE Drop({}) /\ Refused(k, e)
    BY <1>1 DEF SetNX
  <1> HIDE DEF u
  <1>5. CASE Kept(Expired, k) = NoValue
    <2>1. Contract!Grant(k, v, e)
      BY <1>1, <1>2, <1>3, <1>4, <1>5, ClaimRefines
    <2> QED
      BY <1>1, <1>4, <2>1 DEF Contract!Reply, Contract!Idle, Idle
  <1>6. CASE Kept(Expired, k) # NoValue
    <2>1. Contract!Deny(k, e)
      BY <1>1, <1>2, <1>4, <1>6, RefuseRefines
    <2> QED
      BY <1>1, <1>3, <1>4, <1>6, <2>1 DEF Contract!Reply, Contract!Idle, Idle, Entry
  <1> QED
    BY <1>5, <1>6

LEMMA DeleteRefines == ASSUME IInv, NEW k \in Keys, Delete(k) PROVE Contract!Delete(k)
  <1>1. /\ Entry' = [Entry EXCEPT ![k] = NoValue]
        /\ Until' = [Until EXCEPT ![k] = Never]
    BY StoreAssumption DEF Delete, Drop, Kept, IInv, TypeOK, Live, Lasts, Entry, Until
  <1> QED
    BY <1>1 DEF Delete, Contract!Delete, Contract!Answer, Answer, Entry, Until, Slack

LEMMA TickRefines == ASSUME IInv, Tick PROVE Contract!Tick
  <1>1. /\ Entry' = [k \in Keys |-> IF Contract!Lasts(Until[k], now') THEN Entry[k] ELSE NoValue]
        /\ Until' = [k \in Keys |-> IF Contract!Lasts(Until[k], now') THEN Until[k] ELSE Never]
    BY StoreAssumption DEF Tick, IInv, TypeOK, Live, Lasts, Contract!Lasts, Entry, Until
  <1> QED
    BY <1>1 DEF Tick, Contract!Tick, Contract!Idle, Idle, Entry, Until, Slack

LEMMA NextRefines == ASSUME IInv, Next PROVE Contract!Next
  <1>1. 1 .. MaxClock \subseteq Instants
    BY StoreAssumption DEF Instants
  <1>2. ASSUME NEW k \in Keys, Get(k) \/ Delete(k) PROVE Contract!Next
    BY <1>2, GetRefines, DeleteRefines DEF Contract!Next
  <1>3. ASSUME NEW k \in Keys, NEW v \in Values, Put(k, v) \/ RedisPut(k, v) \/ PutIfAbsent(k, v)
        PROVE  Contract!Next
    BY <1>3, PutRefines, PutIfAbsentRefines DEF Contract!Next
  <1>4. ASSUME NEW k \in Keys, NEW v \in Values, NEW e \in 1 .. MaxClock,
               PutIfAbsentUntil(k, v, e) \/ Send(k, v, e)
        PROVE  Contract!Next
    BY <1>1, <1>4, PutIfAbsentUntilRefines, SendRefines DEF Contract!Next, Instants
  <1>5. ASSUME NEW i \in 1 .. MaxPending, SetNX(i) PROVE Contract!Next
    BY <1>5, SetNXRefines DEF Contract!Next
  <1>6. CASE Tick
    BY <1>6, TickRefines DEF Contract!Next
  <1> QED
    BY <1>2, <1>3, <1>4, <1>5, <1>6 DEF Next

\* Both stores keep the promise of ExpiringStore: every claim is answered as the
\* contract answers the key, value and expiry it was asked with.
THEOREM StoresKeepContract == Spec => ImplementsExpiringStore
  <1>1. Init => Contract!Init
    BY StoreAssumption DEF Init, Contract!Init, Contract!Idle, Idle, Live, Lasts
  <1>2. ASSUME IInv, [Next]_vars PROVE [Contract!Next]_(Contract!vars)
    <2>1. CASE UNCHANGED vars
      BY <2>1 DEF vars, Contract!vars, Live
    <2>2. CASE Next
      BY <2>2, <1>2, NextRefines
    <2> QED
      BY <1>2, <2>1, <2>2
  <1> QED
    BY <1>1, <1>2, IInvHolds, PTL DEF Spec, ImplementsExpiringStore, Contract!Spec
===============================================================================
