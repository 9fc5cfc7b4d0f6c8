---------------------------- MODULE ExpiringStore ----------------------------
(***************************************************************************)
(* What a replay store promises (tempo.Store and tempo.ExpiringStore): a   *)
(* key is claimed once and kept until the expiry its caller asked for, and *)
(* a claim is refused only when its key is taken or its expiry has passed. *)
(* A caller asks for an expiry that has not passed and is answered then,   *)
(* or later, by what the store holds at that moment.                       *)
(***************************************************************************)
EXTENDS Naturals

CONSTANTS
  Keys, Values,
  Instants,  \* instants an entry may expire at
  NoValue,   \* the key is missing
  Never,     \* the entry does not expire
  Calls      \* calls that may be waiting for their answer

VARIABLES
  clock,
  slack,    \* how much longer than promised the backend may keep an entry
  entry,    \* the value of each key that has not expired
  until,    \* when it expires
  asked,    \* claims that were asked for and are not answered yet
  answer    \* of the last call, with the expiry its caller asked for

vars == <<clock, slack, entry, until, asked, answer>>

Lasts(expiry, t) == expiry = Never \/ t < expiry

Answer(op, key, value, expiry) ==
  [op |-> op, key |-> key, value |-> value, expiresAt |-> expiry]
Request(key, value, expiry) == [key |-> key, value |-> value, expiresAt |-> expiry]
Idle == [op |-> "none", value |-> NoValue]

Init ==
  /\ clock = 0 /\ slack \in Nat
  /\ entry = [k \in Keys |-> NoValue] /\ until = [k \in Keys |-> Never]
  /\ asked = [c \in Calls |-> Idle] /\ answer = Idle

Get(k) ==
  /\ answer' = Answer("Get", k, entry[k], Never)
  /\ UNCHANGED <<clock, slack, entry, until, asked>>

\* k holds v until u; nothing is kept that has expired already.
Store(k, v, u) ==
  /\ entry' = [entry EXCEPT ![k] = IF Lasts(u, clock) THEN v ELSE NoValue]
  /\ until' = [until EXCEPT ![k] = IF Lasts(u, clock) THEN u ELSE Never]
  /\ UNCHANGED <<clock, slack>>

\* How long what is put lasts is the backend's to say.
Put(k, v) ==
  /\ \E u \in Instants \cup {Never} : Store(k, v, u)
  /\ answer' = Answer("Put", k, v, Never)
  /\ UNCHANGED asked

\* A missing key is kept from now until e, or for good.
Grant(k, v, e) ==
  /\ entry[k] = NoValue
  /\ \E u \in IF e = Never THEN {Never} ELSE e .. e + slack : Store(k, v, u)
  /\ answer' = Answer("Claimed", k, v, e)

Deny(k, e) ==
  /\ answer' = Answer("Refused", k, NoValue, e)
  /\ UNCHANGED <<clock, slack, entry, until>>

\* A call that is answered at once, for an expiry in the future.
Claim(k, v, e) ==
  /\ Lasts(e, clock) /\ Grant(k, v, e)
  /\ UNCHANGED asked

\* Refused at once: the key is taken, or e is not in the future.
Refuse(k, e) ==
  /\ entry[k] # NoValue \/ ~Lasts(e, clock)
  /\ Deny(k, e)
  /\ UNCHANGED asked

\* A call that waits for its answer: its expiry is in the future now.
Ask(c, k, v, e) ==
  /\ asked[c] = Idle /\ Lasts(e, clock)
  /\ asked' = [asked EXCEPT ![c] = Request(k, v, e)]
  /\ answer' = Idle
  /\ UNCHANGED <<clock, slack, entry, until>>

\* It is granted its key exactly if nobody holds it.
Reply(c) ==
  /\ asked[c] # Idle
  /\ LET r == asked[c] IN
       \/ Grant(r.key, r.value, r.expiresAt)
       \/ entry[r.key] # NoValue /\ Deny(r.key, r.expiresAt)
  /\ asked' = [asked EXCEPT ![c] = Idle]

Delete(k) ==
  /\ entry' = [entry EXCEPT ![k] = NoValue]
  /\ until' = [until EXCEPT ![k] = Never]
  /\ answer' = Answer("Delete", k, NoValue, Never)
  /\ UNCHANGED <<clock, slack, asked>>

\* Time passes, and what has expired is gone.
Tick ==
  /\ clock' = clock + 1
  /\ entry' = [k \in Keys |-> IF Lasts(until[k], clock') THEN entry[k] ELSE NoValue]
  /\ until' = [k \in Keys |-> IF Lasts(until[k], clock') THEN until[k] ELSE Never]
  /\ answer' = Idle
  /\ UNCHANGED <<slack, asked>>

Next ==
  \/ \E k \in Keys : Get(k) \/ Delete(k)
  \/ \E k \in Keys, v \in Values : Put(k, v)
  \/ \E k \in Keys, v \in Values, e \in Instants \cup {Never} :
       Claim(k, v, e) \/ Refuse(k, e) \/ \E c \in Calls : Ask(c, k, v, e)
  \/ \E c \in Calls : Reply(c)
  \/ Tick

Spec == Init /\ [][Next]_vars
===============================================================================
