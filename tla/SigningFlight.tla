--------------------------- MODULE SigningFlight ---------------------------
(***************************************************************************)
(* Concurrent Method.CreateCredential calls of pkg/tempo/client for one    *)
(* nonzero challenge: the first call registers a signing, the others wait  *)
(* for it.  Calls for different challenges share nothing but the mutex.    *)
(*                                                                         *)
(* A signing is named after the call that leads it: a call leads at most   *)
(* one.  The node and the chain are external; the account pays nothing     *)
(* but these transactions.                                                 *)
(***************************************************************************)
EXTENDS Naturals

CONSTANTS
  Calls,   \* CreateCredential calls
  Modes,   \* how the method pays: see mode
  NoCall

ASSUME ModesAssumption == Modes \subseteq {"push", "pull", "sponsored"}
ASSUME NoCallAssumption == NoCall \notin Calls

VARIABLES
  mode,      \* "push": the method broadcasts; "pull": it hands out a signed
             \* transaction; "sponsored": one with an expiring nonce
  pc,        \* where each call is
  ctx,       \* its context: "live" or "ended"
  signing,   \* the call registered in Method.signing
  flight,    \* the signing each call leads, waits for or took its answer from
  outcome,   \* credential and err of each signing
  done,      \* signings whose done channel is closed
  result,    \* what each call returns
  nonce,     \* the nonce each call signs with
  signed,    \* calls whose transaction left the method
  joined     \* history: signings each call waited for

method == <<mode, pc, signing, flight, outcome, done, result, nonce, signed>>
vars == <<method, ctx, joined>>

\* GetTransactionCount: what left the method may be on chain when it is read.
\* An expiring nonce is always 0.
Nonces ==
  IF mode = "sponsored" THEN {0} ELSE {0} \cup {nonce[f] + 1 : f \in signed}

Init ==
  /\ mode \in Modes
  /\ pc = [c \in Calls |-> "lookup"]
  /\ ctx = [c \in Calls |-> "live"]
  /\ signing = NoCall
  /\ flight = [c \in Calls |-> c]
  /\ outcome = [c \in Calls |-> "pending"]
  /\ result = [c \in Calls |-> "none"]
  /\ nonce = [c \in Calls |-> 0]
  /\ done = {} /\ signed = {}
  /\ joined = [c \in Calls |-> {}]

Goto(c, label) == pc' = [pc EXCEPT ![c] = label]
Return(c, answer) ==
  /\ result' = [result EXCEPT ![c] = answer]
  /\ Goto(c, "returned")

-----------------------------------------------------------------------------
(* Lookup and wait.                                                        *)

Join(c) ==
  /\ pc[c] = "lookup"
  /\ signing # NoCall
  /\ flight' = [flight EXCEPT ![c] = signing]
  /\ joined' = [joined EXCEPT ![c] = @ \cup {signing}]
  /\ Goto(c, "wait")
  /\ UNCHANGED <<mode, ctx, signing, outcome, done, result, nonce, signed>>

LeadUnlocked(c) ==   \* mutant: looked up and registered under separate locks
  /\ pc[c] = "lookup"
  /\ signing' = c
  /\ flight' = [flight EXCEPT ![c] = c]
  /\ Goto(c, "prepare")
  /\ UNCHANGED <<mode, ctx, outcome, done, result, nonce, signed, joined>>

Lead(c) ==
  /\ pc[c] = "lookup"
  /\ signing = NoCall
  /\ signing' = c
  /\ flight' = [flight EXCEPT ![c] = c]
  /\ Goto(c, "prepare")
  /\ UNCHANGED <<mode, ctx, outcome, done, result, nonce, signed, joined>>

AlwaysAgain(c) == ctx[c] = "live"   \* mutant: whatever the signing produced
NeverAgain(c) == FALSE   \* mutant: the leader's error is everyone's error
\* "The leading call's own context ended. Ours is still live."
SignsAgain(c) == outcome[flight[c]] = "ended" /\ ctx[c] = "live"

WakeUnclosed(c) ==   \* mutant: the signing is read before done is closed
  /\ pc[c] = "wait"
  /\ \/ SignsAgain(c) /\ Goto(c, "lookup") /\ UNCHANGED result
     \/ ~SignsAgain(c) /\ Return(c, outcome[flight[c]])
  /\ UNCHANGED <<mode, ctx, signing, flight, outcome, done, nonce, signed, joined>>

Wake(c) ==
  /\ pc[c] = "wait"
  /\ flight[c] \in done
  /\ \/ SignsAgain(c) /\ Goto(c, "lookup") /\ UNCHANGED result
     \/ ~SignsAgain(c) /\ Return(c, outcome[flight[c]])
  /\ UNCHANGED <<mode, ctx, signing, flight, outcome, done, nonce, signed, joined>>

\* The waiting call's own context has ended.
GiveUp(c) ==
  /\ pc[c] = "wait" /\ ctx[c] = "ended"
  /\ Return(c, "ended")
  /\ UNCHANGED <<mode, ctx, signing, flight, outcome, done, nonce, signed, joined>>

-----------------------------------------------------------------------------
(* The leader: createCredential, then the deferred clean-up.               *)

\* The signing's credential and error are set.
Conclude(c, answer) ==
  /\ outcome' = [outcome EXCEPT ![c] = answer]
  /\ Goto(c, "unregister")

\* Policy, chain id, gas price and nonce are there.
Prepare(c) ==
  /\ pc[c] = "prepare"
  /\ \E n \in Nonces : nonce' = [nonce EXCEPT ![c] = n]
  /\ Goto(c, "sign")
  /\ UNCHANGED <<mode, ctx, signing, flight, outcome, done, result, signed, joined>>

\* A check or an RPC call fails, or the policy refuses.  The error is a
\* context error when the leader's context ended or a client timed out.
Fail(c) ==
  /\ pc[c] \in {"prepare", "sign"}
  /\ \E answer \in {"ended", "failed"} : Conclude(c, answer)
  /\ UNCHANGED <<mode, ctx, signing, flight, done, result, nonce, signed, joined>>

PanicUnnoticed(c) ==   \* mutant: no completed flag
  /\ pc[c] \in {"prepare", "sign"}
  /\ Conclude(c, "credential")
  /\ UNCHANGED <<mode, ctx, signing, flight, done, result, nonce, signed, joined>>

\* createCredential panics: the joining calls fail.
Panic(c) ==
  /\ pc[c] \in {"prepare", "sign"}
  /\ Conclude(c, "failed")
  /\ UNCHANGED <<mode, ctx, signing, flight, done, result, nonce, signed, joined>>

\* The signed transaction is the credential.
Sign(c) ==
  /\ pc[c] = "sign" /\ mode # "push"
  /\ signed' = signed \cup {c}
  /\ Conclude(c, "credential")
  /\ UNCHANGED <<mode, ctx, signing, flight, done, result, nonce, joined>>

\* The node takes the transaction; its answer may be lost, or come too late.
Broadcast(c) ==
  /\ pc[c] = "sign" /\ mode = "push"
  /\ signed' = signed \cup {c}
  /\ \E answer \in {"credential", "ended", "failed"} : Conclude(c, answer)
  /\ UNCHANGED <<mode, ctx, signing, flight, done, result, nonce, joined>>

UnregisterNothing(c) ==   \* mutant: the entry stays in the map
  /\ pc[c] = "unregister"
  /\ Goto(c, "close")
  /\ UNCHANGED <<mode, ctx, signing, flight, outcome, done, result, nonce, signed,
                 joined>>

Unregister(c) ==
  /\ pc[c] = "unregister"
  /\ signing' = NoCall
  /\ Goto(c, "close")
  /\ UNCHANGED <<mode, ctx, flight, outcome, done, result, nonce, signed, joined>>

Close(c) ==
  /\ pc[c] = "close"
  /\ done' = done \cup {c}
  /\ Return(c, outcome[c])
  /\ UNCHANGED <<mode, ctx, signing, flight, outcome, nonce, signed, joined>>

-----------------------------------------------------------------------------
(* The environment.                                                        *)

\* A leader's context shows only in its RPC calls: see Fail and Broadcast.
EndContext(c) ==
  /\ ctx[c] = "live" /\ pc[c] \in {"lookup", "wait"}
  /\ ctx' = [ctx EXCEPT ![c] = "ended"]
  /\ UNCHANGED <<method, joined>>

Step(c) ==
  \/ Join(c) \/ Lead(c) \/ Wake(c) \/ GiveUp(c)
  \/ Prepare(c) \/ Fail(c) \/ Panic(c) \/ Sign(c) \/ Broadcast(c)
  \/ Unregister(c) \/ Close(c)

Finished == (\A c \in Calls : pc[c] = "returned") /\ UNCHANGED vars

Next == (\E c \in Calls : Step(c) \/ EndContext(c)) \/ Finished

Spec == Init /\ [][Next]_vars

\* The goroutines are scheduled, and every RPC call and policy returns: they
\* take the leader's context, which its caller can bound.
LiveSpec == Spec /\ \A c \in Calls : WF_vars(Step(c))

-----------------------------------------------------------------------------
\* Every variable has its type.
TypeOK ==
  /\ mode \in {"push", "pull", "sponsored"}
  /\ pc \in [Calls -> {"lookup", "wait", "prepare", "sign", "unregister", "close",
                       "returned"}]
  /\ ctx \in [Calls -> {"live", "ended"}]
  /\ signing \in Calls \cup {NoCall}
  /\ flight \in [Calls -> Calls]
  /\ outcome \in [Calls -> {"pending", "credential", "ended", "failed"}]
  /\ result \in [Calls -> {"none", "credential", "ended", "failed"}]
  /\ nonce \in [Calls -> Nat]
  /\ done \subseteq Calls /\ signed \subseteq Calls
  /\ joined \in [Calls -> SUBSET Calls]

\* "Concurrent calls for the same challenge share one in-flight signing": at
\* most one call is between Lead and Unregister.
OneSigning ==
  \A c, d \in Calls :
    {pc[c], pc[d]} \subseteq {"prepare", "sign", "unregister"} => c = d

\* Both transactions of c and f can be included.
BothSettle(c, f) ==
  {c, f} \subseteq signed /\ (mode = "sponsored" \/ nonce[c] # nonce[f])

\* "so they cannot produce two independently settleable transactions": a call
\* that waited for a signing does not pay besides it.
JoinedCallsPayOnce == \A c \in Calls : \A f \in joined[c] : ~BothSettle(c, f)

\* JoinedCallsPayOnce for the methods that leave the broadcast to the server.
HandedOutOnce == mode # "push" => JoinedCallsPayOnce

\* A call returns a credential only if its signing produced one, also when the
\* leader panicked.
CredentialIsSigned ==
  \A c \in Calls : result[c] = "credential" => flight[c] \in signed

\* A call whose own context is live never fails because another call's ended.
LiveCallNotCancelled ==
  \A c \in Calls : result[c] = "ended" /\ ctx[c] = "live" => flight[c] = c

\* Every call returns: no waiter is left behind by an error, a panic or an
\* ended context, and signing again comes to an end.
EveryCallReturns == \A c \in Calls : <>(pc[c] = "returned")
=============================================================================
