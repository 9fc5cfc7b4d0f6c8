------------------------ MODULE SigningFlightProofs ------------------------
(***************************************************************************)
(* Safety of SigningFlight for any set of calls and any way of paying.     *)
(***************************************************************************)
EXTENDS SigningFlight, TLAPS

Leading == {"prepare", "sign", "unregister"}
Early == {"lookup", "wait", "prepare", "sign"}

\* The map holds the call that leads, and nothing else.
RegisterInv == \A c \in Calls : pc[c] \in Leading <=> signing = c

\* A signing has no outcome before it concludes, and one afterwards; calls have
\* no result before they return.
OutcomeInv ==
  \A c \in Calls :
    /\ pc[c] \in Early => outcome[c] = "pending" /\ c \notin signed
    /\ pc[c] \in {"unregister", "close"} \/ c \in done => outcome[c] # "pending"
    /\ pc[c] # "returned" => result[c] = "none"
    /\ pc[c] \notin {"lookup", "wait", "returned"} => flight[c] = c

\* Credentials are signed, and a signed transaction of a leader that does not
\* broadcast is always a credential.
SignedInv ==
  \A c \in Calls :
    /\ outcome[c] = "credential" => c \in signed
    /\ c \in signed => flight[c] = c /\ (mode # "push" => outcome[c] = "credential")
    /\ result[c] = "credential" => outcome[flight[c]] = "credential"

\* A call moves on from a signing it waited for only when that one's context
\* ended.
JoinedInv ==
  \A c \in Calls :
    /\ c \notin joined[c]
    /\ \A f \in joined[c] :
         outcome[f] = "ended" \/ (flight[c] = f /\ pc[c] \in {"wait", "returned"})

IInv == TypeOK /\ RegisterInv /\ OutcomeInv /\ SignedInv /\ JoinedInv /\ LiveCallNotCancelled

-----------------------------------------------------------------------------
\* The invariant holds of the fresh Method.
LEMMA InitIInv == Init => IInv
  <1> SUFFICES ASSUME Init PROVE IInv
    OBVIOUS
  <1> USE ModesAssumption, NoCallAssumption DEF Init
  <1>1. TypeOK
    BY DEF TypeOK
  <1>2. RegisterInv /\ OutcomeInv /\ SignedInv
    BY DEF RegisterInv, OutcomeInv, SignedInv, Leading
  <1>3. JoinedInv /\ LiveCallNotCancelled
    BY DEF JoinedInv, LiveCallNotCancelled
  <1> QED
    BY <1>1, <1>2, <1>3 DEF IInv

\* A call that joins waits for a call that leads, hence for another one.
LEMMA JoinKeeps == ASSUME IInv, NEW c \in Calls, Join(c) PROVE IInv'
  <1> USE DEF IInv, Join, Goto
  <1>1. signing \in Calls /\ pc[signing] \in Leading /\ signing # c
    BY DEF TypeOK, RegisterInv, Leading
  <1>2. TypeOK'
    BY <1>1 DEF TypeOK
  <1>3. RegisterInv' /\ OutcomeInv'
    BY <1>1 DEF TypeOK, RegisterInv, OutcomeInv, Leading, Early
  <1>4. SignedInv'
    BY <1>1 DEF TypeOK, SignedInv, OutcomeInv, Early
  <1>5. JoinedInv'
    BY <1>1 DEF TypeOK, JoinedInv
  <1>6. LiveCallNotCancelled'
    BY <1>1 DEF TypeOK, LiveCallNotCancelled, OutcomeInv
  <1> QED
    BY <1>2, <1>3, <1>4, <1>5, <1>6

\* A call leads only when no other does.
LEMMA LeadKeeps == ASSUME IInv, NEW c \in Calls, Lead(c) PROVE IInv'
  <1> USE NoCallAssumption DEF IInv, Lead, Goto
  <1>1. TypeOK'
    BY DEF TypeOK
  <1>2. RegisterInv' /\ OutcomeInv'
    BY DEF TypeOK, RegisterInv, OutcomeInv, Leading, Early
  <1>3. SignedInv'
    BY DEF TypeOK, SignedInv, OutcomeInv, Early
  <1>4. JoinedInv'
    BY DEF TypeOK, JoinedInv
  <1>5. LiveCallNotCancelled'
    BY DEF TypeOK, LiveCallNotCancelled, OutcomeInv
  <1> QED
    BY <1>1, <1>2, <1>3, <1>4, <1>5

\* A call signs again only after a signing whose context ended.
LEMMA WakeKeeps == ASSUME IInv, NEW c \in Calls, Wake(c) PROVE IInv'
  <1> USE DEF IInv, Wake, Goto, Return, SignsAgain
  <1>1. flight[c] \in Calls /\ outcome[flight[c]] \in {"credential", "ended", "failed"}
    BY DEF TypeOK, OutcomeInv
  <1>2. TypeOK'
    BY <1>1 DEF TypeOK
  <1>3. RegisterInv' /\ OutcomeInv'
    BY <1>1 DEF TypeOK, RegisterInv, OutcomeInv, Leading, Early
  <1>4. SignedInv'
    BY <1>1 DEF TypeOK, SignedInv, OutcomeInv, Early
  <1>5. JoinedInv'
    BY <1>1 DEF TypeOK, JoinedInv
  <1>6. LiveCallNotCancelled'
    BY <1>1 DEF TypeOK, LiveCallNotCancelled, OutcomeInv
  <1> QED
    BY <1>2, <1>3, <1>4, <1>5, <1>6

LEMMA GiveUpKeeps == ASSUME IInv, NEW c \in Calls, GiveUp(c) PROVE IInv'
  <1> USE DEF IInv, GiveUp, Goto, Return
  <1>1. TypeOK'
    BY DEF TypeOK
  <1>2. RegisterInv' /\ OutcomeInv'
    BY DEF TypeOK, RegisterInv, OutcomeInv, Leading, Early
  <1>3. SignedInv'
    BY DEF TypeOK, SignedInv, OutcomeInv, Early
  <1>4. JoinedInv' /\ LiveCallNotCancelled'
    BY DEF TypeOK, JoinedInv, LiveCallNotCancelled
  <1> QED
    BY <1>1, <1>2, <1>3, <1>4

LEMMA PrepareKeeps == ASSUME IInv, NEW c \in Calls, Prepare(c) PROVE IInv'
  <1> USE DEF IInv, Prepare, Goto
  <1>1. Nonces \subseteq Nat
    BY DEF Nonces, TypeOK
  <1>2. TypeOK'
    BY <1>1 DEF TypeOK
  <1>3. RegisterInv' /\ OutcomeInv'
    BY DEF TypeOK, RegisterInv, OutcomeInv, Leading, Early
  <1>4. SignedInv' /\ JoinedInv' /\ LiveCallNotCancelled'
    BY DEF TypeOK, SignedInv, JoinedInv, LiveCallNotCancelled
  <1> QED
    BY <1>2, <1>3, <1>4

\* The steps that end createCredential: an answer that the transactions which
\* left the method allow.
Concludes(c, answer) ==
  /\ pc[c] \in {"prepare", "sign"}
  /\ Conclude(c, answer)
  /\ signed \subseteq signed' /\ signed' \subseteq signed \cup {c}
  /\ answer = "credential" => c \in signed'
  /\ mode # "push" /\ c \in signed' => answer = "credential"
  /\ UNCHANGED <<mode, ctx, signing, flight, done, result, nonce, joined>>

LEMMA ConcludesKeeps ==
  ASSUME IInv, NEW c \in Calls, NEW answer \in {"credential", "ended", "failed"},
         Concludes(c, answer)
  PROVE  IInv'
  <1> USE DEF IInv, Concludes, Conclude, Goto
  <1>1. outcome[c] = "pending" /\ c \notin signed /\ flight[c] = c
    BY DEF OutcomeInv, Early
  <1>2. TypeOK'
    BY DEF TypeOK
  <1>3. RegisterInv' /\ OutcomeInv'
    BY <1>1 DEF TypeOK, RegisterInv, OutcomeInv, Leading, Early
  <1>4. SignedInv'
    BY <1>1 DEF TypeOK, SignedInv, OutcomeInv, Early
  <1>5. JoinedInv'
    BY <1>1 DEF TypeOK, JoinedInv
  <1>6. LiveCallNotCancelled'
    BY DEF LiveCallNotCancelled
  <1> QED
    BY <1>2, <1>3, <1>4, <1>5, <1>6

LEMMA UnregisterKeeps == ASSUME IInv, NEW c \in Calls, Unregister(c) PROVE IInv'
  <1> USE NoCallAssumption DEF IInv, Unregister, Goto
  <1>1. TypeOK'
    BY DEF TypeOK
  <1>2. RegisterInv' /\ OutcomeInv'
    BY DEF TypeOK, RegisterInv, OutcomeInv, Leading, Early
  <1>3. SignedInv' /\ JoinedInv' /\ LiveCallNotCancelled'
    BY DEF TypeOK, SignedInv, JoinedInv, LiveCallNotCancelled
  <1> QED
    BY <1>1, <1>2, <1>3

LEMMA CloseKeeps == ASSUME IInv, NEW c \in Calls, Close(c) PROVE IInv'
  <1> USE DEF IInv, Close, Goto, Return
  <1>1. flight[c] = c /\ outcome[c] \in {"credential", "ended", "failed"}
    BY DEF TypeOK, OutcomeInv
  <1>2. TypeOK'
    BY <1>1 DEF TypeOK
  <1>3. RegisterInv' /\ OutcomeInv'
    BY <1>1 DEF TypeOK, RegisterInv, OutcomeInv, Leading, Early
  <1>4. SignedInv'
    BY <1>1 DEF TypeOK, SignedInv
  <1>5. JoinedInv'
    BY <1>1 DEF TypeOK, JoinedInv
  <1>6. LiveCallNotCancelled'
    BY <1>1 DEF TypeOK, LiveCallNotCancelled
  <1> QED
    BY <1>2, <1>3, <1>4, <1>5, <1>6

LEMMA EndContextKeeps == ASSUME IInv, NEW c \in Calls, EndContext(c) PROVE IInv'
  <1> USE DEF IInv, EndContext, method
  <1>1. TypeOK' /\ LiveCallNotCancelled'
    BY DEF TypeOK, LiveCallNotCancelled
  <1>2. RegisterInv' /\ OutcomeInv' /\ SignedInv' /\ JoinedInv'
    BY DEF RegisterInv, OutcomeInv, SignedInv, JoinedInv
  <1> QED
    BY <1>1, <1>2

\* Every step keeps the invariant.
LEMMA NextKeeps == IInv /\ [Next]_vars => IInv'
  <1> SUFFICES ASSUME IInv, [Next]_vars PROVE IInv'
    OBVIOUS
  <1>1. ASSUME NEW c \in Calls, Step(c) PROVE IInv'
    <2>1. CASE Join(c) BY <2>1, JoinKeeps
    <2>2. CASE Lead(c) BY <2>2, LeadKeeps
    <2>3. CASE Wake(c) BY <2>3, WakeKeeps
    <2>4. CASE GiveUp(c) BY <2>4, GiveUpKeeps
    <2>5. CASE Prepare(c) BY <2>5, PrepareKeeps
    <2>6. CASE Unregister(c) BY <2>6, UnregisterKeeps
    <2>7. CASE Close(c) BY <2>7, CloseKeeps
    <2> HIDE DEF IInv
    <2>8. ASSUME pc[c] \in {"prepare", "sign"} PROVE c \notin signed
      BY <2>8 DEF IInv, OutcomeInv, Early
    <2>9. CASE Fail(c)
      <3>1. \E answer \in {"ended", "failed"} : Concludes(c, answer)
        BY <2>8, <2>9 DEF Fail, Concludes
      <3> QED
        BY <3>1, ConcludesKeeps
    <2>10. CASE Panic(c)
      <3>1. Concludes(c, "failed")
        BY <2>8, <2>10 DEF Panic, Concludes
      <3> QED
        BY <3>1, ConcludesKeeps
    <2>11. CASE Sign(c)
      <3>1. Concludes(c, "credential")
        BY <2>11 DEF Sign, Concludes
      <3> QED
        BY <3>1, ConcludesKeeps
    <2>12. CASE Broadcast(c)
      <3>1. \E answer \in {"credential", "ended", "failed"} : Concludes(c, answer)
        BY <2>12 DEF Broadcast, Concludes
      <3> QED
        BY <3>1, ConcludesKeeps
    <2> QED
      BY <1>1, <2>1, <2>2, <2>3, <2>4, <2>5, <2>6, <2>7, <2>9, <2>10, <2>11, <2>12 DEF Step
  <1>2. ASSUME NEW c \in Calls, EndContext(c) PROVE IInv'
    BY <1>2, EndContextKeeps
  <1>3. CASE UNCHANGED vars
    BY <1>3 DEF IInv, TypeOK, RegisterInv, OutcomeInv, SignedInv, JoinedInv,
                LiveCallNotCancelled, vars, method
  <1> QED
    BY <1>1, <1>2, <1>3 DEF Next, Finished

\* The inductive invariant holds throughout.
LEMMA IInvHolds == Spec => []IInv
  BY InitIInv, NextKeeps, PTL DEF Spec

-----------------------------------------------------------------------------
\* Every variable keeps its type.
THEOREM TypeCorrect == Spec => []TypeOK
  <1>1. IInv => TypeOK
    BY DEF IInv
  <1> QED
    BY <1>1, IInvHolds, PTL

\* At most one CreateCredential call signs at a time.
THEOREM OneSigner == Spec => []OneSigning
  <1>1. IInv => OneSigning
    BY DEF IInv, RegisterInv, Leading, OneSigning
  <1> QED
    BY <1>1, IInvHolds, PTL

\* Where the server broadcasts, a call that waited for a signing never makes a
\* transaction that settles besides that signing's.
THEOREM HandedOut == Spec => []HandedOutOnce
  <1>1. ASSUME IInv, mode # "push", NEW c \in Calls, NEW f \in joined[c]
        PROVE  ~({c, f} \subseteq signed)
    <2>1. f \in Calls
      BY <1>1 DEF IInv, TypeOK
    <2>2. CASE outcome[f] = "ended"
      BY <1>1, <2>1, <2>2 DEF IInv, SignedInv
    <2>3. CASE flight[c] = f
      BY <1>1, <2>3 DEF IInv, SignedInv, JoinedInv
    <2> QED
      BY <1>1, <2>2, <2>3 DEF IInv, JoinedInv
  <1>2. IInv => HandedOutOnce
    BY <1>1 DEF HandedOutOnce, JoinedCallsPayOnce, BothSettle
  <1> QED
    BY <1>2, IInvHolds, PTL

\* A credential that is returned was signed, whatever panics.
THEOREM CredentialsSigned == Spec => []CredentialIsSigned
  <1>1. IInv => CredentialIsSigned
    BY DEF IInv, TypeOK, SignedInv, CredentialIsSigned
  <1> QED
    BY <1>1, IInvHolds, PTL

\* Another call's context never fails a live call.
THEOREM NotCancelled == Spec => []LiveCallNotCancelled
  <1>1. IInv => LiveCallNotCancelled
    BY DEF IInv
  <1> QED
    BY <1>1, IInvHolds, PTL
=============================================================================
