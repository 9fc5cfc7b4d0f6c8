----------------------------- MODULE ReceiptWriter -----------------------------
(***************************************************************************)
(* The response of a paid request: pkg/server/middleware.go wraps the      *)
(* ResponseWriter of the protected handler, and the Gin, Echo and Fiber    *)
(* adapters do the like, so that a Payment-Receipt goes out with a         *)
(* successful response only.  The handler calls the writer as it likes.    *)
(***************************************************************************)
EXTENDS Naturals

CONSTANTS
  Adapters,   \* of {"http", "echo", "gin", "fiber"}
  Statuses    \* statuses a handler sets

ASSUME AdaptersAssumption == Adapters \subseteq {"http", "echo", "gin", "fiber"}
ASSUME StatusesAssumption == Statuses \subseteq 102 .. 599

\* adapter: the framework.  receipt: it can be formatted.  pending: the status
\* set but not committed (Gin, Fiber).  status: the one committed, or 0.
\* header: whose Payment-Receipt is in the header map.  informed, sent: whose
\* went out with an informational and with the final response.  early: the
\* framework took an informational status for the final one.
VARIABLE writer

NoWriter ==
  [adapter |-> "none", receipt |-> FALSE, pending |-> 200, status |-> 0,
   header |-> "none", informed |-> "none", sent |-> "none", early |-> FALSE,
   hijacked |-> FALSE, returned |-> TRUE]

NewWriter(adapter, receipt) ==
  [NoWriter EXCEPT !.adapter = adapter, !.receipt = receipt, !.returned = FALSE]

Success(status) == status \in 200 .. 299
Informational(status) == status \in 100 .. 199 /\ status # 101

\* The adapter sets a status at once, or keeps it until something is written.
Eager == writer.adapter \in {"http", "echo"}
Gin == writer.adapter = "gin"
Open == writer.status = 0 /\ ~writer.hijacked /\ ~writer.returned

-----------------------------------------------------------------------------
\* setPaymentReceiptForStatus
ReceiptFor(status) == IF Success(status) /\ writer.receipt THEN "ours" ELSE "none"

\* writer after the final status is committed.  A framework that took another
\* for it drops this one, and net/http makes it 200.
Committed(status) ==
  [writer EXCEPT !.status = IF writer.early THEN 200 ELSE status,
                 !.header = ReceiptFor(status), !.sent = ReceiptFor(status)]

HeaderDeleted == "none"

\* writer after an informational response.
Informed(early) ==
  [writer EXCEPT !.header = HeaderDeleted, !.informed = HeaderDeleted, !.early = early]

\* The status is left to net/http, which sends 200 and the header map as it is.
Implicit(w) == [w EXCEPT !.status = 200, !.sent = w.header]

\* Gin commits the pending status once, even if it is an informational one.
Early == writer.early \/ (Gin /\ Informational(writer.pending))
EarlyEnd == Implicit(IF writer.early THEN writer ELSE Informed(TRUE))

-----------------------------------------------------------------------------
\* The handler puts a Payment-Receipt of its own in the header map.
SetOwnReceipt ==
  /\ Open
  /\ writer' = [writer EXCEPT !.header = "handler"]

\* WriteHeader.  An informational response goes out and leaves the final one
\* open (though Echo may take it for the final one); a status after the final
\* one is ignored.
WriteHeader(status) ==
  /\ Open
  /\ \/ /\ Eager /\ Informational(status)
        /\ \E early \in {writer.early, writer.adapter = "echo"} : writer' = Informed(early)
     \/ Eager /\ ~Informational(status) /\ writer' = Committed(status)
     \/ ~Eager /\ ~writer.early /\ writer' = [writer EXCEPT !.pending = status]

\* Gin's WriteHeaderNow, which writes no body.
WriteHeaderNow ==
  /\ Open /\ Gin /\ ~writer.early
  /\ writer' = IF Early THEN Informed(TRUE) ELSE Committed(writer.pending)

\* Write, WriteString or Flush; Fiber buffers the body.
Write ==
  /\ Open
  /\ writer.adapter # "fiber"
  /\ writer' = IF Gin THEN IF Early THEN EarlyEnd ELSE Committed(writer.pending)
               ELSE Committed(200)

\* The handler takes over the connection.
Hijack ==
  /\ Open
  /\ writer.adapter # "fiber"
  /\ writer' = [writer EXCEPT !.hijacked = TRUE]

ReturnUncommitted(status) == writer   \* mutant: an empty response is not committed
CommittedAtReturn(status) == Committed(status)

\* The handler returns; an error of its own is answered by the framework, unless
\* it has taken a status for the final one.
Return(failed) ==
  /\ ~writer.returned
  /\ failed => writer.adapter \in {"echo", "fiber"}
  /\ LET last == IF ~Open THEN writer
                 ELSE IF Early /\ (Gin \/ failed) THEN EarlyEnd
                 ELSE CommittedAtReturn(IF failed THEN 500 ELSE writer.pending)
     IN  writer' = [last EXCEPT !.returned = TRUE]

HandlerStep ==
  \/ SetOwnReceipt \/ WriteHeaderNow \/ Write \/ Hijack
  \/ \E s \in Statuses : WriteHeader(s)
  \/ \E failed \in BOOLEAN : Return(failed)
-----------------------------------------------------------------------------
\* A receipt goes out with a 2xx response only, never with an error, a redirect
\* or an informational response, always when it can be formatted, and never one
\* that the handler made up, whatever the handler writes and in whichever order.
\* One case is left out, of Gin and Echo only (early): a handler that commits an
\* informational status leaves the final one to net/http, and the 200 that
\* goes out may lack the receipt or carry the handler's own.
ReceiptWithSuccess ==
  /\ writer.informed = "none"
  /\ writer.sent = "ours" => Success(writer.status)
  /\ writer.early => writer.adapter \in {"gin", "echo"}
  /\ ~writer.early => writer.sent # "handler"
  /\ writer.returned /\ writer.adapter # "none" /\ ~writer.hijacked =>
       /\ writer.status # 0
       /\ Success(writer.status) /\ writer.receipt /\ ~writer.early => writer.sent = "ours"
===============================================================================
