------------------------ MODULE MC_PaymentTransport ------------------------
(* Instances of PaymentTransport for TLC.                                  *)
EXTENDS PaymentTransport, TLC

CONSTANTS k1, k2, k3
=============================================================================
