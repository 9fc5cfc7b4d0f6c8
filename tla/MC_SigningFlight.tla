-------------------------- MODULE MC_SigningFlight --------------------------
(* Instances of SigningFlight for TLC.                                     *)
EXTENDS SigningFlight, TLC

CONSTANTS a, b, c
=============================================================================
