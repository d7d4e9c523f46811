---------------------------- MODULE MCClientSystem ----------------------------
(***************************************************************************)
(* The clients with targets 1, 2 and 0 of the limits 0..2; every position  *)
(* may be measured.                                                         *)
(***************************************************************************)
EXTENDS ClientSystem

MCLimits == 0..2
MCMeasurable == 0..2
==============================================================================
