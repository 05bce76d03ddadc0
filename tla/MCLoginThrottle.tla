--------------------------- MODULE MCLoginThrottle ---------------------------
(* LoginThrottle for TLC; LoginThrottle.cfg gives the constants values.      *)
EXTENDS LoginThrottle, TLC
=============================================================================
