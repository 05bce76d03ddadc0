------------------------------- MODULE MCBoot -------------------------------
(* Boot for TLC; Boot.cfg gives the constants values.                        *)
EXTENDS Boot, TLC

CONSTANTS r1, r2, a1, a2, seeded, other, x1, x2, bad, blank, l1, l2

SeedX1 == [c \in Seeds |-> x1]
SeedL1 == [c \in Seeds |-> l1]
=============================================================================
