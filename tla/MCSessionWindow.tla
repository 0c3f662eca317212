---------------------------- MODULE MCSessionWindow ----------------------------
(* SessionWindow with model values for its devices.                        *)
EXTENDS SessionWindow, TLC

CONSTANTS d1, d2

MCDevices == {d1, d2}

Symmetry == Permutations(MCDevices)
=============================================================================
