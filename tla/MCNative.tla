------------------------------ MODULE MCNative ------------------------------
(* An instance of NativeSessions for TLC: workers a and b have a record     *)
(* each in one job and may be exchanged; c works for another.               *)
EXTENDS NativeSessions, TLC
CONSTANTS a, b, c
MCJobOf == [w \in Workers |-> IF w = c THEN "k" ELSE "j"]
MCSymmetry == Permutations({a, b})
===============================================================================
