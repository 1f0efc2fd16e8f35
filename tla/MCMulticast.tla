---------------------------- MODULE MCMulticast ----------------------------
(* A subscriber on the owner's node and two on another.                    *)
EXTENDS Multicast, TLC

CONSTANTS o, r, a, b, c

MCHarbor == (a :> o) @@ (b :> r) @@ (c :> r)
MCSymmetry == Permutations({b, c})
=============================================================================
