------------------------------- MODULE MCDict -------------------------------
(***************************************************************************)
(* An instance of Dict for TLC: four keys of which two collide in every    *)
(* table the instance reaches, and one more pair in the smaller ones.      *)
(***************************************************************************)
EXTENDS Dict

CONSTANTS k1, k2, k3, k4

MCKeys == {k1, k2, k3, k4}

MCHash == [k \in MCKeys |->
              CASE k = k1 -> 0 [] k = k2 -> 8 [] k = k3 -> 1 [] k = k4 -> 3]

=============================================================================
