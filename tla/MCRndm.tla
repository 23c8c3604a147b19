------------------------------- MODULE MCRndm -------------------------------
(* Instances of Rndm for TLC: f1 can be added here, s1 only elsewhere.     *)
EXTENDS Rndm

CONSTANTS f1, s1

TwoCategories == (f1 :> "Funny") @@ (s1 :> "Serious")

Symmetry == Permutations(Composer)

=============================================================================
