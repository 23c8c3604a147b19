--------------------------- MODULE MCThoughtFeed ----------------------------
(* Instances of ThoughtFeed for TLC: two thoughts of different categories. *)
EXTENDS ThoughtFeed

CONSTANTS f1, s1

TwoCategories == (f1 :> "Funny") @@ (s1 :> "Serious")

=============================================================================
