----------------------------- MODULE MCCookEggs -----------------------------
(***************************************************************************)
(* Instances of CookEggs for TLC.  Times are scaled: half a minute is one  *)
(* second, so the recommendations of the orders below are 6 and 9 seconds. *)
(***************************************************************************)
EXTENDS CookEggs, Sequences

OneOrder == {<<"Small", "Soft">>}

BelowZero == -1    \* a .cfg file has no negative numbers

Titles == {"Large", "Medium", "Small"} \X {"Soft", "Medium", "Hard"}

(* The UserDefaults key eggSize + eggKind (CookEggsViewController.swift:31) *)
(* tells the nine orders apart, which lets prefs be indexed by the order.   *)
ASSUME KeysDiffer ==
    \A o, p \in Titles : o[1] \o o[2] = p[1] \o p[2] => o = p

=============================================================================
