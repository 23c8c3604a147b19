---------------------------- MODULE EggSelection ----------------------------
(***************************************************************************)
(* The first screen of Egg Timer: ViewController.swift.                    *)
(*                                                                         *)
(* Six buttons, three for the size of the egg and three for how it is to   *)
(* be cooked.  A tap paints its button white at once, but the choice is    *)
(* stored, and the other buttons of the group painted yellow again, only   *)
(* in the completion handler of a 0.05 s animation.  Further taps, the     *)
(* "cook" button, and other completions can come in between, so the state  *)
(* a reader of the screen sees and the state the program uses may differ.  *)
(***************************************************************************)
CONSTANTS
    Sizes,   \* titles of the size buttons that are used
    Kinds,   \* titles of the preference buttons that are used
    None     \* nil: nothing has been chosen, nothing was pushed

ASSUME SelectionAssumption == None \notin Sizes \cup Kinds

VARIABLES
    pending,      \* buttons whose animation has not completed yet
    highlighted,  \* buttons with a white background
    eggSize,      \* the size stored by the last completion, or None
    preference,   \* the kind stored by the last completion, or None
    alert,        \* TRUE while "Select Your Egg Size..." is presented
    order         \* <<eggSize, eggKind>> given to the last pushed screen

vars == <<pending, highlighted, eggSize, preference, alert, order>>

\* A title may occur in both groups ("Medium"), so a button is tagged.
SizeButtons == {"size"} \X Sizes
PreferenceButtons == {"kind"} \X Kinds
Buttons == SizeButtons \cup PreferenceButtons

\* Mutant of Diselected: the rest of the group is not painted.
DiselectedNone(b) == {}

\* The buttons painted yellow once b is chosen: the rest of b's own group.
Diselected(b) == {o \in Buttons : o[1] = b[1] /\ o # b}

TypeOK ==
    /\ pending \in SUBSET Buttons
    /\ highlighted \in SUBSET Buttons
    /\ eggSize \in Sizes \cup {None}
    /\ preference \in Kinds \cup {None}
    /\ alert \in BOOLEAN
    /\ order \in (Sizes \X Kinds) \cup {None}

Init ==
    /\ pending = {}
    /\ highlighted = {}
    /\ eggSize = None
    /\ preference = None
    /\ alert = FALSE
    /\ order = None

-----------------------------------------------------------------------------
(* animateTap: the view that is being animated takes no touches, so a      *)
(* button is not tapped again before its own completion.                   *)
Tap(b) ==
    /\ ~alert
    /\ b \notin pending
    /\ pending' = pending \cup {b}
    /\ highlighted' = highlighted \cup {b}
    /\ UNCHANGED <<eggSize, preference, alert, order>>

\* Mutant of Complete: a size that was chosen is not replaced.
CompleteFirstOnly(b) ==
    /\ b \in pending
    /\ pending' = pending \ {b}
    /\ highlighted' = highlighted \ Diselected(b)
    /\ eggSize' = IF b \in SizeButtons /\ eggSize = None THEN b[2] ELSE eggSize
    /\ preference' = IF b \in PreferenceButtons THEN b[2] ELSE preference
    /\ UNCHANGED <<alert, order>>

(* The completion handler: createListOfDiselected, then diselectButton.    *)
(* UIKit orders completions by when their animations end; one that changes *)
(* nothing (the button was white already) ends at once, so any pending     *)
(* completion may be the next.                                             *)
Complete(b) ==
    /\ b \in pending
    /\ pending' = pending \ {b}
    /\ highlighted' = highlighted \ Diselected(b)
    /\ eggSize' = IF b \in SizeButtons THEN b[2] ELSE eggSize
    /\ preference' = IF b \in PreferenceButtons THEN b[2] ELSE preference
    /\ UNCHANGED <<alert, order>>

Chosen == eggSize # None /\ preference # None

(* startCookingTapped with something missing: the alert is presented.      *)
AskToSelect ==
    /\ ~alert
    /\ ~Chosen
    /\ alert' = TRUE
    /\ UNCHANGED <<pending, highlighted, eggSize, preference, order>>

(* The alert's only button: "Okay", without a handler.                     *)
Okay ==
    /\ alert
    /\ alert' = FALSE
    /\ UNCHANGED <<pending, highlighted, eggSize, preference, order>>

\* Mutant of StartCooking: size and kind are passed the wrong way round.
StartCookingSwapped ==
    /\ ~alert
    /\ Chosen
    /\ order' = <<preference, eggSize>>
    /\ UNCHANGED <<pending, highlighted, eggSize, preference, alert>>

(* startCookingTapped with both chosen: a CookEggsViewController is given  *)
(* the stored choices and pushed.                                          *)
StartCooking ==
    /\ ~alert
    /\ Chosen
    /\ order' = <<eggSize, preference>>
    /\ UNCHANGED <<pending, highlighted, eggSize, preference, alert>>

(* The process ends and is launched again: the choices are not persisted.  *)
Relaunch ==
    /\ pending' = {}
    /\ highlighted' = {}
    /\ eggSize' = None
    /\ preference' = None
    /\ alert' = FALSE
    /\ order' = None

Next ==
    \/ \E b \in Buttons : Tap(b) \/ Complete(b)
    \/ AskToSelect
    \/ Okay
    \/ StartCooking
    \/ Relaunch

(* An animation that began runs to its completion.  Nothing is assumed of  *)
(* the user.                                                               *)
Completes(b) == WF_vars(Complete(b))

Fairness == \A b \in Buttons : Completes(b)

Spec == Init /\ [][Next]_vars /\ Fairness

-----------------------------------------------------------------------------
Selected == ({"size"} \X {eggSize}) \cup ({"kind"} \X {preference})

(* A white button is the stored choice of its group, or its own tap has    *)
(* not completed: ViewController.swift:90-115 never leaves two buttons of  *)
(* a group white once the animations are over, in whatever order taps and  *)
(* completions come.                                                       *)
HighlightExplained == highlighted \subseteq pending \cup Selected

(* The order a pushed screen gets is what the user saw: when "cook" is     *)
(* tapped with no animation running, every white button is part of the     *)
(* order that is passed on (ViewController.swift:66-67 read what           *)
(* :101,:105 stored).                                                      *)
OrderIsWhatIsShown ==
    [][StartCooking /\ pending = {} =>
          highlighted \subseteq {<<"size", order'[1]>>, <<"kind", order'[2]>>}]_vars

(* Every tap takes effect: the tapped title becomes the stored choice,     *)
(* whatever other taps and completions interleave with it, unless the      *)
(* process ends first (:90-109).                                           *)
Forgotten == pending = {} /\ eggSize = None /\ preference = None

TakesEffect(b) == b \in pending ~> b \in Selected \/ Forgotten

TapTakesEffect == \A b \in Buttons : TakesEffect(b)

=============================================================================
