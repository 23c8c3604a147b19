---------------------------- MODULE EggTimerApp -----------------------------
(***************************************************************************)
(* Egg Timer as a whole: the selection screen at the root of a navigation  *)
(* stack, and at most one cook screen pushed on it.  The two share the     *)
(* main run loop, the touch screen (only the top of the stack is touched)  *)
(* and the process; the selection hands the stored order to the screen it  *)
(* pushes.  Each component is the module of its own, instantiated here.    *)
(***************************************************************************)
EXTENDS Integers

CONSTANTS Sizes, Kinds, Screen, HalfMinute, MinTime, MaxTime, MaxTimers, None

VARIABLES
    pending, highlighted, eggSize, preference, alert, order,       \* selection
    top, key, cookTime, label, enabled, timer, live, quote, prefs  \* cooking

Sel == INSTANCE EggSelection
Cook == INSTANCE CookEggs WITH Orders <- Sizes \X Kinds

\* What each of the two assumes of its constants.
ASSUME AppAssumption == Sel!SelectionAssumption /\ Cook!CookAssumption

selectionVars == <<pending, highlighted, eggSize, preference, alert, order>>
cookVars == <<top, key, cookTime, label, enabled, timer, live, quote, prefs>>
vars == <<selectionVars, cookVars>>

Init == Sel!Init /\ Cook!Init

-----------------------------------------------------------------------------
(* The selection screen is touched only while nothing is pushed on it.     *)
SelectionTouched ==
    /\ top = None
    /\ \/ \E b \in Sel!Buttons : Sel!Tap(b)
       \/ Sel!AskToSelect
       \/ Sel!Okay
    /\ UNCHANGED cookVars

(* Its animations complete whether or not it is still on top.              *)
AnimationCompletes(b) ==
    /\ Sel!Complete(b)
    /\ UNCHANGED cookVars

\* Mutant of PushCookScreen: the size is read from some button.
PushAnySize(s) ==
    /\ Sel!StartCooking
    /\ \E size \in Sizes : Cook!ViewDidLoad(s, <<size, preference>>)

(* startCookingTapped pushes a screen, which loads with what it was given. *)
PushCookScreen(s) ==
    /\ Sel!StartCooking
    /\ Cook!ViewDidLoad(s, order')

\* Mutants of CookScreenTouched: going back forgets the size that is still
\* shown as chosen; going back stops the timers.
BackForgets(s) ==
    /\ Cook!Back(s)
    /\ eggSize' = None
    /\ UNCHANGED <<pending, highlighted, preference, alert, order>>

BackStopsTimers(s) ==
    /\ \/ Cook!Tapped(s)
       \/ /\ Cook!InFront(s)
          /\ top' = None
          /\ live' = [live EXCEPT ![s] = {}]
          /\ UNCHANGED <<key, cookTime, label, enabled, timer, quote, prefs>>
    /\ UNCHANGED selectionVars

CookScreenTouched(s) ==
    /\ Cook!Tapped(s) \/ Cook!Back(s)
    /\ UNCHANGED selectionVars

TimerFires(s) ==
    /\ Cook!Tick(s)
    /\ UNCHANGED selectionVars

Deallocated(s) ==
    /\ Cook!Deallocate(s)
    /\ UNCHANGED selectionVars

Relaunch == Sel!Relaunch /\ Cook!Relaunch

Next ==
    \/ SelectionTouched
    \/ \E b \in Sel!Buttons : AnimationCompletes(b)
    \/ \E s \in Screen :
          \/ PushCookScreen(s)
          \/ CookScreenTouched(s)
          \/ TimerFires(s)
          \/ Deallocated(s)
    \/ Relaunch

Spec == Init /\ [][Next]_vars

-----------------------------------------------------------------------------
(* The screen on top cooks the order that was current when it was pushed,  *)
(* although animations that were still running then go on to change the    *)
(* selection beneath it (ViewController.swift:66-69, :93-105).             *)
CooksTheOrder == top # None => key[top] = order

(* A time that was agreed to is stored for the order the user opened, and  *)
(* for no other: what late completions do to the selection beneath the     *)
(* screen does not redirect it (CookEggsViewController.swift:31,:116).     *)
SavesForTheOrder ==
    [][\A o \in Sizes \X Kinds : prefs'[o] # prefs[o] => o = order]_vars

(* The application implements each of its two components: a step of the    *)
(* whole is a step of the component, or leaves it as it was.               *)
ImplementsSelection == Sel!Init /\ [][Sel!Next]_selectionVars
ImplementsCooking == Cook!Init /\ [][Cook!Next]_cookVars

=============================================================================
