-------------------------- MODULE EggTimerAppProofs -------------------------
(***************************************************************************)
(* Proofs about EggTimerApp: that the application implements each of its   *)
(* two components, that what was proved of a component alone therefore     *)
(* holds of it inside the application, and that a cook screen keeps the    *)
(* order it was opened for.  They hold for any titles, screens and bounds. *)
(***************************************************************************)
EXTENDS EggTimerApp, TLAPS

\* The components again, with the lemmas proved about them.
SelP == INSTANCE EggSelectionProofs
CookP == INSTANCE CookEggsProofs WITH Orders <- Sizes \X Kinds

(* The state of the selection screen changes only as EggSelection allows.  *)
THEOREM AppImplementsSelection == Spec => ImplementsSelection
<1>1. Init => Sel!Init
  BY DEF Init
<1>2. [Next]_vars => [Sel!Next]_selectionVars
  <2> SUFFICES ASSUME [Next]_vars
               PROVE  Sel!Next \/ UNCHANGED selectionVars
    OBVIOUS
  <2>1. CASE SelectionTouched
    BY <2>1 DEF SelectionTouched, Sel!Next
  <2>2. ASSUME NEW b \in Sel!Buttons, AnimationCompletes(b)
        PROVE  Sel!Next
    BY <2>2 DEF AnimationCompletes, Sel!Next
  <2>3. ASSUME NEW s \in Screen, PushCookScreen(s)
        PROVE  Sel!Next
    BY <2>3 DEF PushCookScreen, Sel!Next
  <2>4. ASSUME NEW s \in Screen,
               CookScreenTouched(s) \/ TimerFires(s) \/ Deallocated(s)
        PROVE  UNCHANGED selectionVars
    BY <2>4 DEF CookScreenTouched, TimerFires, Deallocated
  <2>5. CASE Relaunch
    BY <2>5 DEF Relaunch, Sel!Next
  <2>6. CASE UNCHANGED vars
    BY <2>6 DEF vars
  <2> QED
    BY <2>1, <2>2, <2>3, <2>4, <2>5, <2>6 DEF Next
<1> QED
  BY <1>1, <1>2, PTL DEF Spec, ImplementsSelection

(* The two instances of EggSelection are the same specification.           *)
LEMMA SameSelection ==
    /\ Sel!Init <=> SelP!Init
    /\ [Sel!Next]_selectionVars <=> [SelP!Next]_(SelP!vars)
BY DEF Sel!Init, SelP!Init, Sel!Next, SelP!Next, SelP!vars, selectionVars,
       Sel!Buttons, SelP!Buttons, Sel!SizeButtons, SelP!SizeButtons,
       Sel!PreferenceButtons, SelP!PreferenceButtons, Sel!Tap, SelP!Tap,
       Sel!Complete, SelP!Complete, Sel!Diselected, SelP!Diselected,
       Sel!AskToSelect, SelP!AskToSelect, Sel!Okay, SelP!Okay, Sel!Chosen, SelP!Chosen,
       Sel!StartCooking, SelP!StartCooking, Sel!Relaunch, SelP!Relaunch

(* So the invariant of the screen by itself is one of the application.     *)
LEMMA AppSelectionInv == Spec => []SelP!SelectionInv
<1>1. Sel!Init => SelP!SelectionInv
  BY SameSelection, SelP!SelectionInit, AppAssumption
<1>2. SelP!SelectionInv /\ [Sel!Next]_selectionVars => SelP!SelectionInv'
  BY SameSelection, SelP!SelectionStep, AppAssumption
<1> QED
  BY <1>1, <1>2, AppImplementsSelection, PTL DEF ImplementsSelection

(* The order of the last push is a pair of titles.                         *)
LEMMA AppSelectionType == Spec => []Sel!TypeOK
<1>1. SelP!SelectionInv => Sel!TypeOK
  BY DEF SelP!SelectionInv, SelP!TypeOK, Sel!TypeOK, SelP!Buttons, Sel!Buttons,
         SelP!SizeButtons, Sel!SizeButtons, SelP!PreferenceButtons, Sel!PreferenceButtons
<1> QED
  BY <1>1, AppSelectionInv, PTL

(* Inside the application too, a button that is white without an animation *)
(* running is the stored choice of its group, although the completions now *)
(* interleave with a cook screen on top, its timers and its end.           *)
THEOREM AppHighlightExplained == Spec => []Sel!HighlightExplained
<1>1. SelP!SelectionInv => Sel!HighlightExplained
  BY DEF SelP!SelectionInv, SelP!HighlightExplained, Sel!HighlightExplained,
         SelP!Selected, Sel!Selected
<1> QED
  BY <1>1, AppSelectionInv, PTL

-----------------------------------------------------------------------------
(* The state of the cook screens changes only as CookEggs allows: the      *)
(* order that is pushed is one of the orders a screen can be opened for.   *)
THEOREM AppImplementsCooking == Spec => ImplementsCooking
<1>1. Init => Cook!Init
  BY DEF Init
<1>2. Sel!TypeOK /\ [Next]_vars => [Cook!Next]_cookVars
  <2> SUFFICES ASSUME Sel!TypeOK, [Next]_vars
               PROVE  Cook!Next \/ UNCHANGED cookVars
    OBVIOUS
  <2>1. CASE SelectionTouched
    BY <2>1 DEF SelectionTouched
  <2>2. ASSUME NEW b \in Sel!Buttons, AnimationCompletes(b)
        PROVE  UNCHANGED cookVars
    BY <2>2 DEF AnimationCompletes
  <2>3. ASSUME NEW s \in Screen, PushCookScreen(s)
        PROVE  Cook!Next
    <3>1. order' \in Sizes \X Kinds
      BY <2>3 DEF PushCookScreen, Sel!StartCooking, Sel!Chosen, Sel!TypeOK
    <3> QED
      BY <2>3, <3>1 DEF PushCookScreen, Cook!Next
  <2>4. ASSUME NEW s \in Screen,
               CookScreenTouched(s) \/ TimerFires(s) \/ Deallocated(s)
        PROVE  Cook!Next
    BY <2>4 DEF CookScreenTouched, TimerFires, Deallocated, Cook!Next
  <2>5. CASE Relaunch
    BY <2>5 DEF Relaunch, Cook!Next
  <2>6. CASE UNCHANGED vars
    BY <2>6 DEF vars
  <2> QED
    BY <2>1, <2>2, <2>3, <2>4, <2>5, <2>6 DEF Next
<1> QED
  BY <1>1, <1>2, AppSelectionType, PTL DEF Spec, ImplementsCooking

-----------------------------------------------------------------------------
(* The two instances of CookEggs are the same specification.               *)
LEMMA SameCooking ==
    /\ Cook!Init <=> CookP!Init
    /\ [Cook!Next]_cookVars <=> [CookP!Next]_(CookP!vars)
BY DEF Cook!Init, CookP!Init, Cook!screenVars, CookP!screenVars, Cook!TimerId,
       CookP!TimerId, Cook!Steps, CookP!Steps, Cook!BaseTime, CookP!BaseTime,
       Cook!TimeForSize, CookP!TimeForSize, Cook!timeForEggs, CookP!timeForEggs,
       Cook!StartTime, CookP!StartTime, Cook!ViewDidLoad, CookP!ViewDidLoad,
       Cook!InFront, CookP!InFront, Cook!SaveAsPreferred, CookP!SaveAsPreferred,
       Cook!SaveYes, CookP!SaveYes, Cook!SaveNo, CookP!SaveNo, Cook!SetTime,
       CookP!SetTime, Cook!MinusTapped, CookP!MinusTapped, Cook!PlusTapped,
       CookP!PlusTapped, Cook!WaterIsBoilingTapped, CookP!WaterIsBoilingTapped,
       Cook!EggsInPotTapped, CookP!EggsInPotTapped, Cook!StartTimerTapped,
       CookP!StartTimerTapped, Cook!SecondPassed, CookP!SecondPassed, Cook!Back,
       CookP!Back, Cook!Deallocate, CookP!Deallocate, Cook!Relaunch, CookP!Relaunch,
       Cook!Tapped, CookP!Tapped, Cook!Tick, CookP!Tick, Cook!Next, CookP!Next,
       CookP!vars, cookVars

LEMMA AppCookInv == Spec => []CookP!CookInv
<1>1. Cook!Init => CookP!CookInv
  BY SameCooking, CookP!CookInit, AppAssumption
<1>2. CookP!CookInv /\ [Cook!Next]_cookVars => CookP!CookInv'
  BY SameCooking, CookP!CookStep, AppAssumption
<1> QED
  BY <1>1, <1>2, AppImplementsCooking, PTL DEF ImplementsCooking

(* The invariants of the cook screens hold inside the application: the     *)
(* label is the time left, the quoted time drifts from it only by what a   *)
(* started timer counts, and a timer runs only where the eggs went in.     *)
CookingStaysSound ==
    /\ Cook!LabelShowsTime
    /\ Cook!QuoteDrift
    /\ Cook!PreparedBeforeTimed
    /\ Cook!ScreensAreKept

THEOREM AppCookingStaysSound == Spec => []CookingStaysSound
<1>1. CookP!CookInv => CookingStaysSound
  BY DEF CookP!CookInv, CookingStaysSound, CookP!LabelShowsTime, Cook!LabelShowsTime,
         CookP!QuoteDrift, Cook!QuoteDrift, CookP!PreparedBeforeTimed,
         Cook!PreparedBeforeTimed, CookP!ScreensAreKept, Cook!ScreensAreKept
<1> QED
  BY <1>1, AppCookInv, PTL

(* No step of the application, the selection screen's included, cuts a     *)
(* countdown short: a timer stops because its time is up or with the       *)
(* process.                                                                *)
THEOREM AppStopsWhenTimeIsUp == Spec => Cook!StopsWhenTimeIsUp
<1> DEFINE TimeIsUp ==
      \A s \in Screen :
         live'[s] # live[s] =>
            \/ live[s] \subseteq live'[s]
            \/ cookTime[s] <= 0
            \/ Cook!Relaunch
<1>1. CookP!CookInv /\ [Cook!Next]_cookVars => [TimeIsUp]_(Cook!vars)
  <2> SUFFICES ASSUME CookP!CookInv, [Cook!Next]_cookVars
               PROVE  TimeIsUp \/ UNCHANGED Cook!vars
    OBVIOUS
  <2>1. [CookP!TimeIsUpStops]_(CookP!vars)
    BY SameCooking, CookP!StopsStep, AppAssumption
  <2>2. CookP!Relaunch => Cook!Relaunch
    BY DEF CookP!Relaunch, Cook!Relaunch
  <2>3. UNCHANGED CookP!vars => UNCHANGED Cook!vars
    BY DEF CookP!vars, CookP!screenVars, Cook!vars, Cook!screenVars
  <2> QED
    BY <2>1, <2>2, <2>3 DEF CookP!TimeIsUpStops
<1> QED
  BY <1>1, AppCookInv, AppImplementsCooking, PTL
     DEF ImplementsCooking, Cook!StopsWhenTimeIsUp

-----------------------------------------------------------------------------
(* The screen on top cooks the order that was pushed last.  That a screen  *)
(* on top keeps its order needs to know that keys are one per screen.      *)
OrderInv ==
    /\ CooksTheOrder
    /\ key \in [Screen -> (Sizes \X Kinds) \cup {None}]
    /\ top \in Screen \cup {None}

LEMMA OrderInvariant == Spec => []OrderInv
<1>1. Init => OrderInv
  BY DEF Init, Cook!Init, OrderInv, CooksTheOrder
<1>2. Sel!TypeOK /\ OrderInv /\ [Next]_vars => OrderInv'
  <2> SUFFICES ASSUME Sel!TypeOK, OrderInv, [Next]_vars
               PROVE  OrderInv'
    OBVIOUS
  <2> USE DEF OrderInv, CooksTheOrder
  <2>1. CASE SelectionTouched
    BY <2>1 DEF SelectionTouched, cookVars, Sel!Tap, Sel!AskToSelect, Sel!Okay
  <2>2. ASSUME NEW b \in Sel!Buttons, AnimationCompletes(b)
        PROVE  OrderInv'
    BY <2>2 DEF AnimationCompletes, cookVars, Sel!Complete
  <2>3. ASSUME NEW s \in Screen, PushCookScreen(s)
        PROVE  OrderInv'
    <3>1. order' \in Sizes \X Kinds
      BY <2>3 DEF PushCookScreen, Sel!StartCooking, Sel!Chosen, Sel!TypeOK
    <3>2. top' = s /\ key' = [key EXCEPT ![s] = order']
      BY <2>3 DEF PushCookScreen, Cook!ViewDidLoad
    <3> QED
      BY <3>1, <3>2
  <2>4. ASSUME NEW s \in Screen, CookScreenTouched(s)
        PROVE  OrderInv'
    <3>1. order' = order
      BY <2>4 DEF CookScreenTouched, selectionVars
    <3>2. key' = key /\ top' \in {top, None}
      BY <2>4 DEF CookScreenTouched, Cook!Tapped, Cook!Back, Cook!SaveAsPreferred,
                  Cook!SaveYes, Cook!SaveNo, Cook!MinusTapped, Cook!PlusTapped,
                  Cook!WaterIsBoilingTapped, Cook!EggsInPotTapped,
                  Cook!StartTimerTapped, Cook!screenVars
    <3> QED
      BY <3>1, <3>2
  <2>5. ASSUME NEW s \in Screen, TimerFires(s)
        PROVE  OrderInv'
    BY <2>5 DEF TimerFires, Cook!Tick, Cook!SecondPassed, selectionVars
  <2>6. ASSUME NEW s \in Screen, Deallocated(s)
        PROVE  OrderInv'
    BY <2>6 DEF Deallocated, Cook!Deallocate, selectionVars
  <2>7. CASE Relaunch
    BY <2>7 DEF Relaunch, Cook!Relaunch
  <2>8. CASE UNCHANGED vars
    BY <2>8 DEF vars, selectionVars, cookVars
  <2> QED
    BY <2>1, <2>2, <2>3, <2>4, <2>5, <2>6, <2>7, <2>8 DEF Next
<1> QED
  BY <1>1, <1>2, AppSelectionType, PTL DEF Spec

(* The screen on top cooks the order it was pushed for.                    *)
THEOREM AppCooksTheOrder == Spec => []CooksTheOrder
<1>1. OrderInv => CooksTheOrder
  BY DEF OrderInv
<1> QED
  BY <1>1, OrderInvariant, PTL

(* The preferences are one entry for each order, changed by "Yes" only.    *)
PrefsInv == prefs = [o \in Sizes \X Kinds |-> prefs[o]]

LEMMA OnlyYesSaves ==
    ASSUME [Next]_vars
    PROVE  prefs' = prefs \/ \E s \in Screen : Cook!SaveYes(s)
BY DEF Next, SelectionTouched, AnimationCompletes, PushCookScreen, CookScreenTouched,
       TimerFires, Deallocated, Relaunch, vars, cookVars, Cook!Tapped, Cook!Tick,
       Cook!ViewDidLoad, Cook!SaveAsPreferred, Cook!SaveNo, Cook!MinusTapped,
       Cook!PlusTapped, Cook!WaterIsBoilingTapped, Cook!EggsInPotTapped,
       Cook!StartTimerTapped, Cook!SecondPassed, Cook!Back, Cook!Deallocate,
       Cook!Relaunch

(* What is agreed to is stored for the order the user opened and no other, *)
(* whatever late completions do to the selection beneath the screen.       *)
THEOREM AppSavesForTheOrder == Spec => SavesForTheOrder
<1> DEFINE Saves == \A o \in Sizes \X Kinds : prefs'[o] # prefs[o] => o = order
<1>1. Init => PrefsInv
  BY DEF Init, Cook!Init, PrefsInv
<1>2. PrefsInv /\ [Next]_vars => PrefsInv'
  BY OnlyYesSaves DEF PrefsInv, Cook!SaveYes
<1>3. OrderInv /\ PrefsInv /\ [Next]_vars => [Saves]_vars
  <2> SUFFICES ASSUME OrderInv, PrefsInv, Next PROVE Saves
    OBVIOUS
  <2>1. ASSUME NEW s \in Screen, Cook!SaveYes(s) PROVE Saves
    <3>1. prefs' = [prefs EXCEPT ![key[s]] = cookTime[s]]
      BY <2>1 DEF Cook!SaveYes
    <3>2. top = s
      BY <2>1 DEF Cook!SaveYes
    <3>3. s # None
      BY AppAssumption
    <3> QED
      BY <3>1, <3>2, <3>3 DEF PrefsInv, OrderInv, CooksTheOrder
  <2> QED
    BY <2>1, OnlyYesSaves
<1> QED
  BY <1>1, <1>2, <1>3, OrderInvariant, PTL DEF Spec, SavesForTheOrder

(* From the tap to the preference: what "Yes" stores is the time on the    *)
(* label of the screen on top, and it is stored for the order that was     *)
(* current when that screen was opened.                                    *)
SavesWhatTheLabelShows ==
    [][\A o \in Sizes \X Kinds :
          prefs'[o] # prefs[o] => o = order /\ prefs'[o] = label[top]]_vars

THEOREM AppSavesWhatTheLabelShows == Spec => SavesWhatTheLabelShows
<1> DEFINE Stores ==
      \A o \in Sizes \X Kinds :
         prefs'[o] # prefs[o] => o = order /\ prefs'[o] = label[top]
<1>1. OrderInv /\ CookP!CookInv /\ [Cook!Next]_cookVars /\ [Next]_vars => [Stores]_vars
  <2> SUFFICES ASSUME OrderInv, CookP!CookInv, [Cook!Next]_cookVars, ~UNCHANGED cookVars
               PROVE  Stores
    BY DEF cookVars
  <2>1. [CookP!TopScreenSaves]_(CookP!vars)
    BY SameCooking, CookP!SavesStep, AppAssumption
  <2>2. CookP!TopScreenSaves
    BY <2>1 DEF CookP!vars, CookP!screenVars, cookVars
  <2> QED
    BY <2>2 DEF CookP!TopScreenSaves, OrderInv, CooksTheOrder
<1> QED
  BY <1>1, OrderInvariant, AppCookInv, AppImplementsCooking, PTL
     DEF Spec, ImplementsCooking, SavesWhatTheLabelShows

(* From the button to the countdown: a screen that is opened while no      *)
(* animation runs cooks exactly what the white buttons show.               *)
OpensWhatIsShown ==
    [][\A s \in Screen :
          PushCookScreen(s) /\ pending = {} =>
             highlighted \subseteq {<<"size", key'[s][1]>>, <<"kind", key'[s][2]>>}]_vars

THEOREM AppOpensWhatIsShown == Spec => OpensWhatIsShown
<1> DEFINE Opens ==
      \A s \in Screen :
         PushCookScreen(s) /\ pending = {} =>
            highlighted \subseteq {<<"size", key'[s][1]>>, <<"kind", key'[s][2]>>}
<1>1. Sel!HighlightExplained /\ CookP!CookInv => Opens
  <2> SUFFICES ASSUME Sel!HighlightExplained, CookP!CookInv,
                      NEW s \in Screen, PushCookScreen(s), pending = {}
               PROVE  highlighted \subseteq {<<"size", key'[s][1]>>, <<"kind", key'[s][2]>>}
    OBVIOUS
  <2>1. order' = <<eggSize, preference>>
    BY DEF PushCookScreen, Sel!StartCooking
  <2>2. key' = [key EXCEPT ![s] = order']
    BY DEF PushCookScreen, Cook!ViewDidLoad
  <2>3. s \in DOMAIN key
    BY DEF CookP!CookInv, CookP!TypeOK
  <2>4. key'[s] = <<eggSize, preference>>
    BY <2>1, <2>2, <2>3
  <2> QED
    BY <2>4 DEF Sel!HighlightExplained, Sel!Selected
<1> QED
  BY <1>1, AppHighlightExplained, AppCookInv, PTL DEF Spec, OpensWhatIsShown

=============================================================================
