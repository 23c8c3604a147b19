------------------------- MODULE EggSelectionProofs -------------------------
(***************************************************************************)
(* Proofs about EggSelection, for any sets of titles.                      *)
(***************************************************************************)
EXTENDS EggSelection, TLAPS

(* Every button belongs to exactly one of the two groups, and is made of   *)
(* the tag of its group and one of the group's titles.                     *)
LEMMA ButtonParts ==
    ASSUME NEW b \in Buttons
    PROVE  \/ /\ b \in SizeButtons
              /\ b \notin PreferenceButtons
              /\ b[1] = "size" /\ b[2] \in Sizes /\ b = <<"size", b[2]>>
           \/ /\ b \in PreferenceButtons
              /\ b \notin SizeButtons
              /\ b[1] = "kind" /\ b[2] \in Kinds /\ b = <<"kind", b[2]>>
<1>1. b \in SizeButtons \/ b \in PreferenceButtons
  BY DEF Buttons
<1>2. "size" # "kind"
  OBVIOUS
<1>3. ASSUME b \in SizeButtons
      PROVE  b[1] = "size" /\ b[2] \in Sizes /\ b = <<"size", b[2]>>
  BY <1>3 DEF SizeButtons
<1>4. ASSUME b \in PreferenceButtons
      PROVE  b[1] = "kind" /\ b[2] \in Kinds /\ b = <<"kind", b[2]>>
  BY <1>4 DEF PreferenceButtons
<1> QED
  BY <1>1, <1>2, <1>3, <1>4

-----------------------------------------------------------------------------
LEMMA SelectionTypeStep == TypeOK /\ [Next]_vars => TypeOK'
<1> SUFFICES ASSUME TypeOK, [Next]_vars
             PROVE  TypeOK'
  OBVIOUS
<1> USE DEF TypeOK
<1>1. ASSUME NEW b \in Buttons, Tap(b)
      PROVE  TypeOK'
  BY <1>1 DEF Tap
<1>2. ASSUME NEW b \in Buttons, Complete(b)
      PROVE  TypeOK'
  <2>1. pending' \in SUBSET Buttons /\ highlighted' \in SUBSET Buttons
    BY <1>2 DEF Complete
  <2>2. eggSize' \in Sizes \cup {None} /\ preference' \in Kinds \cup {None}
    BY <1>2, ButtonParts DEF Complete
  <2> QED
    BY <1>2, <2>1, <2>2 DEF Complete
<1>3. CASE AskToSelect
  BY <1>3 DEF AskToSelect
<1>4. CASE Okay
  BY <1>4 DEF Okay
<1>5. CASE StartCooking
  <2>1. order' = <<eggSize, preference>> /\ eggSize \in Sizes /\ preference \in Kinds
    BY <1>5 DEF StartCooking, Chosen
  <2>2. order' \in Sizes \X Kinds
    BY <2>1
  <2> QED
    BY <1>5, <2>2 DEF StartCooking
<1>6. CASE Relaunch
  BY <1>6 DEF Relaunch
<1>7. CASE UNCHANGED vars
  BY <1>7 DEF vars
<1> QED
  BY <1>1, <1>2, <1>3, <1>4, <1>5, <1>6, <1>7 DEF Next

(* Every variable of the selection screen keeps its type.                  *)
THEOREM SelectionTypeCorrect == Spec => []TypeOK
<1>1. Init => TypeOK
  BY DEF Init, TypeOK
<1> QED
  BY <1>1, SelectionTypeStep, PTL DEF Spec

(* A completion leaves no button of the tapped one's group white but the   *)
(* tapped one and those whose own completion is still to come.             *)
LEMMA CompletionExplains ==
    ASSUME TypeOK, HighlightExplained,
           NEW b \in Buttons, Complete(b)
    PROVE  HighlightExplained'
<1> SUFFICES ASSUME NEW h \in highlighted'
             PROVE  h \in pending' \/ h \in Selected'
  BY DEF HighlightExplained
<1>1. h \in highlighted /\ h \in Buttons /\ h \notin Diselected(b)
  BY DEF Complete, TypeOK
<1>2. h = b \/ h[1] # b[1]
  BY <1>1 DEF Diselected
<1>3. CASE h = b
  <2>1. CASE b \in SizeButtons
    BY <2>1, <1>3, ButtonParts DEF Complete, Selected
  <2>2. CASE b \in PreferenceButtons
    BY <2>2, <1>3, ButtonParts DEF Complete, Selected
  <2> QED
    BY <2>1, <2>2 DEF Buttons
<1>4. CASE h # b
  <2>1. h \in pending \/ h \in Selected
    BY <1>1 DEF HighlightExplained
  <2>2. h \in pending => h \in pending'
    BY <1>4 DEF Complete
  <2>3. ASSUME h \in Selected
        PROVE  h \in Selected'
    <3>1. CASE b \in SizeButtons
      <4>1. b[1] = "size" /\ preference' = preference
        BY <3>1, ButtonParts DEF Complete
      <4>2. h \in {"kind"} \X {preference}
        BY <2>3, <4>1, <1>2, <1>4 DEF Selected
      <4> QED
        BY <4>1, <4>2 DEF Selected
    <3>2. CASE b \in PreferenceButtons
      <4>1. b[1] = "kind" /\ eggSize' = eggSize
        BY <3>2, ButtonParts DEF Complete
      <4>2. h \in {"size"} \X {eggSize}
        BY <2>3, <4>1, <1>2, <1>4 DEF Selected
      <4> QED
        BY <4>1, <4>2 DEF Selected
    <3> QED
      BY <3>1, <3>2 DEF Buttons
  <2> QED
    BY <2>1, <2>2, <2>3
<1> QED
  BY <1>3, <1>4

LEMMA HighlightStep == TypeOK /\ HighlightExplained /\ [Next]_vars => HighlightExplained'
<1> SUFFICES ASSUME TypeOK, HighlightExplained, [Next]_vars
             PROVE  HighlightExplained'
  OBVIOUS
<1>1. ASSUME NEW b \in Buttons, Tap(b)
      PROVE  HighlightExplained'
  BY <1>1 DEF Tap, HighlightExplained, Selected
<1>2. ASSUME NEW b \in Buttons, Complete(b)
      PROVE  HighlightExplained'
  BY <1>2, CompletionExplains
<1>3. CASE AskToSelect \/ Okay \/ StartCooking
  BY <1>3 DEF AskToSelect, Okay, StartCooking, HighlightExplained, Selected
<1>4. CASE Relaunch
  BY <1>4 DEF Relaunch, HighlightExplained
<1>5. CASE UNCHANGED vars
  BY <1>5 DEF vars, HighlightExplained, Selected
<1> QED
  BY <1>1, <1>2, <1>3, <1>4, <1>5 DEF Next

(* What holds in every state of the screen, and what every step keeps.     *)
SelectionInv == TypeOK /\ HighlightExplained

LEMMA SelectionInit == Init => SelectionInv
BY DEF Init, TypeOK, HighlightExplained, SelectionInv

LEMMA SelectionStep == SelectionInv /\ [Next]_vars => SelectionInv'
BY SelectionTypeStep, HighlightStep DEF SelectionInv

THEOREM SelectionInvariant == Spec => []SelectionInv
BY SelectionInit, SelectionStep, PTL DEF Spec

(* Once no animation runs, at most one button of a group is white, and it  *)
(* is the stored choice: for any titles, any number of overlapping taps    *)
(* and any order of their completions.                                     *)
THEOREM SelectionHighlightExplained == Spec => []HighlightExplained
<1>1. SelectionInv => HighlightExplained
  BY DEF SelectionInv
<1> QED
  BY <1>1, SelectionInvariant, PTL

(* What "cook" passes on when no animation is running.                     *)
ShownIsOrdered ==
    StartCooking /\ pending = {} =>
       highlighted \subseteq {<<"size", order'[1]>>, <<"kind", order'[2]>>}

LEMMA ShownStep == SelectionInv /\ [Next]_vars => [ShownIsOrdered]_vars
<1> SUFFICES ASSUME HighlightExplained, StartCooking, pending = {}
             PROVE  highlighted \subseteq {<<"size", order'[1]>>, <<"kind", order'[2]>>}
  BY DEF ShownIsOrdered, SelectionInv
<1>1. order' = <<eggSize, preference>>
  BY DEF StartCooking
<1>2. highlighted \subseteq Selected
  BY DEF HighlightExplained
<1>3. Selected = {<<"size", eggSize>>, <<"kind", preference>>}
  BY DEF Selected
<1> QED
  BY <1>1, <1>2, <1>3

(* When "cook" is tapped with no animation running, every white button is  *)
(* part of the order that is passed on.                                    *)
THEOREM SelectionOrderIsWhatIsShown == Spec => OrderIsWhatIsShown
BY SelectionInvariant, ShownStep, PTL DEF Spec, OrderIsWhatIsShown, ShownIsOrdered

-----------------------------------------------------------------------------
(* What weak fairness asks of a completion: that it can run whenever its   *)
(* guard holds.  Every other conjunct of Complete gives a variable its     *)
(* next value, and pending changes, so nothing else can stop it.  ENABLED  *)
(* is not expanded by the provers, so this is a hypothesis below.          *)
CompletionsCanRun == \A b \in Buttons : b \in pending => ENABLED <<Complete(b)>>_vars

(* Until its own completion, a tapped button stays pending: only the end   *)
(* of the process can take its animation away.                             *)
LEMMA PendingStays ==
    ASSUME NEW b \in Buttons
    PROVE  b \in pending /\ [Next]_vars =>
              b \in pending' \/ b \in Selected' \/ Forgotten'
<1> SUFFICES ASSUME b \in pending, [Next]_vars
             PROVE  b \in pending' \/ b \in Selected' \/ Forgotten'
  OBVIOUS
<1>1. ASSUME NEW o \in Buttons, Tap(o)
      PROVE  b \in pending'
  BY <1>1 DEF Tap
<1>2. ASSUME NEW o \in Buttons, Complete(o), o # b
      PROVE  b \in pending'
  BY <1>2 DEF Complete
<1>3. CASE Complete(b)
  BY <1>3, ButtonParts DEF Complete, Selected
<1>4. CASE AskToSelect \/ Okay \/ StartCooking \/ UNCHANGED vars
  BY <1>4 DEF AskToSelect, Okay, StartCooking, vars
<1>5. CASE Relaunch
  BY <1>5 DEF Relaunch, Forgotten
<1> QED
  BY <1>1, <1>2, <1>3, <1>4, <1>5 DEF Next

(* Every tap takes effect, for any titles and however many taps and        *)
(* completions interleave: nothing but its own completion ends the         *)
(* animation of a button, and what that completion stores is its title.    *)
THEOREM SelectionTapTakesEffect == Spec /\ []CompletionsCanRun => TapTakesEffect
<1>1. ASSUME NEW b \in Buttons
      PROVE  Spec /\ []CompletionsCanRun => TakesEffect(b)
  <2>1. b \in pending /\ [Next]_vars =>
           (b \in pending)' \/ (b \in Selected)' \/ Forgotten'
    BY PendingStays
  <2>2. <<Complete(b)>>_vars => (b \in Selected)'
    BY ButtonParts DEF Complete, Selected
  <2>3. CompletionsCanRun => (b \in pending => ENABLED <<Complete(b)>>_vars)
    BY DEF CompletionsCanRun
  <2>4. Fairness => Completes(b)
    BY DEF Fairness
  <2> QED
    BY <2>1, <2>2, <2>3, <2>4, PTL DEF Spec, Completes, TakesEffect
<1>2. Spec /\ []CompletionsCanRun => \A b \in Buttons : TakesEffect(b)
  BY <1>1
<1> QED
  BY <1>2 DEF TapTakesEffect

=============================================================================
