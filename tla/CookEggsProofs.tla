--------------------------- MODULE CookEggsProofs ---------------------------
(***************************************************************************)
(* Proofs about CookEggs, for any number of screens, orders and timers and *)
(* any bounds.                                                             *)
(***************************************************************************)
EXTENDS CookEggs, TLAPS

(* The recommended time is a natural number.                               *)
LEMMA RecommendationIsNat ==
    ASSUME NEW o
    PROVE  timeForEggs(o) \in Nat
<1>1. HalfMinute \in Nat
  BY CookAssumption
<1>2. BaseTime(o[2]) \in Nat
  BY <1>1 DEF BaseTime
<1>3. TimeForSize(o[1]) \in Nat
  BY <1>1 DEF TimeForSize
<1> QED
  BY <1>2, <1>3 DEF timeForEggs

(* A screen starts with an integer number of seconds.                      *)
LEMMA StartTimeIsInt ==
    ASSUME TypeOK, NEW o \in Orders
    PROVE  StartTime(o) \in Int
<1>1. timeForEggs(o) \in Int
  BY RecommendationIsNat
<1> QED
  BY <1>1 DEF StartTime, TypeOK

(* None is neither a screen nor an order nor a time.                       *)
LEMMA NoneIsNothing == None \notin Screen /\ None \notin Orders /\ None \notin Int
BY CookAssumption

-----------------------------------------------------------------------------
(* A screen that has started no timer may show and quote any time; the     *)
(* strengthened invariant ties labels, timers, buttons and the alert.      *)
CookInv ==
    /\ TypeOK
    /\ LabelShowsTime
    /\ QuoteDrift
    /\ PreparedBeforeTimed
    /\ ScreensAreKept

LEMMA CookInit == Init => CookInv
<1> SUFFICES ASSUME Init PROVE CookInv
  OBVIOUS
<1>1. TypeOK
  BY CookAssumption DEF Init, TypeOK, TimerId, Steps
<1> QED
  BY <1>1 DEF Init, CookInv, LabelShowsTime, QuoteDrift, PreparedBeforeTimed,
              ScreensAreKept

(* The screen that is touched is in memory, and its order has a stored     *)
(* preference to write.                                                    *)
LEMMA TopIsLoaded ==
    ASSUME CookInv, NEW s \in Screen, top = s
    PROVE  key[s] \in Orders
BY NoneIsNothing DEF CookInv, TypeOK, ScreensAreKept

LEMMA CookType ==
    ASSUME CookInv, [Next]_vars
    PROVE  TypeOK'
<1> USE DEF TypeOK, CookInv
<1>1. ASSUME NEW s \in Screen, NEW o \in Orders, ViewDidLoad(s, o)
      PROVE  TypeOK'
  <2>1. StartTime(o) \in Int
    BY StartTimeIsInt
  <2> QED
    BY <1>1, <2>1 DEF ViewDidLoad, Steps
<1>2. ASSUME NEW s \in Screen, SaveAsPreferred(s)
      PROVE  TypeOK'
  BY <1>2 DEF SaveAsPreferred, screenVars
<1>3. ASSUME NEW s \in Screen, SaveYes(s)
      PROVE  TypeOK'
  BY <1>3, TopIsLoaded DEF SaveYes, screenVars
<1>4. ASSUME NEW s \in Screen, SaveNo(s)
      PROVE  TypeOK'
  BY <1>4 DEF SaveNo, screenVars
<1>5. ASSUME NEW s \in Screen, MinusTapped(s) \/ PlusTapped(s)
      PROVE  TypeOK'
  BY <1>5 DEF MinusTapped, PlusTapped, SetTime
<1>6. ASSUME NEW s \in Screen, WaterIsBoilingTapped(s) \/ EggsInPotTapped(s)
      PROVE  TypeOK'
  BY <1>6 DEF WaterIsBoilingTapped, EggsInPotTapped, Steps
<1>7. ASSUME NEW s \in Screen, StartTimerTapped(s)
      PROVE  TypeOK'
  <2>1. timer[s] + 1 \in TimerId
    BY <1>7, CookAssumption DEF StartTimerTapped, TimerId
  <2> QED
    BY <1>7, <2>1 DEF StartTimerTapped, Steps
<1>8. ASSUME NEW s \in Screen, NEW t \in live[s], SecondPassed(s, t)
      PROVE  TypeOK'
  BY <1>8 DEF SecondPassed, SetTime
<1>9. ASSUME NEW s \in Screen, Back(s)
      PROVE  TypeOK'
  BY <1>9 DEF Back, screenVars
<1>10. ASSUME NEW s \in Screen, Deallocate(s)
       PROVE  TypeOK'
  BY <1>10, CookAssumption DEF Deallocate, TimerId
<1>11. CASE Relaunch
  BY <1>11, CookAssumption DEF Relaunch, TimerId
<1>12. CASE UNCHANGED vars
  BY <1>12 DEF vars, screenVars
<1> QED
  BY <1>1, <1>2, <1>3, <1>4, <1>5, <1>6, <1>7, <1>8, <1>9, <1>10, <1>11, <1>12
     DEF Next, Tapped, Tick

(* The label follows every assignment of cookTime.                         *)
LEMMA CookLabel ==
    ASSUME CookInv, [Next]_vars
    PROVE  LabelShowsTime'
<1> USE DEF TypeOK, CookInv, LabelShowsTime
<1>1. ASSUME NEW s \in Screen, NEW o \in Orders, ViewDidLoad(s, o)
      PROVE  LabelShowsTime'
  BY <1>1 DEF ViewDidLoad
<1>2. ASSUME NEW s \in Screen,
             SaveAsPreferred(s) \/ SaveYes(s) \/ SaveNo(s) \/ Back(s)
      PROVE  LabelShowsTime'
  BY <1>2 DEF SaveAsPreferred, SaveYes, SaveNo, Back, screenVars
<1>3. ASSUME NEW s \in Screen, MinusTapped(s) \/ PlusTapped(s)
      PROVE  LabelShowsTime'
  BY <1>3 DEF MinusTapped, PlusTapped, SetTime
<1>4. ASSUME NEW s \in Screen,
             WaterIsBoilingTapped(s) \/ EggsInPotTapped(s) \/ StartTimerTapped(s)
      PROVE  LabelShowsTime'
  BY <1>4 DEF WaterIsBoilingTapped, EggsInPotTapped, StartTimerTapped
<1>5. ASSUME NEW s \in Screen, NEW t \in live[s], SecondPassed(s, t)
      PROVE  LabelShowsTime'
  BY <1>5 DEF SecondPassed, SetTime
<1>6. ASSUME NEW s \in Screen, Deallocate(s)
      PROVE  LabelShowsTime'
  BY <1>6 DEF Deallocate
<1>7. CASE Relaunch
  BY <1>7 DEF Relaunch
<1>8. CASE UNCHANGED vars
  BY <1>8 DEF vars, screenVars
<1> QED
  BY <1>1, <1>2, <1>3, <1>4, <1>5, <1>6, <1>7, <1>8 DEF Next, Tapped, Tick

(* While the alert is up only ticks move cookTime, and only of a screen    *)
(* that started a timer.                                                   *)
LEMMA CookQuote ==
    ASSUME CookInv, [Next]_vars
    PROVE  QuoteDrift'
<1> USE DEF TypeOK, CookInv, QuoteDrift
<1>1. ASSUME NEW s \in Screen, NEW o \in Orders, ViewDidLoad(s, o)
      PROVE  QuoteDrift'
  BY <1>1 DEF ViewDidLoad
<1>2. ASSUME NEW s \in Screen, SaveAsPreferred(s)
      PROVE  QuoteDrift'
  <2>1. top' = s /\ s # None /\ cookTime' = cookTime /\ quote' = label[s]
    BY <1>2, NoneIsNothing DEF SaveAsPreferred, InFront, screenVars
  <2>2. label[s] = cookTime[s] /\ cookTime[s] \in Int
    BY <1>2, TopIsLoaded, NoneIsNothing DEF LabelShowsTime, SaveAsPreferred, InFront
  <2> QED
    BY <2>1, <2>2
<1>3. ASSUME NEW s \in Screen, SaveYes(s) \/ SaveNo(s)
      PROVE  QuoteDrift'
  BY <1>3 DEF SaveYes, SaveNo
<1>4. ASSUME NEW s \in Screen,
             \/ MinusTapped(s) \/ PlusTapped(s) \/ WaterIsBoilingTapped(s)
             \/ EggsInPotTapped(s) \/ StartTimerTapped(s) \/ Back(s)
      PROVE  QuoteDrift'
  BY <1>4 DEF MinusTapped, PlusTapped, WaterIsBoilingTapped, EggsInPotTapped,
              StartTimerTapped, Back, InFront
<1>5. ASSUME NEW s \in Screen, NEW t \in live[s], SecondPassed(s, t)
      PROVE  QuoteDrift'
  <2>1. quote' = quote /\ top' = top /\ timer' = timer
    BY <1>5 DEF SecondPassed
  <2>2. CASE quote = None
    BY <2>1, <2>2
  <2>3. CASE quote # None /\ top # s
    <3>1. top \in Screen /\ cookTime'[top] = cookTime[top]
      BY <1>5, <2>3 DEF SecondPassed, SetTime
    <3> QED
      BY <2>1, <2>3, <3>1
  <2>4. CASE quote # None /\ top = s
    <3>1. timer[s] # 0 /\ quote \in Int /\ cookTime[s] \in Int
      BY <2>4 DEF ScreensAreKept
    <3>2. \/ cookTime'[s] = cookTime[s]
          \/ cookTime[s] > 0 /\ cookTime'[s] = cookTime[s] - 1
      BY <1>5 DEF SecondPassed, SetTime
    <3> QED
      BY <2>1, <2>4, <3>1, <3>2
  <2> QED
    BY <2>2, <2>3, <2>4
<1>6. ASSUME NEW s \in Screen, Deallocate(s)
      PROVE  QuoteDrift'
  BY <1>6 DEF Deallocate
<1>7. CASE Relaunch
  BY <1>7 DEF Relaunch
<1>8. CASE UNCHANGED vars
  BY <1>8 DEF vars, screenVars
<1> QED
  BY <1>1, <1>2, <1>3, <1>4, <1>5, <1>6, <1>7, <1>8 DEF Next, Tapped, Tick

(* The step buttons, the timers and the memory of the screens.             *)
LEMMA CookScreens ==
    ASSUME CookInv, [Next]_vars
    PROVE  PreparedBeforeTimed' /\ ScreensAreKept'
<1> USE DEF TypeOK, CookInv, PreparedBeforeTimed, ScreensAreKept
<1>1. ASSUME NEW s \in Screen, NEW o \in Orders, ViewDidLoad(s, o)
      PROVE  PreparedBeforeTimed' /\ ScreensAreKept'
  BY <1>1, NoneIsNothing DEF ViewDidLoad
<1>2. ASSUME NEW s \in Screen,
             SaveAsPreferred(s) \/ SaveYes(s) \/ SaveNo(s) \/ Back(s)
      PROVE  PreparedBeforeTimed' /\ ScreensAreKept'
  BY <1>2 DEF SaveAsPreferred, SaveYes, SaveNo, Back, screenVars
<1>3. ASSUME NEW s \in Screen, MinusTapped(s) \/ PlusTapped(s)
      PROVE  PreparedBeforeTimed' /\ ScreensAreKept'
  BY <1>3 DEF MinusTapped, PlusTapped
<1>4. ASSUME NEW s \in Screen, WaterIsBoilingTapped(s)
      PROVE  PreparedBeforeTimed' /\ ScreensAreKept'
  <2>1. enabled[s] = {"boiling"}
    BY <1>4 DEF WaterIsBoilingTapped
  <2>2. enabled' = [enabled EXCEPT ![s] = {"pot"}]
    BY <1>4, <2>1 DEF WaterIsBoilingTapped
  <2>3. live[s] = {}
    BY <2>1
  <2> QED
    BY <1>4, <2>2, <2>3 DEF WaterIsBoilingTapped
<1>5. ASSUME NEW s \in Screen, EggsInPotTapped(s)
      PROVE  PreparedBeforeTimed' /\ ScreensAreKept'
  <2>1. enabled[s] = {"pot"}
    BY <1>5 DEF EggsInPotTapped
  <2>2. enabled' = [enabled EXCEPT ![s] = {"start"}]
    BY <1>5, <2>1 DEF EggsInPotTapped
  <2> QED
    BY <1>5, <2>2 DEF EggsInPotTapped
<1>6. ASSUME NEW s \in Screen, StartTimerTapped(s)
      PROVE  PreparedBeforeTimed' /\ ScreensAreKept'
  <2>1. enabled[s] = {"start"} /\ top = s
    BY <1>6 DEF StartTimerTapped, InFront
  <2>2. enabled' = enabled
    BY <1>6, <2>1 DEF StartTimerTapped
  <2>3. timer[s] + 1 # 0 /\ key[s] # None
    BY <1>6, <2>1, NoneIsNothing DEF TimerId
  <2> QED
    BY <1>6, <2>1, <2>2, <2>3 DEF StartTimerTapped
<1>7. ASSUME NEW s \in Screen, NEW t \in live[s], SecondPassed(s, t)
      PROVE  PreparedBeforeTimed' /\ ScreensAreKept'
  <2>1. \A u \in Screen : live'[u] \subseteq live[u]
    BY <1>7 DEF SecondPassed
  <2> QED
    BY <1>7, <2>1 DEF SecondPassed
<1>8. ASSUME NEW s \in Screen, Deallocate(s)
      PROVE  PreparedBeforeTimed' /\ ScreensAreKept'
  BY <1>8 DEF Deallocate
<1>9. CASE Relaunch
  BY <1>9 DEF Relaunch
<1>10. CASE UNCHANGED vars
  BY <1>10 DEF vars, screenVars
<1> QED
  BY <1>1, <1>2, <1>3, <1>4, <1>5, <1>6, <1>7, <1>8, <1>9, <1>10
     DEF Next, Tapped, Tick

-----------------------------------------------------------------------------
LEMMA CookStep == CookInv /\ [Next]_vars => CookInv'
BY CookType, CookLabel, CookQuote, CookScreens DEF CookInv

(* The strengthened invariant holds in every state.                        *)
THEOREM CookInvariant == Spec => []CookInv
BY CookInit, CookStep, PTL DEF Spec

(* Every variable of the cook screens keeps its type.                      *)
THEOREM CookTypeCorrect == Spec => []TypeOK
<1>1. CookInv => TypeOK
  BY DEF CookInv
<1> QED
  BY <1>1, CookInvariant, PTL

(* The label shows the time left on every screen.                          *)
THEOREM CookLabelShowsTime == Spec => []LabelShowsTime
<1>1. CookInv => LabelShowsTime
  BY DEF CookInv
<1> QED
  BY <1>1, CookInvariant, PTL

(* A screen with a timer stays in memory, and the one on top is loaded.    *)
THEOREM CookScreensAreKept == Spec => []ScreensAreKept
<1>1. CookInv => ScreensAreKept
  BY DEF CookInv
<1> QED
  BY <1>1, CookInvariant, PTL

(* The quoted and the stored time differ only by what a started timer has  *)
(* counted while the alert was up.                                         *)
THEOREM CookQuoteDrift == Spec => []QuoteDrift
<1>1. CookInv => QuoteDrift
  BY DEF CookInv
<1> QED
  BY <1>1, CookInvariant, PTL

(* A timer only runs where the water boiled and the eggs went in.          *)
THEOREM CookPreparedBeforeTimed == Spec => []PreparedBeforeTimed
<1>1. CookInv => PreparedBeforeTimed
  BY DEF CookInv
<1> QED
  BY <1>1, CookInvariant, PTL

(* What a step does to the preferences, and to the timers.                 *)
TopScreenSaves ==
    \A o \in Orders :
       prefs'[o] # prefs[o] =>
          /\ top # None
          /\ key[top] = o
          /\ prefs'[o] = label[top]

TimeIsUpStops ==
    \A s \in Screen :
       live'[s] # live[s] =>
          \/ live[s] \subseteq live'[s]
          \/ cookTime[s] <= 0
          \/ Relaunch

LEMMA SavesStep == CookInv /\ [Next]_vars => [TopScreenSaves]_vars
<1> SUFFICES ASSUME CookInv, Next PROVE TopScreenSaves
  BY DEF vars
<1>1. CASE prefs' = prefs
  BY <1>1 DEF TopScreenSaves
<1>2. CASE \E s \in Screen : SaveYes(s)
  <2> PICK s \in Screen : SaveYes(s)
    BY <1>2
  <2>1. top = s /\ s # None /\ key[s] \in Orders /\ label[s] = cookTime[s]
    BY TopIsLoaded, NoneIsNothing DEF SaveYes, CookInv, LabelShowsTime
  <2>2. prefs' = [prefs EXCEPT ![key[s]] = cookTime[s]]
    BY DEF SaveYes
  <2> QED
    BY <2>1, <2>2 DEF CookInv, TypeOK, TopScreenSaves
<1>3. prefs' = prefs \/ \E s \in Screen : SaveYes(s)
  BY DEF Next, Tapped, Tick, ViewDidLoad, SaveAsPreferred, SaveNo, MinusTapped,
         PlusTapped, WaterIsBoilingTapped, EggsInPotTapped, StartTimerTapped,
         SecondPassed, Back, Deallocate, Relaunch
<1> QED
  BY <1>1, <1>2, <1>3

LEMMA StopsStep == CookInv /\ [Next]_vars => [TimeIsUpStops]_vars
<1> SUFFICES ASSUME CookInv, Next, ~Relaunch PROVE TimeIsUpStops
  BY DEF Next, TimeIsUpStops
<1> USE DEF TimeIsUpStops
<1>1. CASE live' = live
  BY <1>1
<1>2. ASSUME NEW s \in Screen, StartTimerTapped(s) PROVE TimeIsUpStops
  BY <1>2 DEF StartTimerTapped, CookInv, TypeOK
<1>3. ASSUME NEW s \in Screen, NEW t \in live[s], SecondPassed(s, t) PROVE TimeIsUpStops
  <2>1. cookTime[s] \in Int
    BY DEF CookInv, TypeOK
  <2>2. CASE cookTime[s] > 0
    BY <1>3, <2>2 DEF SecondPassed
  <2>3. CASE ~(cookTime[s] > 0)
    <3>1. cookTime[s] <= 0
      BY <2>1, <2>3
    <3>2. \A r \in Screen : r # s => live'[r] = live[r]
      BY <1>3, <2>3 DEF SecondPassed, CookInv, TypeOK
    <3> QED
      BY <3>1, <3>2
  <2> QED
    BY <2>2, <2>3
<1>4. \/ live' = live
      \/ \E s \in Screen : StartTimerTapped(s) \/ Tick(s)
  BY DEF Next, Tapped, ViewDidLoad, SaveAsPreferred, SaveYes, SaveNo, MinusTapped,
         PlusTapped, WaterIsBoilingTapped, EggsInPotTapped, Back, Deallocate,
         screenVars
<1> QED
  BY <1>1, <1>2, <1>3, <1>4 DEF Tick

(* Preferences are written by the screen on top, for its own order, with   *)
(* the time its label shows.                                               *)
THEOREM CookOnlyTopScreenSaves == Spec => OnlyTopScreenSaves
BY CookInvariant, SavesStep, PTL DEF Spec, OnlyTopScreenSaves, TopScreenSaves

(* A timer stops because its time is up or the process ends, and for no    *)
(* other reason: no tap and no navigation cuts a countdown short.          *)
THEOREM CookStopsWhenTimeIsUp == Spec => StopsWhenTimeIsUp
BY CookInvariant, StopsStep, PTL DEF Spec, StopsWhenTimeIsUp, TimeIsUpStops

-----------------------------------------------------------------------------
(* What weak fairness asks of the run loop: that a tick can be taken while *)
(* the latest timer is scheduled.  Counting lowers cookTime, and at zero   *)
(* that timer leaves live, so a tick always changes something; every other *)
(* conjunct of SecondPassed gives a variable its next value.  ENABLED is   *)
(* not expanded by the provers, so this is a hypothesis below.             *)
TicksCanRun == \A s \in Screen : timer[s] \in live[s] => ENABLED <<Tick(s)>>_vars

Counting(s, n) == timer[s] \in live[s] /\ cookTime[s] = n

Stopped(s) == timer[s] \notin live[s]

Fewer(s, n) == timer[s] \in live[s] /\ cookTime[s] < n

\* Nobody touches the screen s from now on; others may be opened and used.
LeftAlone(s) == [][~Tapped(s)]_vars

(* A tick counts, or it is the one that stops the timer.                   *)
LEMMA TickCounts ==
    ASSUME CookInv, NEW s \in Screen, NEW n \in Int, Counting(s, n), Tick(s)
    PROVE  IF n > 0 THEN Fewer(s, n)' ELSE Stopped(s)'
<1> PICK t \in live[s] : SecondPassed(s, t)
  BY DEF Tick
<1>1. CASE n > 0
  <2>1. cookTime'[s] = n - 1 /\ live' = live /\ timer' = timer
    BY <1>1 DEF SecondPassed, SetTime, Counting, CookInv, TypeOK
  <2> QED
    BY <1>1, <2>1 DEF Fewer, Counting
<1>2. CASE ~(n > 0)
  <2>1. live'[s] = live[s] \ {timer[s]} /\ timer' = timer
    BY <1>2 DEF SecondPassed, Counting, CookInv, TypeOK
  <2> QED
    BY <1>2, <2>1 DEF Stopped
<1> QED
  BY <1>1, <1>2

(* No other screen, and no navigation, touches a screen that is counting.  *)
LEMMA CountingStays ==
    ASSUME CookInv, NEW s \in Screen, NEW n \in Int, Counting(s, n),
           [Next]_vars, [~Tapped(s)]_vars
    PROVE  Counting(s, n)' \/ (n > 0 /\ Fewer(s, n)') \/ Stopped(s)'
<1> USE DEF Counting
<1>0. live[s] # {} /\ key[s] # None
  BY DEF CookInv, ScreensAreKept
<1>1. ASSUME NEW r \in Screen, NEW o \in Orders, ViewDidLoad(r, o)
      PROVE  Counting(s, n)'
  BY <1>0, <1>1 DEF ViewDidLoad, CookInv, TypeOK
<1>2. ASSUME NEW r \in Screen, r # s, Tapped(r)
      PROVE  Counting(s, n)'
  BY <1>2 DEF Tapped, SaveAsPreferred, SaveYes, SaveNo, MinusTapped, PlusTapped, SetTime,
              WaterIsBoilingTapped, EggsInPotTapped, StartTimerTapped, screenVars,
              CookInv, TypeOK
<1>3. ASSUME NEW r \in Screen, r # s, NEW t \in live[r], SecondPassed(r, t)
      PROVE  Counting(s, n)'
  BY <1>3 DEF SecondPassed, SetTime, CookInv, TypeOK
<1>4. ASSUME Tick(s)
      PROVE  (n > 0 /\ Fewer(s, n)') \/ Stopped(s)'
  BY <1>4, TickCounts
<1>5. ASSUME NEW r \in Screen, Back(r)
      PROVE  Counting(s, n)'
  BY <1>5 DEF Back, screenVars
<1>6. ASSUME NEW r \in Screen, Deallocate(r)
      PROVE  Counting(s, n)'
  BY <1>0, <1>6 DEF Deallocate, CookInv, TypeOK
<1>7. CASE Relaunch
  BY <1>7 DEF Relaunch, Stopped
<1>8. CASE UNCHANGED vars
  BY <1>8 DEF vars, screenVars
<1> QED
  BY <1>1, <1>2, <1>3, <1>4, <1>5, <1>6, <1>7, <1>8 DEF Next, Tick

(* The step that LatestTimerStops is an induction of: while the user leaves *)
(* the screen alone, a countdown at n > 0 goes below n or is over, and one  *)
(* at zero or below is over, whatever the other screens and the navigation  *)
(* do, and however many timers of the screen count together.                *)
CountsDown(s, n) == LeftAlone(s) /\ Counting(s, n) ~> Fewer(s, n) \/ Stopped(s)

StopsAtZero(s, n) == LeftAlone(s) /\ Counting(s, n) ~> Stopped(s)

THEOREM CookCountdownProceeds ==
    ASSUME NEW s \in Screen, NEW n \in Int
    PROVE  Spec /\ []TicksCanRun =>
              IF n > 0 THEN CountsDown(s, n) ELSE StopsAtZero(s, n)
<1>1. TicksCanRun => (Counting(s, n) => ENABLED <<Tick(s)>>_vars)
  BY DEF TicksCanRun, Counting
<1>2. Fairness => Ticks(s)
  BY DEF Fairness
<1>3. CASE n > 0
  <2>1. CookInv /\ Counting(s, n) /\ <<Tick(s)>>_vars => Fewer(s, n)'
    BY <1>3, TickCounts
  <2>2. Counting(s, n) /\ CookInv /\ [Next]_vars /\ [~Tapped(s)]_vars =>
           Counting(s, n)' \/ Fewer(s, n)' \/ Stopped(s)'
    BY CountingStays
  <2>3. Spec /\ []TicksCanRun => CountsDown(s, n)
    BY <1>1, <1>2, <2>1, <2>2, CookInvariant, PTL DEF Spec, Ticks, CountsDown, LeftAlone
  <2> QED
    BY <1>3, <2>3
<1>4. CASE ~(n > 0)
  <2>1. CookInv /\ Counting(s, n) /\ <<Tick(s)>>_vars => Stopped(s)'
    BY <1>4, TickCounts
  <2>2. Counting(s, n) /\ CookInv /\ [Next]_vars /\ [~Tapped(s)]_vars =>
           Counting(s, n)' \/ Stopped(s)'
    BY <1>4, CountingStays
  <2>3. Spec /\ []TicksCanRun => StopsAtZero(s, n)
    BY <1>1, <1>2, <2>1, <2>2, CookInvariant, PTL DEF Spec, Ticks, StopsAtZero, LeftAlone
  <2> QED
    BY <1>4, <2>3
<1> QED
  BY <1>3, <1>4

-----------------------------------------------------------------------------
(* How long a count can be: up to eighteen hours, where the longest time   *)
(* the program recommends, 28 half minutes, is fourteen minutes.  The      *)
(* number is of the proof, which doubles a bound sixteen times.            *)
Longest == 65536

CountsAreShort == 28 * HalfMinute <= Longest /\ MaxTime <= Longest

\* No screen counts from, and no preference stores, more than Longest.
TimesAreShort ==
    /\ \A s \in Screen : cookTime[s] <= Longest
    /\ \A o \in Orders : prefs[o] # None => prefs[o] <= Longest

(* A screen starts with no more than Longest.                              *)
LEMMA StartTimeIsShort ==
    ASSUME CountsAreShort, TypeOK, TimesAreShort, NEW o \in Orders
    PROVE  StartTime(o) <= Longest
<1>1. HalfMinute \in Nat
  BY CookAssumption
<1>2. BaseTime(o[2]) <= 24 * HalfMinute /\ BaseTime(o[2]) \in Nat
  BY <1>1 DEF BaseTime
<1>3. TimeForSize(o[1]) <= 4 * HalfMinute /\ TimeForSize(o[1]) \in Nat
  BY <1>1 DEF TimeForSize
<1>4. timeForEggs(o) <= Longest
  BY <1>1, <1>2, <1>3 DEF timeForEggs, CountsAreShort, Longest
<1> QED
  BY <1>4 DEF StartTime, TimesAreShort

(* Only plus and the loading of a screen raise a time.                     *)
LEMMA TimesStayShort ==
    ASSUME CountsAreShort, CookInv, TimesAreShort, [Next]_vars
    PROVE  TimesAreShort'
<1> USE DEF TimesAreShort, CookInv, TypeOK
<1>0. Longest \in Nat /\ MaxTime \in Int
  BY CookAssumption DEF Longest
<1>1. ASSUME NEW s \in Screen, NEW o \in Orders, ViewDidLoad(s, o)
      PROVE  TimesAreShort'
  BY <1>1, StartTimeIsShort DEF ViewDidLoad
<1>2. ASSUME NEW s \in Screen, SaveYes(s)
      PROVE  TimesAreShort'
  BY <1>2 DEF SaveYes, screenVars
<1>3. ASSUME NEW s \in Screen, MinusTapped(s) \/ PlusTapped(s)
      PROVE  TimesAreShort'
  BY <1>0, <1>3 DEF MinusTapped, PlusTapped, SetTime, CountsAreShort
<1>4. ASSUME NEW s \in Screen, NEW t \in live[s], SecondPassed(s, t)
      PROVE  TimesAreShort'
  BY <1>0, <1>4 DEF SecondPassed, SetTime
<1>5. ASSUME NEW s \in Screen, Deallocate(s)
      PROVE  TimesAreShort'
  BY <1>0, <1>5 DEF Deallocate
<1>6. CASE Relaunch
  BY <1>0, <1>6 DEF Relaunch
<1>7. CASE UNCHANGED <<cookTime, prefs>>
  BY <1>7
<1>8. \/ UNCHANGED <<cookTime, prefs>>
      \/ Relaunch
      \/ \E s \in Screen :
            \/ \E o \in Orders : ViewDidLoad(s, o)
            \/ SaveYes(s) \/ MinusTapped(s) \/ PlusTapped(s)
            \/ \E t \in live[s] : SecondPassed(s, t)
            \/ Deallocate(s)
  BY DEF Next, Tapped, Tick, SaveAsPreferred, SaveNo, WaterIsBoilingTapped,
         EggsInPotTapped, StartTimerTapped, Back, screenVars, vars
<1> QED
  BY <1>1, <1>2, <1>3, <1>4, <1>5, <1>6, <1>7, <1>8

LEMMA CookTimesAreShort == CountsAreShort => (Spec => []TimesAreShort)
<1> SUFFICES ASSUME CountsAreShort PROVE Spec => []TimesAreShort
  OBVIOUS
<1>1. Init => TimesAreShort
  BY DEF Init, TimesAreShort, Longest
<1>2. TimesAreShort /\ CookInv /\ [Next]_vars => TimesAreShort'
  BY TimesStayShort
<1> QED
  BY <1>1, <1>2, CookInvariant, PTL DEF Spec

-----------------------------------------------------------------------------
(* A countdown that has at most n to go ends, if the screen is left alone. *)
AtMost(s, n) == timer[s] \in live[s] /\ cookTime[s] <= n

Ends(s, n) == LeftAlone(s) /\ AtMost(s, n) ~> Stopped(s)

Runs == Spec /\ []TicksCanRun

LEMMA EndsAtZero ==
    ASSUME NEW s \in Screen
    PROVE  Runs => Ends(s, 0)
<1>1. TicksCanRun => (AtMost(s, 0) => ENABLED <<Tick(s)>>_vars)
  BY DEF TicksCanRun, AtMost
<1>2. Fairness => Ticks(s)
  BY DEF Fairness
<1>3. CookInv /\ AtMost(s, 0) /\ <<Tick(s)>>_vars => Stopped(s)'
  <2> SUFFICES ASSUME CookInv, AtMost(s, 0), Tick(s) PROVE Stopped(s)'
    OBVIOUS
  <2> PICK n \in Int : n = cookTime[s]
    BY DEF CookInv, TypeOK
  <2>1. Counting(s, n) /\ ~(n > 0)
    BY DEF Counting, AtMost
  <2> QED
    BY <2>1, TickCounts
<1>4. AtMost(s, 0) /\ CookInv /\ [Next]_vars /\ [~Tapped(s)]_vars =>
         AtMost(s, 0)' \/ Stopped(s)'
  <2> SUFFICES ASSUME AtMost(s, 0), CookInv, [Next]_vars, [~Tapped(s)]_vars
               PROVE  AtMost(s, 0)' \/ Stopped(s)'
    OBVIOUS
  <2> PICK n \in Int : n = cookTime[s]
    BY DEF CookInv, TypeOK
  <2>1. Counting(s, n) /\ n <= 0
    BY DEF Counting, AtMost
  <2>2. Counting(s, n)' \/ Stopped(s)'
    BY <2>1, CountingStays
  <2> QED
    BY <2>1, <2>2 DEF Counting, AtMost
<1> QED
  BY <1>1, <1>2, <1>3, <1>4, CookInvariant, PTL
     DEF Runs, Spec, Ticks, Ends, LeftAlone

(* From n a countdown ends, so from n + 1 it ends.                         *)
LEMMA EndsFromOneMore ==
    ASSUME NEW s \in Screen, NEW n \in Nat
    PROVE  Runs => (Ends(s, n) => Ends(s, n + 1))
<1>1. Spec /\ []TicksCanRun => CountsDown(s, n + 1)
  <2>1. n + 1 \in Int /\ n + 1 > 0
    OBVIOUS
  <2> QED
    BY <2>1, CookCountdownProceeds
<1>2. CookInv => (AtMost(s, n + 1) => AtMost(s, n) \/ Counting(s, n + 1))
  BY DEF AtMost, Counting, CookInv, TypeOK
<1>3. CookInv => (Fewer(s, n + 1) => AtMost(s, n))
  BY DEF AtMost, Fewer, CookInv, TypeOK
<1> QED
  BY <1>1, <1>2, <1>3, CookInvariant, PTL DEF Runs, CountsDown, Ends, LeftAlone

(* What ends from n ends from k more.  Two such steps make one of k + k,   *)
(* so that few of them reach far: the provers have no induction over       *)
(* formulas of temporal logic.                                             *)
EndsFrom(s, k) == \A n \in Nat : Runs => (Ends(s, n) => Ends(s, n + k))

LEMMA EndsFromTwice ==
    ASSUME NEW s \in Screen, NEW k \in Nat, EndsFrom(s, k)
    PROVE  EndsFrom(s, k + k)
<1> SUFFICES ASSUME NEW n \in Nat
             PROVE  Runs => (Ends(s, n) => Ends(s, n + (k + k)))
  BY DEF EndsFrom
<1>1. Runs => (Ends(s, n) => Ends(s, n + k))
  BY DEF EndsFrom
<1>2. Runs => (Ends(s, n + k) => Ends(s, (n + k) + k))
  BY DEF EndsFrom
<1>3. (n + k) + k = n + (k + k)
  OBVIOUS
<1> HIDE DEF Runs, Ends
<1> QED
  BY <1>1, <1>2, <1>3

LEMMA EndsFromLongest ==
    ASSUME NEW s \in Screen
    PROVE  Runs => Ends(s, Longest)
<1> HIDE DEF Runs, Ends, EndsFrom
<1>0. EndsFrom(s, 1)
  BY EndsFromOneMore DEF EndsFrom
<1>1. EndsFrom(s, 2)
  BY <1>0, EndsFromTwice, 1 + 1 = 2
<1>2. EndsFrom(s, 4)
  BY <1>1, EndsFromTwice, 2 + 2 = 4
<1>3. EndsFrom(s, 8)
  BY <1>2, EndsFromTwice, 4 + 4 = 8
<1>4. EndsFrom(s, 16)
  BY <1>3, EndsFromTwice, 8 + 8 = 16
<1>5. EndsFrom(s, 32)
  BY <1>4, EndsFromTwice, 16 + 16 = 32
<1>6. EndsFrom(s, 64)
  BY <1>5, EndsFromTwice, 32 + 32 = 64
<1>7. EndsFrom(s, 128)
  BY <1>6, EndsFromTwice, 64 + 64 = 128
<1>8. EndsFrom(s, 256)
  BY <1>7, EndsFromTwice, 128 + 128 = 256
<1>9. EndsFrom(s, 512)
  BY <1>8, EndsFromTwice, 256 + 256 = 512
<1>10. EndsFrom(s, 1024)
  BY <1>9, EndsFromTwice, 512 + 512 = 1024
<1>11. EndsFrom(s, 2048)
  BY <1>10, EndsFromTwice, 1024 + 1024 = 2048
<1>12. EndsFrom(s, 4096)
  BY <1>11, EndsFromTwice, 2048 + 2048 = 4096
<1>13. EndsFrom(s, 8192)
  BY <1>12, EndsFromTwice, 4096 + 4096 = 8192
<1>14. EndsFrom(s, 16384)
  BY <1>13, EndsFromTwice, 8192 + 8192 = 16384
<1>15. EndsFrom(s, 32768)
  BY <1>14, EndsFromTwice, 16384 + 16384 = 32768
<1>16. EndsFrom(s, 65536)
  BY <1>15, EndsFromTwice, 32768 + 32768 = 65536
<1>17. Runs => (Ends(s, 0) => Ends(s, 0 + 65536))
  BY <1>16 DEF EndsFrom
<1> QED
  BY <1>17, EndsAtZero, 0 + 65536 = Longest DEF Longest

(* LatestTimerStops itself, for times up to Longest: whatever else         *)
(* happens, a screen the user leaves alone for good stops its latest       *)
(* timer.                                                                  *)
StopsOn(s) == <>LeftAlone(s) => (timer[s] \in live[s] ~> Stopped(s))

THEOREM CookLatestTimerStops ==
    CountsAreShort => (Spec /\ []TicksCanRun => LatestTimerStops)
<1> SUFFICES ASSUME CountsAreShort
             PROVE  Runs => LatestTimerStops
  BY DEF Runs
<1>1. ASSUME NEW s \in Screen
      PROVE  Runs => StopsOn(s)
  <2>1. TimesAreShort => (timer[s] \in live[s] => AtMost(s, Longest))
    BY DEF TimesAreShort, AtMost
  <2>2. Spec => []TimesAreShort
    BY CookTimesAreShort
  <2>3. timer[s] \in live[s] \/ Stopped(s)
    BY DEF Stopped
  <2>4. Runs => Ends(s, Longest)
    BY EndsFromLongest
  <2> QED
    BY <2>1, <2>2, <2>3, <2>4, PTL DEF Runs, Ends, LeftAlone, StopsOn
<1>2. Runs => \A s \in Screen : StopsOn(s)
  <2> HIDE DEF Runs, StopsOn
  <2> QED
    BY <1>1
<1> QED
  BY <1>2 DEF LatestTimerStops, StopsOn, LeftAlone, Stopped

=============================================================================
