------------------------------ MODULE CookEggs ------------------------------
(***************************************************************************)
(* The second screen of Egg Timer: CookEggsViewController.swift, and the   *)
(* preferred times it keeps in UserDefaults.                               *)
(*                                                                         *)
(* Every handler runs on the main run loop, so each is one atomic action;  *)
(* what interleaves are the user, the timers that were scheduled, and the  *)
(* end of the process.  A repeating Timer retains its target: a screen     *)
(* that was popped lives on, and keeps counting, until its timers are      *)
(* invalidated.  That is why the state is kept per screen instance.        *)
(***************************************************************************)
EXTENDS Integers

CONSTANTS
    Screen,      \* instances of CookEggsViewController
    Orders,      \* the <<eggSize, eggKind>> pairs screens are opened for
    HalfMinute,  \* half a minute in seconds: 30; scaled down for TLC
    MinTime,     \* bound: minus is tapped only above it
    MaxTime,     \* bound: plus is tapped only below it
    MaxTimers,   \* bound on the taps of the start button, per screen
    None         \* no screen, no order, no alert, no stored preference

ASSUME CookAssumption ==
    /\ None \notin Screen \cup Orders \cup Int
    /\ HalfMinute \in Nat \ {0}
    /\ MinTime \in Int
    /\ MaxTime \in Int
    /\ MaxTimers \in Nat

VARIABLES
    top,       \* the screen on top of the navigation stack; None: the root
    key,       \* key[s]: the order s was opened for; None: not in memory
    cookTime,  \* cookTime[s]: the seconds left
    label,     \* label[s]: the time that timeLabel shows
    enabled,   \* enabled[s]: which of the three step buttons take taps
    timer,     \* timer[s]: the property "timer", the latest one scheduled
    live,      \* live[s]: the scheduled timers not yet invalidated
    quote,     \* the time quoted by the "Do you want to save?" alert
    prefs      \* UserDefaults.standard: the preferred time of each order

screenVars == <<key, cookTime, label, enabled, timer, live>>
vars == <<top, screenVars, quote, prefs>>

Steps == {"boiling", "pot", "start"}
TimerId == 0 .. MaxTimers     \* 0 is the unscheduled Timer() of line 27

TypeOK ==
    /\ top \in Screen \cup {None}
    /\ key \in [Screen -> Orders \cup {None}]
    /\ cookTime \in [Screen -> Int]
    /\ label \in [Screen -> Int]
    /\ enabled \in [Screen -> SUBSET Steps]
    /\ timer \in [Screen -> TimerId]
    /\ live \in [Screen -> SUBSET TimerId]
    /\ quote \in Int \cup {None}
    /\ prefs \in [Orders -> Int \cup {None}]

-----------------------------------------------------------------------------
(* timeForEggs: the program's own recommendation.                          *)
BaseTime(kind) ==
    CASE kind = "Soft" -> 6 * HalfMinute
      [] kind = "Hard" -> 24 * HalfMinute
      [] OTHER -> 9 * HalfMinute

TimeForSize(size) ==
    CASE size = "Small" -> 0
      [] size = "Medium" -> 3 * HalfMinute
      [] OTHER -> 4 * HalfMinute

timeForEggs(o) == BaseTime(o[2]) + TimeForSize(o[1])

\* Mutant of StartTime: the stored time is taken without asking if there is one.
StoredTime(o) == prefs[o]

(* getUserPreference: a stored time overrides the recommendation.  The     *)
(* key, eggSize + eggKind, is different for different pairs of titles.     *)
StartTime(o) == IF prefs[o] = None THEN timeForEggs(o) ELSE prefs[o]

Init ==
    /\ top = None
    /\ key = [s \in Screen |-> None]
    /\ cookTime = [s \in Screen |-> 0]
    /\ label = [s \in Screen |-> 0]
    /\ enabled = [s \in Screen |-> {}]
    /\ timer = [s \in Screen |-> 0]
    /\ live = [s \in Screen |-> {}]
    /\ quote = None
    /\ prefs = [o \in Orders |-> None]

-----------------------------------------------------------------------------
(* A screen is pushed and loads.  Main.storyboard enables only the         *)
(* "water is boiling" button.                                              *)
ViewDidLoad(s, o) ==
    /\ top = None
    /\ key[s] = None
    /\ top' = s
    /\ key' = [key EXCEPT ![s] = o]
    /\ cookTime' = [cookTime EXCEPT ![s] = StartTime(o)]
    /\ label' = [label EXCEPT ![s] = StartTime(o)]
    /\ enabled' = [enabled EXCEPT ![s] = {"boiling"}]
    /\ UNCHANGED <<timer, live, quote, prefs>>

\* Mutant of InFront: the alert does not cover the screen.
OnTop(s) == top = s

\* The screen s takes touches: it is on top and no alert covers it.
InFront(s) == top = s /\ quote = None

(* saveAsPreffered: the alert quotes the text of the label.                *)
SaveAsPreferred(s) ==
    /\ InFront(s)
    /\ quote' = label[s]
    /\ UNCHANGED <<top, screenVars, prefs>>

\* Mutant of SaveYes: the recommended time is stored.
SaveYesRecommended(s) ==
    /\ top = s
    /\ quote # None
    /\ prefs' = [prefs EXCEPT ![key[s]] = timeForEggs(key[s])]
    /\ quote' = None
    /\ UNCHANGED <<top, screenVars>>

(* "Yes": saveUserPreserence stores what cookTime is by now.               *)
SaveYes(s) ==
    /\ top = s
    /\ quote # None
    /\ prefs' = [prefs EXCEPT ![key[s]] = cookTime[s]]
    /\ quote' = None
    /\ UNCHANGED <<top, screenVars>>

SaveNo(s) ==
    /\ top = s
    /\ quote # None
    /\ quote' = None
    /\ UNCHANGED <<top, screenVars, prefs>>

\* An assignment to cookTime and the updateTimeLabel that follows it.
SetTime(s, t) ==
    /\ cookTime' = [cookTime EXCEPT ![s] = t]
    /\ label' = [label EXCEPT ![s] = t]

(* Minus and plus have no limit of their own.                              *)
MinusTapped(s) ==
    /\ InFront(s)
    /\ cookTime[s] > MinTime
    /\ SetTime(s, cookTime[s] - 1)
    /\ UNCHANGED <<top, key, enabled, timer, live, quote, prefs>>

PlusTapped(s) ==
    /\ InFront(s)
    /\ cookTime[s] < MaxTime
    /\ SetTime(s, cookTime[s] + 1)
    /\ UNCHANGED <<top, key, enabled, timer, live, quote, prefs>>

\* Mutant of EggsInPotTapped: the tapped button stays enabled.
PotStaysEnabled(s) ==
    /\ InFront(s)
    /\ "pot" \in enabled[s]
    /\ enabled' = [enabled EXCEPT ![s] = @ \cup {"start"}]
    /\ UNCHANGED <<top, key, cookTime, label, timer, live, quote, prefs>>

WaterIsBoilingTapped(s) ==
    /\ InFront(s)
    /\ "boiling" \in enabled[s]
    /\ enabled' = [enabled EXCEPT ![s] = (@ \ {"boiling"}) \cup {"pot"}]
    /\ UNCHANGED <<top, key, cookTime, label, timer, live, quote, prefs>>

EggsInPotTapped(s) ==
    /\ InFront(s)
    /\ "pot" \in enabled[s]
    /\ enabled' = [enabled EXCEPT ![s] = (@ \ {"pot"}) \cup {"start"}]
    /\ UNCHANGED <<top, key, cookTime, label, timer, live, quote, prefs>>

(* startTimerTapped, with timerForEggs: the button is left enabled, and    *)
(* "timer" is overwritten without invalidating the one it held.            *)
StartTimerTapped(s) ==
    /\ InFront(s)
    /\ "start" \in enabled[s]
    /\ timer[s] < MaxTimers
    /\ enabled' = [enabled EXCEPT ![s] = @ \cup {"start"}]
    /\ timer' = [timer EXCEPT ![s] = @ + 1]
    /\ live' = [live EXCEPT ![s] = @ \cup {timer[s] + 1}]
    /\ UNCHANGED <<top, key, cookTime, label, quote, prefs>>

\* Mutants of SecondPassed: the last second is not counted; the timer is not
\* invalidated.
StopsEarly(s, t) ==
    /\ t \in live[s]
    /\ IF cookTime[s] > 1
       THEN SetTime(s, cookTime[s] - 1) /\ live' = live
       ELSE /\ live' = [live EXCEPT ![s] = @ \ {timer[s]}]
            /\ UNCHANGED <<cookTime, label>>
    /\ UNCHANGED <<top, key, enabled, timer, quote, prefs>>

NeverStops(s, t) ==
    /\ t \in live[s]
    /\ cookTime[s] > 0
    /\ SetTime(s, cookTime[s] - 1)
    /\ UNCHANGED <<top, key, enabled, timer, live, quote, prefs>>

(* secondPassed, called by the live timer t of s.  When the time is up it  *)
(* invalidates the timer the property holds, whichever timer called.       *)
SecondPassed(s, t) ==
    /\ t \in live[s]
    /\ IF cookTime[s] > 0
       THEN SetTime(s, cookTime[s] - 1) /\ live' = live
       ELSE /\ live' = [live EXCEPT ![s] = @ \ {timer[s]}]
            /\ UNCHANGED <<cookTime, label>>
    /\ UNCHANGED <<top, key, enabled, timer, quote, prefs>>

(* The navigation bar's back button.  The screen is popped; its timers     *)
(* are not touched, and as long as there are any they keep it alive.       *)
Back(s) ==
    /\ InFront(s)
    /\ top' = None
    /\ UNCHANGED <<screenVars, quote, prefs>>

(* A popped screen without timers has no owner and is deallocated; the     *)
(* instance s then stands for a later one.                                 *)
Deallocate(s) ==
    /\ top # s
    /\ key[s] # None
    /\ live[s] = {}
    /\ key' = [key EXCEPT ![s] = None]
    /\ cookTime' = [cookTime EXCEPT ![s] = 0]
    /\ label' = [label EXCEPT ![s] = 0]
    /\ enabled' = [enabled EXCEPT ![s] = {}]
    /\ timer' = [timer EXCEPT ![s] = 0]
    /\ UNCHANGED <<top, live, quote, prefs>>

(* The process ends, whatever it was doing, and is launched again: only    *)
(* UserDefaults is left.                                                   *)
Relaunch ==
    /\ top' = None
    /\ key' = [s \in Screen |-> None]
    /\ cookTime' = [s \in Screen |-> 0]
    /\ label' = [s \in Screen |-> 0]
    /\ enabled' = [s \in Screen |-> {}]
    /\ timer' = [s \in Screen |-> 0]
    /\ live' = [s \in Screen |-> {}]
    /\ quote' = None
    /\ UNCHANGED prefs

-----------------------------------------------------------------------------
Tapped(s) ==
    \/ SaveAsPreferred(s)
    \/ SaveYes(s)
    \/ SaveNo(s)
    \/ MinusTapped(s)
    \/ PlusTapped(s)
    \/ WaterIsBoilingTapped(s)
    \/ EggsInPotTapped(s)
    \/ StartTimerTapped(s)

Tick(s) == \E t \in live[s] : SecondPassed(s, t)

Next ==
    \/ \E s \in Screen :
          \/ \E o \in Orders : ViewDidLoad(s, o)
          \/ Tapped(s)
          \/ Tick(s)
          \/ Back(s)
          \/ Deallocate(s)
    \/ Relaunch

(* The run loop of an application in the foreground fires every scheduled  *)
(* timer again and again.  Nothing is assumed of the user.                 *)
Ticks(s) == WF_vars(Tick(s))

Fairness == \A s \in Screen : Ticks(s)

Spec == Init /\ [][Next]_vars /\ Fairness

-----------------------------------------------------------------------------
(* What the label shows is the time that is left, on every screen in       *)
(* memory and after every path that assigns cookTime (:32, :60, :64, :121, *)
(* :198).                                                                  *)
LabelShowsTime == \A s \in Screen : key[s] # None => label[s] = cookTime[s]

(* The time the save alert quotes and the time "Yes" would store drift     *)
(* apart in one way only: a timer was started on the screen, and it has    *)
(* counted down, not below zero, while the alert was up (:44-57,:196-203). *)
QuoteDrift ==
    quote # None =>
        /\ top # None
        /\ cookTime[top] <= quote
        /\ cookTime[top] # quote => timer[top] # 0 /\ cookTime[top] >= 0

(* The eggs were prepared before they were timed: a timer only ever runs   *)
(* on a screen whose water boiled and whose eggs went in, and neither step *)
(* can be taken again (:67-84).                                            *)
PreparedBeforeTimed ==
    \A s \in Screen : live[s] # {} => enabled[s] = {"start"}

(* A timer belongs to a screen in memory on which one was started, the     *)
(* screen on top is in memory, and the three step buttons are enabled one  *)
(* after the other.  With this the invariants above are inductive.         *)
ScreensAreKept ==
    /\ top # None => key[top] # None
    /\ \A s \in Screen :
          /\ key[s] = None => live[s] = {}
          /\ live[s] # {} => timer[s] # 0
          /\ enabled[s] \in {{}, {"boiling"}, {"pot"}, {"start"}}

(* A screen that was popped, though its timers go on, never writes a       *)
(* preference, and the screen on top writes only its own order's (:116).   *)
OnlyTopScreenSaves ==
    [][\A o \in Orders :
          prefs'[o] # prefs[o] =>
             /\ top # None
             /\ key[top] = o
             /\ prefs'[o] = label[top]]_vars

(* A countdown is not cut short: a timer stops because its time is up, or  *)
(* with the process (:196-203).                                            *)
StopsWhenTimeIsUp ==
    [][\A s \in Screen :
          live'[s] # live[s] =>
             \/ live[s] \subseteq live'[s]
             \/ cookTime[s] <= 0
             \/ Relaunch]_vars

(* If the user leaves a screen alone from some point on, the timer its     *)
(* "timer" property holds comes to an end, also after the screen was       *)
(* popped and with several timers running (:196-203).                      *)
LatestTimerStops ==
    \A s \in Screen :
        <>[][~Tapped(s)]_vars => (timer[s] \in live[s] ~> timer[s] \notin live[s])

(* The alert of CookEggsViewController.swift:46-47, "Do you want to save?  *)
(* \(time) as your prefered time": what "Yes" stores is the quoted time.   *)
SavesWhatItQuotes ==
    [][\A o \in Orders : prefs'[o] # prefs[o] => prefs'[o] = quote]_vars

=============================================================================
