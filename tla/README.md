# A verification project for IOS-Applications

The repository is a collection of small iOS applications, written in Swift while
learning app development (`README.md`: "Small applications to learn App
Development"). Each is a program of its own: a few view controllers on the main run
loop, sometimes a store (UserDefaults, Core Data) or a service behind callbacks
(Firestore, Firebase Auth, HTTP). There are no tests and no documentation beyond
comments, storyboard texts and alert texts. RNDM and SnapFun also vendor CocoaPods,
about 650,000 lines of C, C++ and Objective-C. Of these, the Firestore client is where RNDM's
own behaviour is decided, and the parts of it that RNDM depends on are modelled too.

What is hard in such programs is not computation but order: callbacks that come
after the user has moved on, timers that outlive their screen, two listeners that
both think they own a list, an alert that quotes a value which changes under it.
That is what the models are about.

## Inventory

| Component | State it keeps | Operations | What makes it correct |
|---|---|---|---|
| **Egg Timer**, selection (`ViewController.swift`) | chosen size and kind, highlighted buttons, running animations | tap, animation completion, "cook", alert | what is highlighted is what is stored; the order pushed is the one shown |
| **Egg Timer**, cooking (`CookEggsViewController.swift`) | seconds left, label, step buttons, timers, save alert; UserDefaults | load, save/yes/no, plus, minus, three steps, `secondPassed`, back | the saved time is the agreed one, for the right order; the countdown is not cut short and ends |
| **RNDM**, list (`MainViewController.swift`) | selected category, rows, one listener registration | appear, change category, snapshot, error | rows are those of the selection, none twice, and catch up with the store |
| **RNDM**, composer (`ThoughtViewController.swift`, `Thought.swift`) | name, category | edit, post, completion | closes by itself only for a thought of its own that is stored; is answered, one way or the other |
| **RNDM**, Firestore client (vendored `FirebaseFirestore`): views and listeners (`event_manager.cc`, `query_listener.cc`, `sync_engine.cc`) | listeners, local store, pending mutations, worker queue, main queue | listen, remove, write; watch, acknowledge, reject, offline/online | snapshots are in order and complete; a removed listener is silent |
| **RNDM**, Firestore client: remote store (`remote_store.cc`, `stream.cc`, `write_stream.cc`, `grpc_stream.cc`, `online_state_tracker.cc`) | two streams with token, back-off and idle timer; targets; write pipeline; requests and responses on the wire; the state of the connection | listen, write, network on and off, credential change; tokens, failures, timers, responses, refusals | every write is answered once, in order, by its own response; nothing needed stands still; the state of the connection does not stay unknown |
| **Bitcoint Price Tracker** | stored currency codes, the codes and prices of the list, the codes of the sheet, requests in flight | appear, refresh, delete, add, answers of two services | no stored code is lost; the deleted row is the one shown; rows catch up |
| **Image_Collector** | Core Data context, the fetched list, cells | appear, add, delete, save | the list is the store's content; nothing stays unsaved |
| **SnapFun** | mode of the form, calls to Firebase Auth | toggle, submit, completion | the form says what submitting will do |
| **Joke Bank App**, **Roboty** | a list filled by one asynchronous load | load, select | a row that is tapped exists |
| **BeerMi**, **GuessRandomNumber**, **TalkToMe**, playgrounds | a value or nothing | one tap | trivial |

The components interact only inside an application: the two screens of Egg Timer
through the push and UserDefaults; RNDM's screens through navigation
(`viewWillAppear`) and the one Firestore client; the price tracker's list and sheet
through UserDefaults only.

Nothing runs in parallel in the Swift code: every handler, completion and timer is
called on the main run loop, so a handler is one atomic action. What interleaves are
handlers of different origin (user, timer, callback), the vendored client's worker
queue, the backend, and the end of the process at any moment.

## Modules

| Module | Models | Built from |
|---|---|---|
| `EggSelection` | the first screen of Egg Timer | |
| `CookEggs` | the cook screens, one state per instance, and UserDefaults | |
| `EggTimerApp` | both, with navigation and relaunch | instances `Sel` and `Cook` of the two |
| `FirestoreClient` | the vendored client as RNDM uses it | |
| `ThoughtFeed` | the list, by itself from its first appearance on | extends `FirestoreClient` |
| `ThoughtComposer` | the composer | extends `FirestoreClient` |
| `Rndm` | RNDM with navigation and relaunch | extends `ThoughtFeed`, `ThoughtComposer` |
| `Stream` | the state machine the client's two streams share, as operators on a record | |
| `OnlineStateTracker` | what the client believes of its connection, likewise | |
| `WriteQueue` | abstract: what the client promises of its writes | |
| `RemoteStore` | the remote store: both streams, the pipeline, the backend at the other end, the network, relaunch | extends `WriteQueue`, `Stream`, `OnlineStateTracker`; implements `WriteQueue` |
| `PriceTracker` | the price tracker: list, sheet, UserDefaults, price service | |
| `MCCookEggs`, `MCThoughtFeed`, `MCRndm` | constants for TLC | |
| `EggSelectionProofs`, `CookEggsProofs`, `EggTimerAppProofs`, `ThoughtFeedProofs`, `RndmProofs`, `PriceTrackerProofs`, `WriteQueueProofs`, `RemoteStoreProofs` | theorems | |

`FirestoreClient` and `RemoteStore` look at one client from two sides. The first keeps the views and listeners
and treats the backend as one party that commits, brings and refuses. The second has the way a write takes
to that party and the state of the connection, and knows documents only as numbered batches. A step `Acknowledge` or
`RejectWrite` of the first is a step `MutationResult` or `WriteStreamRefused` of the second.
They are not composed: the queue that `WriteQueue` promises is what `FirestoreClient` assumes of its outbox. That includes
writes that are committed before the first is answered (`Commit`), and a committed write that is answered with an
error (`RejectWrite`): a later refusal overtook its reply, or its reply was lost and it was refused when it was sent again.
What `FirestoreClient` does not keep is which refusal that was; there an error can be the answer to any write.

Names of variables and actions follow the Swift properties and handlers, including
`thoughsList`. An operator whose comment begins with "Mutant of" is the named
definition with a plausible mistake in it; no specification uses it. Each checked
property is known to fail for one of them.

How handlers become actions: an action is a whole handler, up to its return to the
run loop, with everything it calls. A guard is an early return, an enabled button, or
what UIKit lets through (only the top of a navigation stack, or a presented alert or
sheet, is touched). A closure handed to UIKit, Alamofire or Firestore is an action of
its own, enabled once it can be called. Layout, gradients, fonts, wording and the
text of thoughts are left out. Each module's comments name the lines where the
correspondence is not plain.

### What is taken from the platform

These are properties of code that is not in the repository, read off how the code uses it:

- Handlers, timers and completions run one at a time on the main run loop. A
  scheduled `Timer` retains its target, so a popped cook screen with a timer stays in memory.
- `UIView.animate` blocks touches on the animated button only; completions of
  different buttons come in any order.
- Going back is the whole pop: a swipe that is cancelled half-way (which would
  call `viewWillAppear` of the list without a pop) is not modelled.
- The price tracker's sheet is a card (`modalPresentationStyle="pageSheet"`) that is
  swiped away, so its presenter does not appear again.
- `UserDefaults` and Firestore's local store survive the process. A Swift `Set` has
  any order after a change. An index out of range ends the process.
- The price service answers for the codes it knows and sends an error document when it
  is asked for none. The Firestore backend commits or refuses each write, and delivers what it
  committed to a listener that is connected; other clients may add thoughts at any time.
- The backend takes the requests of a call in order until it refuses one, and answers each one it
  took; a response says nothing of which request it is for. It may commit again what it has
  committed before. Requests of a call that the client has ended are no longer taken.
- Batch numbers are not reused. (The code finds the next number from the queue on disk, so it can
  reuse the number of the last batch when the process ends just after that batch was answered.)
- In `FirestoreClient`, `acked` holds a written document until watch brings it. This is
  how the vendored local store keeps showing an acknowledged document.

## Runs

| Run | Question | Result |
|---|---|---|
| `egg_selection` | Is what is white what is stored, and what is stored what is passed on, with animations overlapping in any order? | holds |
| `cook` | Who writes which preference, with two screens, popped screens that still tick, alerts and relaunches? Does a countdown that is left alone end, and only then? | only the screen on top, for its order; yes |
| `cook_quote` | Does "Yes" store the time the alert quotes? | **no**, see findings |
| `egg_app` | Does the application implement both screens, and save for the order it was opened for? | holds |
| `feed` | Are the rows those of the selection, once each, when category changes race snapshots and errors, and do they come to be the backend's? | yes |
| `rndm_safety` | With leaked listeners, late answers, rejected writes and relaunches: whose result are the rows, and when does the composer close? | holds |
| `rndm_posts` | Can a posted thought disappear without a word, and can a composer wait for ever? | only with an error that its composer is told; no, while connected: each post closes it or is told an error, which does not mean that the thought was not stored |
| `rndm_listeners` | Is a replaced listener removed? | **no**, see findings |
| `rndm_name` | Does every post carry a name somebody entered? | **no**, see findings |
| `price_tracker` | What can the list, the sheet and the store disagree on, when is an index out of range, and do the rows catch up? | only on what was just added; only on stale rows; yes, if the service comes to answer |
| `remote_store` | With streams that fail, idle and restart, late tokens, refusals that overtake replies, and relaunches: is each write answered once and in order, is one rejected only for cause, and is nothing left that no handler takes up? | yes; for a cause, which may be the refusal of a later write, see below; nothing |
| `remote_unknown` | Does the state of the connection end being unknown, as its tracker's comment says? | **no**, see findings |

### Bounds

Every bound is a CONSTANT or a set given in a `.cfg`.

- `HalfMinute = 1` scales the times of the cook screens: the code's constants are
  multiples of 30 seconds, so recommendations become 6 and 9 steps instead of 180 and
  270, and plus and minus remain one step. `MinTime = -1` and
  `MaxTime` cap what minus and plus reach (the code has no limit); below zero is inside, because the
  code behaves differently there. `egg_app` uses 4 to 9, as the limits at zero are the subject of `cook`.
- `MaxTimers = 2`: start stays enabled, so any number of timers may run; two are enough for one
  that is not the latest. `Screen` of two: one open, one popped and still ticking.
- `EggTimerApp` has two sizes and one kind, which is enough to have a wrong order.
- RNDM: two thoughts of two categories (`f1` funny, `s1` serious), so there is one to show and one not to
  show for each selection. `MaxListeners` counts
  registrations since launch: three allow a leaked one beside a category change and a second
  appearance; the other runs of `Rndm` use two. Two composers are
  interchangeable, and `rndm_safety` uses that as symmetry.
- The price tracker has the USD, one more code and the placeholder: up to three rows, so the
  middle one can be deleted and the order can change. Two requests are the least that can be
  answered out of order.
- `RemoteStore`: `Capacity = 3` with `MaxWrites = 4`, so that the pipeline fills, holds back a write and is filled again
  by an answer, and so that a refused batch can have both an unread reply before it and a later request
  behind it (`ending = "next"`). One target is enough: the code only asks whether there is any.
  `remote_unknown` needs no writes and takes one of each. The code's capacity is 10; the theorems hold for any.
- `Stream` has no counter: `close_count_` only tells whether a token was asked for before the last close,
  which `asked` records. `OnlineStateTracker` has `kMaxWatchStreamFailures = 1`, as in the code.

### Fairness

Nothing is ever assumed of the user, of relaunches, or of failures. Assumed, weakly, are:

- `CookEggs`: a scheduled timer goes on firing (the run loop of an application in the
  foreground), and `EggSelection`: animations complete.
- `ThoughtFeed`, `Rndm`: the worker queue and the main queue are served, and a client that
  stays connected is brought what it listens to and has its oldest write answered, by an acknowledgement
  or by an error (that it is ever committed is not assumed). The two properties about the backend have "from some point on connected" as a premise, as the code retries forever.
- `PriceTracker`: each request ends, by an answer or a time-out. `RowsCatchUp` has as premises that
  from some point on the service answers what it can and is asked again and again, since the code
  does not repeat a request by itself.
- `RemoteStore`: tokens and back-off timers come and the backend takes what it is sent (`WriteServed`, one weakly
  fair action, since each of these waits for the one before it), and what has arrived is read (`Responses`, fair by itself:
  `GrpcStream` always has a Read outstanding, `grpc_stream.cc:295-302`). `WritesAreAnswered` has as premises that from some point
  on the network stays enabled and the write stream is not disturbed by failures, credential changes or
  relaunches; the watch stream may do as it likes. `EnabledSpec`, for the finding, has the watch stream's
  tokens and back-offs and the online timer fair, and not the backend: one that stays silent is what that timer is for.

`CHECK_DEADLOCK` is never switched off: in each model something can always happen.

## Proofs

TLAPS checks these for all values of the constants, from the named assumptions
of each module (`SelectionAssumption`, `CookAssumption`, `AppAssumption`, which is these two together, `ClientAssumption`,
`ComposerAssumption`, `CodesAssumption`, `WriteAssumption`, `RemoteAssumption`), which only say that sets are disjoint from `None`, finite, or that bounds are numbers.

### Safety

- `EggSelectionProofs`: `TypeOK` with `HighlightExplained` is inductive: a white
  button is either stored or its own animation is still pending. The action property follows,
  as with nothing pending only stored buttons are white. Every run-time property of the screen is proved, `TapTakesEffect` too.
- `CookEggsProofs`: `CookInv`, five state invariants together, of which two (`LabelShowsTime`, `ScreensAreKept`) are there only for the others. `QuoteDrift` alone is not inductive:
  it needs that the label shows the time (what the alert quotes is the label), and that a timer
  that is running is known to its screen (`ScreensAreKept`). `StopsWhenTimeIsUp` and `OnlyTopScreenSaves` follow from it.
- `EggTimerAppProofs`: the application implements each screen's module (initial states
  and steps), so what is proved of a screen carries over; and the
  screen on top cooks the order that was current when it was pushed. With that, what the screen saves is saved for
  that order (`SavesForTheOrder`). The theorems of both screens are taken over through instances of their proof modules
  (`AppHighlightExplained`, `AppCookingStaysSound`, `AppStopsWhenTimeIsUp`), and two say what only the whole application can
  promise: a cook screen is opened for the choices that are white, and what is stored for an order is the time on the label
  of the screen opened for it.
- `ThoughtFeedProofs`: `FeedInv` says of every snapshot on its way that its documents match the query
  it was listened with, and of every registration not muted that it is the last one and made for the
  selected category. That a late snapshot cannot bring another category needs both. `ShowInv` adds that the last
  snapshot on its way for the last registration has the documents the local store has now or, if none is on its way, that the
  rows are those. It is kept because an event is due whenever the documents of a view change (`ViewTellsResult`), and it is
  `QuietRowsAreCurrent` when the queues are empty. The views of this module only grow, so a listener is told nothing
  twice: the snapshots on their way for it grow strictly, and each registration is listened to once (`FeedTellsNothingTwice`).
  Registration and size of the documents therefore tell the entries of the main queue apart, and both queues are bounded
  by `MaxListeners` and the number of thoughts (`FeedQueuesAreBounded`), although nothing in the code limits them.
- `RndmProofs`: `PostInv` follows a post from the worker queue through the outbox to its answer: whatever carries the name of a
  composer was posted by that composer in this process, and a positive answer is about a thought that is on the backend. So a composer
  closes by itself only for a thought of its own that is stored. It also says that what the local store shows of the backend is on the
  backend, so that neither what watch brings nor an acknowledgement takes anything away: only an error does, and since a write is
  pending under the composer that posted it (`OnceInv`), the error goes there (`AnswerReachesMain`, `LostThoughtsAreReported`). `KeptInv` is `ShowInv` for several listeners:
  each one's last snapshot on its way has the current documents, and if no snapshot of any of them is on its way the rows are the
  result of one. `OnceInv` says of each thought that its write is queued, pending or answered, at most one of these and once,
  so the outbox is never longer than there are thoughts to post (`RndmOutboxIsBounded`). It does not say that the answer agrees with
  the backend: a positive one does (`PostInv`), an error need not.
- `PriceTrackerProofs`: `TrackerInv` adds to the checked invariants that the newest request in flight asks
  for the list as it is (`NewestAsksForTheList`), and that the sheet, while up, has exactly what is stored
  (`SheetKnowsTheStore`). The first makes the rows right when it is answered, whatever came before;
  the second makes overwriting the store harmless.
- `WriteQueueProofs`: `QueueInv` says that the queue is the interval of the batches written and not yet answered, so that
  "the oldest" and "the next number" mean the same thing. Acknowledged writes were committed, commits are in order, and what was rejected
  was refused, or committed before a refused write.
- `RemoteStoreProofs`: two invariants that share only `enabled`. `WatchInv` is about the watch stream and the online
  tracker. `RemoteInv` is `QueueInv` with `WriteInv`: the pipeline is a prefix of the queue, as long as `Capacity` allows
  (`FillKeeps`, `FilledKeeps`: `FillWritePipeline` makes it so from any shorter prefix), and the unread replies followed
  by the untaken requests are the pipeline. The second is why an answer without a number is for the right batch. `Refines` shows each step
  to be a step of `WriteQueue` or a stutter, so `QueueInv'` and the three properties of the queue carry over, for any number of writes and any capacity.

Every invariant and every action property of the passing runs is proved, the three refinements included.

### Liveness

The six liveness properties are proved too, from the fairness of each specification, with two reservations.

*Enabledness.* The provers take `ENABLED` as it stands and do not expand it. What weak fairness needs to know, that an action
can be taken when its guard holds, is therefore a hypothesis of each theorem, of the form `[](guard => ENABLED <<A>>_v)`:
`CompletionsCanRun`, `TicksCanRun`, `StepsCanRun`, `WorkCanRun`, `BackendCanAnswer`, `AnswersCanRun`, `RequestsCanEnd`, `WriteStepsCanRun`. Each is
a state predicate, and TLC, given it as an invariant with the constants of the run, finds it true in every state.

*Length.* Most of these properties go by a number that gets smaller: seconds left, requests in flight before the last, entries
of a queue, thoughts the backend does not have. One step of that descent is proved for every number. The provers have no induction over
temporal formulas, but two such steps make one of twice the length, and sixteen doublings reach 65536 (`Most`, `Longest`). So the
theorems are for every value of the constants up to that one, and `Most` could be any larger power of two.

| Theorem | Property | Descends by | Beyond fairness and enabledness |
|---|---|---|---|
| `SelectionTapTakesEffect` | `TapTakesEffect` | nothing: one completion | none |
| `CookLatestTimerStops` | `LatestTimerStops` | seconds left (`CookCountdownProceeds`) | times up to 65536 (`CountsAreShort`) |
| `FeedConverges` | `Converges` | the worker queue; then snapshots for the last listener; then thoughts other clients may still add | `SizesFit`: thoughts and registrations whose messages number at most 65536 |
| `RndmPostsAreAnswered` | `PostsAreAnswered` | calls before it on the worker queue (`RndmQueuedMovesUp`); then writes before it in the outbox (`RndmPendingMovesUp`); then messages before its answer (`RndmAnswerMovesUp`) | at most 65536 thoughts of this client, and a worker queue and main queue never longer (`QueuesFit`) |
| `TrackerRowsCatchUp` | `RowsCatchUp` | requests before the last (`TrackerRequestsMoveUp`) | at most 65536 requests in flight |
| `RemoteWritesAreAnswered` | `WritesAreAnswered` | writes not yet answered; for each, five stages of the stream (`RemoteOldestIsAnswered`) | at most 65536 writes |

The argument for `FeedConverges` shows where the code earns it. Once the user is idle the worker queue drains (`Drains`), and the last
listener is registered or was refused. A watch then brings its query up to date, and the view tells (`WatchFreshens`). From then on no
step puts a snapshot of this listener on the main queue unless the backend's documents change (`EmitSparesFresh`), so the ones on their way
run out and the rows are right (`NoneLeftIsShown`); a thought another client adds starts this over, but there are only so many.
For `RemoteWritesAreAnswered` the invariant is not enough: that some step is due whenever a write is pending (`RemoteWorkIsOwed`)
needs in addition that a refusal does not overtake the reply it waits for.

What TLC alone shows: that the four findings are reachable, the enabledness above, and nothing else of the runs.

## Findings

1. The save alert quotes one time and stores another (`CookEggsViewController.swift:46` and `:116`): with
   a timer running under the alert, "Yes" stores what is left.
2. `viewWillAppear` (`MainViewController.swift:92`) replaces the thought listener without removing it, although
   `:94` asks to "remember to remove them". The old one can no longer be removed and goes on replacing the rows.
3. A missing name is reported by writing "Required!" into the name field
   (`ThoughtViewController.swift:37`): the next tap posts under that name.
4. The state of the connection can stay Unknown without end (`remote_store.cc:168`), although
   `online_state_tracker.cc:45` says its timer is there so that the client need not wait indefinitely: when the last target is
   removed while the watch stream is starting the timer is cleared, and the target added next does not start it again. RNDM
   does exactly this when the category is changed before the stream is up. While the backend stays silent a new listener gets no initial event.

Met on the way, without a statement in the repository to hold against it: codes added on the price tracker's
sheet are lost when a row is deleted before Refresh is tapped; deleting the last row twice before an answer
traps; "Label" can be stored as a currency; Popular shows nothing after
the composer was opened from it; two sizes tapped within one animation leave none white; `ProcessTargetError` leaves an open
watch stream without targets that is not marked idle; a document that enters limbo, leaves it and enters it again is queued for
resolution twice (`sync_engine.cc:531`).

One more does have a statement against it, a comment of the vendored client. When a request written after a refused one fails, the
status of the refusal overtakes replies that have arrived (`grpc_stream.cc:313`), and `HandleWriteError` rejects the oldest batch, which
was committed, although "the request itself was the problem" (`remote_store.cc:494`). No run shows the comment violated; instead
`RejectedForCause` says what is left of it: the rejected batch was refused, or committed with a later one refused. For RNDM such an
error means that the composer stays open over a thought that is stored (`ThoughtViewController.swift:42`), that its row
disappears until watch brings it, and that Post tapped again adds it twice. `rndm_posts` includes this. The hazards
in `PROJECT.json` give the lines, and the properties say what does hold.

## Not modelled, and why

- Image_Collector: every handler saves and fetches synchronously in one Core Data context on the main queue, so the
  list is what was saved by construction. The one asynchronous part, what `NSPersistentCloudKitContainer` imports, is platform code that
  the application neither observes nor configures; a failed save ends the process (`AppDelegate.swift:76`).
- SnapFun: one flag, and two calls to Firebase Auth whose results are only printed. Calls may overlap, but no state of
  the program depends on which ends last.
- Joke Bank App and Roboty fill one list once; Roboty does not compile (`CharacterDetailViewController` has a
  property without a value) and lacks its data file. BeerMi, GuessRandomNumber, TalkToMe and the playgrounds
  have no state worth a model.
- Of the vendored Pods, which are nearly all of the repository's lines, only the parts of Firestore that decide what RNDM shows and stores
  are modelled. Left out of it: limbo resolution with the watch change aggregator and existence filters
  (RNDM's few documents seldom get there), limits, metadata events, transactions, a change of user
  and garbage collection (RNDM uses none of them), stream tokens, and the wire protocol. The transport, cryptography and storage libraries
  below it (gRPC, BoringSSL, leveldb, abseil, nanopb) are third-party code that RNDM reaches only through Firestore.

## Plan

Done, in the order of importance: `CookEggs`, `EggSelection`, `EggTimerApp`; `FirestoreClient`, `ThoughtFeed`,
`ThoughtComposer`, `Rndm`; `PriceTracker`; `WriteQueue`, `Stream`, `OnlineStateTracker`, `RemoteStore`; and the proof modules above.

What would add most from here, modules:

1. `LimboResolution`: limbo documents, the queue of resolutions and the watch change aggregator (`sync_engine.cc:440-560`,
   `watch_change.cc`), whose targets share the watch stream of `RemoteStore`.
2. The composition of the two views of the client through `WriteQueue`, so that an error in `FirestoreClient` has the refusal
   that caused it.
3. `Countdown`, an abstract specification of a cook screen (a time that is agreed, then only runs down), and `MirroredStore`,
   implemented by the list of RNDM and that of the price tracker with requests and queues as the hidden part.

Proofs:

1. A bound on the queues of `Rndm` in place of `QueuesFit`. The argument of `FeedQueuesAreBounded` does not carry over: a refused write
   takes a thought from the views again, so the snapshots for a listener need not grow. What does get smaller is the number of
   changes the views can still see.
2. What is proved of `ThoughtFeed` is proved of the list before the composer is opened, and `RndmProofs` starts anew. Stating
   both over one invariant of `FirestoreClient` would let a further screen reuse it. Of `Rndm` it remains to prove that no thought is
   shown twice and that every update is one of a listener that was kept.
3. That the outbox of `Rndm` implements `WriteQueue`, with the numbers of the batches as a history variable.
