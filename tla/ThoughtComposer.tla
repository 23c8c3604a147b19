-------------------------- MODULE ThoughtComposer ---------------------------
(***************************************************************************)
(* The screen that adds a thought: ThoughtViewController.swift.  A new     *)
(* instance is pushed each time; one that was popped lives on until the    *)
(* completions of its writes were called.  The text of a thought is left   *)
(* out; its user name is kept as far as the code treats it specially.      *)
(***************************************************************************)
EXTENDS FirestoreClient

CONSTANTS
    Composer   \* instances of ThoughtViewController

Names == {"Ann"}
Texts == {"", "Required!"} \cup Names

ASSUME ComposerAssumption == None \notin Composer \cup Texts

VARIABLES
    screen,    \* the composer on top of the list; None: the list itself
    opened,    \* composers pushed so far by this process
    username,  \* usernameText.text of the composer on top
    segment,   \* selectedCategory of the composer on top
    author,    \* author[d]: the field "username" of own thought d, or None
    postedBy   \* postedBy[d]: the composer that added d in this process

composerVars == <<screen, opened, username, segment, author, postedBy>>

ComposerTypeOK ==
    /\ screen \in opened \cup {None}
    /\ opened \in SUBSET Composer
    /\ username \in Texts
    /\ segment \in Categories
    /\ author \in [Mine -> Texts \cup {None}]
    /\ postedBy \in [Mine -> Composer \cup {None}]

ComposerInit ==
    /\ screen = None
    /\ opened = {}
    /\ username = ""
    /\ segment = "Funny"
    /\ author = [d \in Mine |-> None]
    /\ postedBy = [d \in Mine |-> None]

-----------------------------------------------------------------------------
(* The storyboard's "show" segue pushes a new instance; nothing reads the  *)
(* fields of an earlier one again.                                         *)
OpenComposer(c) ==
    /\ screen = None
    /\ c \notin opened
    /\ screen' = c
    /\ opened' = opened \cup {c}
    /\ username' = ""
    /\ segment' = "Funny"
    /\ UNCHANGED <<author, postedBy>>

(* The user begins to edit the name, which empties it                      *)
(* (textFieldDidBeginEditing), and enters a name or nothing.               *)
EditUsername(c) ==
    /\ screen = c
    /\ username' \in Names \cup {""}
    /\ UNCHANGED <<screen, opened, segment, author, postedBy>>

SegmentChanged(c) ==
    /\ screen = c
    /\ segment' \in Categories \ {segment}
    /\ UNCHANGED <<screen, opened, username, author, postedBy>>

(* postTapped without a name: the field itself is made to say so.          *)
NameMissing(c) ==
    /\ screen = c
    /\ username = ""
    /\ username' = "Required!"
    /\ UNCHANGED <<screen, opened, segment, author, postedBy>>

(* postTapped with a name: addDocument is called, and the screen stays as  *)
(* it is, its button enabled, until the backend has answered.              *)
Post(c, d) ==
    /\ screen = c
    /\ username # ""
    /\ author[d] = None
    /\ Category[d] = segment
    /\ author' = [author EXCEPT ![d] = username]
    /\ postedBy' = [postedBy EXCEPT ![d] = c]
    /\ workQ' = Append(workQ, Write(c, d))
    /\ UNCHANGED <<screen, opened, username, segment>>

\* Mutants of Pops: the error is not looked at; its test is inverted.
PopsOnAnyAnswer(answer) == answer.from = screen
PopsOnError(answer) == ~answer.ok /\ answer.from = screen

(* The completion of addDocument on the main queue.  An error is printed;  *)
(* otherwise the composer pops the stack it is on: none, if it was popped  *)
(* before.                                                                 *)
Pops(answer) == answer.ok /\ answer.from = screen

PopScreen ==
    /\ screen' = None
    /\ username' = ""
    /\ segment' = "Funny"
    /\ UNCHANGED <<opened, author, postedBy>>

=============================================================================
