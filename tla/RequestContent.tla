---------------------------- MODULE RequestContent ----------------------------
(***************************************************************************)
(* What a booking request says, from the fields of the form to the row:    *)
(* the draft in the browser, its copy that goes out when submit is clicked,*)
(* the checks of page, schema and API, and the catalogue and the texts in  *)
(* force, which staff and releases change under an open form.  When and    *)
(* how often a request travels is RequestForm's and RequestIntake's part.  *)
(***************************************************************************)
EXTENDS Integers, FiniteSets, Functions

CONSTANTS
    Offerings,      \* the projects on the form
    Decide,         \* "decide in store", or a party's "not sure yet"
    Permissions,    \* the kinds of photo permission a customer may give
    NoStart,        \* no start chosen
    Unsent,         \* no submission under way
    MaxLate         \* bound: changes of the form while one is under way

Choices == Offerings \cup {Decide}
ASSUME ContentAssumption == Decide \notin Offerings /\ MaxLate \in Nat

VARIABLES
    draft,          \* the fields of the mounted form
    sending,        \* the copy of them that was submitted last, and how far it is
    late,           \* changes since submit was clicked
    offered,        \* duration of each project as the page was rendered
    catalogue,      \* duration of each project now, 0 if it is not bookable
    outdated,       \* policy or photo text was replaced since the page loaded
    verdict,        \* the answer to the last submission
    stored          \* the content of the row, or Unsent

contentVars == <<draft, sending, late, offered, catalogue, outdated, verdict, stored>>
around == <<offered, catalogue, outdated>>

DECIDE_DURATION == 2

Assigned(picks) == FoldFunction(+, 0, picks)
Picked(picks) == {c \in Choices : picks[c] > 0}

(* summarizeProjectSelection and buildOrdinaryInterval: the longest of the *)
(* projects; whoever decides in store keeps an hour.                       *)
Longest(picks, durations) ==
    LET all == {IF c = Decide THEN DECIDE_DURATION ELSE durations[c] : c \in Picked(picks)} IN
    IF all = {} THEN 0 ELSE CHOOSE d \in all : \A e \in all : e <= d

(* The page takes addresses the schema does not: "odd" stands for those.    *)
ContactFields == {"missing", "odd", "good"}

Consent == [policy : BOOLEAN, photo : Permissions \cup {"declined"}, signed : BOOLEAN]
NoConsent == [policy |-> FALSE, photo |-> "declined", signed |-> FALSE]

(* onDecisionChange.                                                       *)
Decided(consent, photo) ==
    [consent EXCEPT !.photo = photo, !.signed = @ /\ photo # "declined"]

(* validateExtras, and normalizePhotoConsent of the API.                   *)
ConsentGiven(consent) == consent.policy /\ (consent.photo = "declined" \/ consent.signed)

Underway == sending # Unsent /\ sending.stage # "answered"

(* While a submission is under way the fields stay open.  Each change      *)
(* takes the message away that is about it; what was answered is forgotten *)
(* with the first.                                                         *)
Editing ==
    /\ stored = Unsent
    /\ IF Underway THEN late < MaxLate /\ late' = late + 1 /\ UNCHANGED <<sending, verdict>>
       ELSE late' = 0 /\ sending' = Unsent /\ verdict' = "none"
    /\ UNCHANGED <<stored, around>>

ChangeConsent ==
    \E consent \in {[draft.consent EXCEPT !.policy = ~ @], [draft.consent EXCEPT !.signed = ~ @]}
            \cup {Decided(draft.consent, photo) : photo \in Permissions \cup {"declined"}} :
        /\ consent.signed => consent.photo # "declined"
        /\ draft' = [draft EXCEPT !.consent = consent]

(* onSubmit up to its first await: what is captured here is what goes out. *)
Click(stage) ==
    /\ ~ Underway /\ stored = Unsent
    /\ sending' = [stage |-> stage, draft |-> draft]
    /\ late' = 0 /\ verdict' = "none"
    /\ UNCHANGED <<draft, stored, around>>

Conclude(answer) ==
    /\ sending' = [sending EXCEPT !.stage = "answered"]
    /\ verdict' = answer
    /\ UNCHANGED <<late, around>>

-----------------------------------------------------------------------------
(* Staff edit projects, and a release replaces policy or photo text: each  *)
(* once while the form is open.                                            *)

EditProject ==
    /\ stored = Unsent /\ catalogue = offered
    /\ \E o \in Offerings, d \in 0 .. DECIDE_DURATION :
        d # catalogue[o] /\ catalogue' = [catalogue EXCEPT ![o] = d]
    /\ UNCHANGED <<draft, sending, late, offered, outdated, verdict, stored>>

ReplaceTexts ==
    /\ stored = Unsent /\ ~ outdated
    /\ outdated' = TRUE
    /\ UNCHANGED <<draft, sending, late, offered, catalogue, verdict, stored>>
=============================================================================
