----------------------------- MODULE ScheduleDesk -----------------------------
(***************************************************************************)
(* The page on which staff edits opening hours and closures.  A change that*)
(* hits reservations is refused and the page lists them; a tick under that *)
(* list, sent with the fingerprint that came with it, lets the change      *)
(* through.  ScheduleAdmin has the transactions behind it; here each is    *)
(* one step, and the form may be edited while one is under way.            *)
(***************************************************************************)
EXTENDS Naturals, FiniteSets

CONSTANTS
    Sections,       \* "weekly", "special" and "closure"
    Visits,         \* what may be reserved
    Changes,        \* what may be typed into a section
    Undone(_, _),   \* visits the week of one revision hits if saved in another
    Blank,          \* a section as it is when the form is new
    NoMark,
    MaxSaves, MaxRevisions      \* bounds

SaveKinds == Sections \cup {"delete", "switches"}
Contents == Changes \cup {Blank}
Marks == SaveKinds \X Contents \X Nat \X (SUBSET Visits) \X Nat

ASSUME ScheduleDeskAssumption == NoMark \notin Marks

VARIABLES
    reserved,       \* what is reserved
    revision,       \* edits of the schedule that were committed
    form,           \* what a section holds, its tick and its fingerprint
    page,           \* the revision the form was made from, and whether it waits
    saves,          \* requests under way, and answers
    told,           \* history: conflicts that were listed on the page
    overridden      \* history: conflicts of changes that were committed

deskVars == <<reserved, revision, form, page, saves, told, overridden>>

NewForm == [s \in Sections |-> [content |-> Blank, acknowledged |-> FALSE, mark |-> NoMark]]

DeskInit ==
    /\ reserved = {} /\ revision = 0
    /\ form = NewForm /\ page = [revision |-> 0, busy |-> "no", sent |-> 0]
    /\ saves = {} /\ told = {} /\ overridden = {}

-----------------------------------------------------------------------------
(* The form.  Buttons wait for an answer, fields do not.                   *)

patch(s, content) ==
    /\ form' = [form EXCEPT ![s] = [content |-> content, acknowledged |-> FALSE, mark |-> NoMark]]
    /\ UNCHANGED <<reserved, revision, page, saves, told, overridden>>

Acknowledge(s) ==
    /\ form[s].mark # NoMark
    /\ form' = [form EXCEPT ![s].acknowledged = ~ @]
    /\ UNCHANGED <<reserved, revision, page, saves, told, overridden>>

acknowledgement(s) ==
    IF form[s].acknowledged /\ form[s].mark # NoMark THEN form[s].mark ELSE NoMark

(* A week nobody typed into is the week of the revision it was made from.  *)
Submit(kind, content, mark) ==
    /\ page.busy = "no" /\ page.sent < MaxSaves
    /\ page' = [page EXCEPT !.busy = "saving", !.sent = @ + 1]
    /\ saves' = saves \cup {[id |-> page.sent + 1, kind |-> kind, content |-> content,
                             from |-> IF content = Blank THEN page.revision ELSE 0,
                             mark |-> mark, answer |-> "none", affected |-> {}]}
    /\ UNCHANGED <<reserved, revision, form, told, overridden>>

(* Dates are required, a week may be saved as it is.                       *)
Save(s) ==
    /\ s # "weekly" => form[s].content # Blank
    /\ Submit(s, form[s].content, acknowledgement(s))

(* What asks for no acknowledgement.                                       *)
SaveOther(kind) == Submit(kind, Blank, NoMark)

-----------------------------------------------------------------------------
(* The API.                                                                *)

(* What a change hits: a change is the set of visits in its way.  A week   *)
(* saved as it was undoes the edits made elsewhere since.                  *)
Hit(kind, content, from) ==
    {v \in reserved :
        v \in IF content # Blank THEN content
              ELSE IF kind = "weekly" THEN Undone(from, revision) ELSE {}}

(* Plausible bugs: the fingerprint leaves out the change, or what holds    *)
(* the studio.                                                             *)
FingerprintOfState(save) == <<save.kind, reserved, revision>>
FingerprintOfChange(save) == <<save.kind, save.content>>

scheduleConflictFingerprint(save) ==
    <<save.kind, save.content, save.from, reserved, revision>>

Answer(save, result) ==
    saves' = (saves \ {save}) \cup {[save EXCEPT !.answer = result]}

(* A conflict: a change, and what it hits.                                 *)
Listing(save, affected) ==
    [kind |-> save.kind, content |-> save.content, from |-> save.from, affected |-> affected]

Execute(save) ==
    /\ save.answer = "none"
    /\ LET hit == Hit(save.kind, save.content, save.from) IN
        IF hit # {} /\ save.mark # scheduleConflictFingerprint(save)
        THEN /\ saves' = (saves \ {save}) \cup
                    {[save EXCEPT !.answer = "conflict", !.affected = hit,
                                  !.mark = scheduleConflictFingerprint(save)]}
             /\ UNCHANGED <<revision, overridden>>
        ELSE /\ Answer(save, "saved")
             /\ revision < MaxRevisions
             /\ revision' = IF save.kind = "switches" THEN revision ELSE revision + 1
             /\ overridden' = overridden \cup
                    (IF hit = {} THEN {} ELSE {Listing(save, hit)})
    /\ UNCHANGED <<reserved, form, page, told>>

Fail(save) ==
    /\ save.answer = "none" /\ Answer(save, "failed")
    /\ UNCHANGED <<reserved, revision, form, page, told, overridden>>

(* Confirmations, cancellations and edits made elsewhere.                  *)
Reserve(v) ==
    /\ reserved' = IF v \in reserved THEN reserved \ {v} ELSE reserved \cup {v}
    /\ UNCHANGED <<revision, form, page, saves, told, overridden>>

EditElsewhere ==
    /\ revision < MaxRevisions /\ revision' = revision + 1
    /\ UNCHANGED <<reserved, form, page, saves, told, overridden>>

-----------------------------------------------------------------------------
(* run: what the page does with an answer.                                 *)

Current(save) == page.busy = "saving" /\ save.id = page.sent

Receive(save) ==
    /\ Current(save) /\ save.answer # "none"
    /\ saves' = saves \ {save}
    /\ page' = [page EXCEPT !.busy = IF save.answer = "saved" THEN "loading" ELSE "no"]
    /\ told' = IF save.answer = "conflict"
               THEN told \cup {Listing(save, save.affected)}
               ELSE told
    /\ form' = IF save.answer = "conflict"
               THEN [form EXCEPT ![save.kind].acknowledged = FALSE, ![save.kind].mark = save.mark]
               ELSE form
    /\ UNCHANGED <<reserved, revision, overridden>>

(* The connection breaks; the request may still arrive.                    *)
Disconnect(save) ==
    /\ Current(save)
    /\ page' = [page EXCEPT !.busy = "no"]
    /\ saves' \in IF save.answer = "none" THEN {saves, saves \ {save}} ELSE {saves \ {save}}
    /\ UNCHANGED <<reserved, revision, form, told, overridden>>

(* A schedule that differs from the one shown makes a new form; one that   *)
(* does not, or could not be loaded, only takes the ticks back.            *)
loadSchedule(loaded) ==
    /\ page.busy = "loading"
    /\ page' = [page EXCEPT !.busy = "no", !.revision = IF loaded THEN revision ELSE @]
    /\ form' = IF loaded /\ revision # page.revision THEN NewForm
               ELSE [s \in Sections |-> [form[s] EXCEPT !.acknowledged = FALSE, !.mark = NoMark]]
    /\ UNCHANGED <<reserved, revision, saves, told, overridden>>

DeskNext ==
    \/ \E s \in Sections : Save(s) \/ Acknowledge(s) \/ \E content \in Changes : patch(s, content)
    \/ \E kind \in {"delete", "switches"} : SaveOther(kind)
    \/ \E save \in saves : Execute(save) \/ Fail(save) \/ Receive(save) \/ Disconnect(save)
    \/ \E v \in Visits : Reserve(v)
    \/ \E loaded \in BOOLEAN : loadSchedule(loaded)
    \/ EditElsewhere

DeskSpec == DeskInit /\ [][DeskNext]_deskVars

-----------------------------------------------------------------------------
(* No change overrides a reservation unless the page had listed just what  *)
(* it overrides, for just that change, although fields are edited while a  *)
(* save is under way, answers are lost, and others book and edit.          *)
OverriddenAsShown == overridden \subseteq told
=============================================================================
