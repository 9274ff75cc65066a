------------------------ MODULE AdministrationProofs ------------------------
(***************************************************************************)
(* What administrators do, for any number of sections, editors, visitors,  *)
(* instances and machines: conflicts are overridden only as the page       *)
(* listed them, an entry of the catalogue is shown whole, and changing the *)
(* secrets turns no customer away.                                         *)
(***************************************************************************)
EXTENDS ScheduleDesk, SiteContent, InternalRequests, TLAPS

-----------------------------------------------------------------------------
(* The schedule page.                                                      *)

Form == [content : Contents, acknowledged : BOOLEAN,
         mark : Marks \cup {NoMark}]
Page == [revision : Nat, busy : {"no", "saving", "loading"}, sent : Nat]
SaveRequest ==
    [id : Nat, kind : SaveKinds, content : Contents, from : Nat,
     mark : Marks \cup {NoMark},
     answer : {"none", "conflict", "saved", "failed"}, affected : SUBSET Visits]

DeskTypeOK ==
    /\ reserved \in SUBSET Visits /\ revision \in Nat
    /\ form \in [Sections -> Form]
    /\ page \in Page
    /\ saves \in SUBSET SaveRequest

(* The conflict that a fingerprint stands for.                             *)
Meant(mark) ==
    [kind |-> mark[1], content |-> mark[2], from |-> mark[3],
     affected |-> {v \in mark[4] :
        v \in IF mark[2] # Blank THEN mark[2]
              ELSE IF mark[1] = "weekly" THEN Undone(mark[3], mark[5]) ELSE {}}]

(* A fingerprint that the page can send was listed with its conflicts.     *)
Listed(mark) == mark # NoMark => Meant(mark) \in told

MarksListed ==
    /\ \A s \in Sections : Listed(form[s].mark)
    /\ \A save \in saves :
        /\ save.answer = "none" => Listed(save.mark)
        /\ save.answer = "conflict" =>
            /\ save.mark # NoMark
            /\ Meant(save.mark) = Listing(save, save.affected)

DeskInv == DeskTypeOK /\ MarksListed /\ OverriddenAsShown

LEMMA DeskInitInv == DeskInit => DeskInv
<1> SUFFICES ASSUME DeskInit  PROVE DeskInv  OBVIOUS
<1>1. [content |-> Blank, acknowledged |-> FALSE, mark |-> NoMark] \in Form
  BY DEF Form, Contents
<1>2. NewForm \in [Sections -> Form] /\ \A s \in Sections : NewForm[s].mark = NoMark
  BY <1>1 DEF NewForm
<1>3. DeskTypeOK  BY <1>2 DEF DeskInit, DeskTypeOK, Page
<1>4. MarksListed  BY <1>2 DEF DeskInit, MarksListed, Listed
<1> QED  BY <1>3, <1>4 DEF DeskInit, DeskInv, OverriddenAsShown

(* Fields and ticks: a fingerprint stays where it was, or goes.            *)
LEMMA FormSteps ==
    ASSUME DeskInv, form' \in [Sections -> Form],
           \A s \in Sections : form'[s].mark \in {form[s].mark, NoMark},
           page' \in Page,
           saves' \subseteq saves,
           UNCHANGED <<reserved, revision, told, overridden>>
    PROVE  DeskInv'
<1>1. DeskTypeOK'  BY DEF DeskInv, DeskTypeOK
<1>2. MarksListed'
  <2>1. told' = told  OBVIOUS
  <2>2. ASSUME NEW s \in Sections  PROVE Listed(form[s].mark)'
    BY <2>1 DEF DeskInv, MarksListed, Listed
  <2>3. ASSUME NEW save \in saves'
        PROVE  /\ save.answer = "none" => Listed(save.mark)'
               /\ save.answer = "conflict" =>
                    /\ save.mark # NoMark
                    /\ Meant(save.mark) = Listing(save, save.affected)
    BY <2>1 DEF DeskInv, MarksListed, Listed
  <2> QED  BY <2>2, <2>3 DEF MarksListed
<1>3. OverriddenAsShown'  BY DEF DeskInv, OverriddenAsShown
<1> QED  BY <1>1, <1>2, <1>3 DEF DeskInv

LEMMA PatchKeeps ==
    ASSUME DeskInv, NEW s \in Sections, NEW typed \in Changes, patch(s, typed)
    PROVE  DeskInv'
<1>1. [content |-> typed, acknowledged |-> FALSE, mark |-> NoMark] \in Form
  BY DEF Form, Contents
<1>2. /\ form' = [form EXCEPT ![s] = [content |-> typed, acknowledged |-> FALSE, mark |-> NoMark]]
      /\ UNCHANGED <<reserved, revision, page, saves, told, overridden>>
  BY DEF patch
<1>3. form' \in [Sections -> Form] /\ \A t \in Sections : form'[t].mark \in {form[t].mark, NoMark}
  BY <1>1, <1>2 DEF DeskInv, DeskTypeOK
<1> QED  BY <1>2, <1>3, FormSteps DEF DeskInv, DeskTypeOK

LEMMA AcknowledgeKeeps ==
    ASSUME DeskInv, NEW s \in Sections, Acknowledge(s)
    PROVE  DeskInv'
<1>1. /\ form' = [form EXCEPT ![s].acknowledged = ~ @]
      /\ UNCHANGED <<reserved, revision, page, saves, told, overridden>>
  BY DEF Acknowledge
<1>2. form' \in [Sections -> Form] /\ \A t \in Sections : form'[t].mark \in {form[t].mark, NoMark}
  BY <1>1 DEF DeskInv, DeskTypeOK, Form
<1> QED  BY <1>1, <1>2, FormSteps DEF DeskInv, DeskTypeOK

LEMMA LoadScheduleKeeps ==
    ASSUME DeskInv, NEW loaded \in BOOLEAN, loadSchedule(loaded)
    PROVE  DeskInv'
<1>1. /\ page' = [page EXCEPT !.busy = "no", !.revision = IF loaded THEN revision ELSE @]
      /\ form' = NewForm
            \/ form' = [s \in Sections |-> [form[s] EXCEPT !.acknowledged = FALSE, !.mark = NoMark]]
      /\ UNCHANGED <<reserved, revision, saves, told, overridden>>
  BY DEF loadSchedule
<1>2. [content |-> Blank, acknowledged |-> FALSE, mark |-> NoMark] \in Form
  BY DEF Form, Contents
<1>3. form' \in [Sections -> Form] /\ \A t \in Sections : form'[t].mark = NoMark
  <2>1. CASE form' = NewForm  BY <1>2, <2>1 DEF NewForm
  <2>2. CASE form' = [s \in Sections |-> [form[s] EXCEPT !.acknowledged = FALSE, !.mark = NoMark]]
    <3>1. ASSUME NEW t \in Sections
          PROVE  form'[t] = [content |-> form[t].content, acknowledged |-> FALSE, mark |-> NoMark]
      BY <2>2 DEF DeskInv, DeskTypeOK, Form
    <3>2. \A t \in Sections : form[t].content \in Contents
      BY DEF DeskInv, DeskTypeOK, Form
    <3> QED  BY <2>2, <3>1, <3>2 DEF Form
  <2> QED  BY <1>1, <2>1, <2>2
<1>4. page' \in Page
  BY <1>1 DEF DeskInv, DeskTypeOK, Page
<1> QED  BY <1>1, <1>3, <1>4, FormSteps

LEMMA SubmitKeeps ==
    ASSUME DeskInv, NEW k \in SaveKinds, NEW typed \in Contents,
           NEW mark \in Marks \cup {NoMark},
           Listed(mark), Submit(k, typed, mark)
    PROVE  DeskInv'
<1> DEFINE new == [id |-> page.sent + 1, kind |-> k, content |-> typed,
                   from |-> IF typed = Blank THEN page.revision ELSE 0,
                   mark |-> mark, answer |-> "none", affected |-> {}]
<1>1. /\ DeskTypeOK /\ MarksListed /\ OverriddenAsShown
      /\ page' = [page EXCEPT !.busy = "saving", !.sent = @ + 1]
      /\ saves' = saves \cup {new}
      /\ UNCHANGED <<reserved, revision, form, told, overridden>>
  BY DEF DeskInv, Submit
<1>2. new \in SaveRequest /\ new.answer = "none" /\ new.mark = mark
  BY <1>1 DEF SaveRequest, DeskTypeOK, Page
<1> HIDE DEF new
<1>3. DeskTypeOK'
  <2> DEFINE waiting == [page EXCEPT !.busy = "saving"]
  <2>1. waiting \in Page /\ page' = [waiting EXCEPT !.sent = @ + 1]
    BY <1>1 DEF DeskTypeOK, Page
  <2> HIDE DEF waiting
  <2>2. page' \in Page  BY <2>1 DEF Page
  <2> QED  BY <1>1, <1>2, <2>2 DEF DeskTypeOK
<1>4. MarksListed'  BY <1>1, <1>2 DEF MarksListed, Listed
<1> QED  BY <1>1, <1>3, <1>4 DEF DeskInv, OverriddenAsShown

(* A change goes through over a reservation only with the fingerprint of   *)
(* the change and of what it hits: that was listed.                        *)
LEMMA ExecuteKeeps ==
    ASSUME DeskInv, NEW save \in saves, Execute(save)
    PROVE  DeskInv'
<1> DEFINE mark == scheduleConflictFingerprint(save)
           hit == Hit(save.kind, save.content, save.from)
<1>1. /\ DeskTypeOK /\ MarksListed /\ OverriddenAsShown /\ save.answer = "none"
      /\ UNCHANGED <<reserved, form, page, told>>
  BY DEF DeskInv, Execute
<1>2. /\ save \in SaveRequest /\ save.kind \in SaveKinds /\ save.content \in Contents
      /\ save.from \in Nat
  BY <1>1 DEF DeskTypeOK, SaveRequest
<1>3. /\ mark \in Marks
      /\ mark # NoMark
      /\ mark[1] = save.kind /\ mark[2] = save.content /\ mark[3] = save.from
      /\ mark[4] = reserved /\ mark[5] = revision
  BY <1>1, <1>2, ScheduleDeskAssumption DEF scheduleConflictFingerprint, DeskTypeOK, Marks
<1>4. hit \in SUBSET Visits /\ Meant(mark) = Listing(save, hit)
  BY <1>1, <1>3 DEF Hit, Meant, Listing, DeskTypeOK
<1>5. CASE hit # {} /\ save.mark # mark
  <2>1. /\ saves' = (saves \ {save}) \cup
                {[save EXCEPT !.answer = "conflict", !.affected = hit, !.mark = mark]}
        /\ UNCHANGED <<revision, overridden>>
    BY <1>5 DEF Execute
  <2>2. PICK new \in SaveRequest :
          /\ new.answer = "conflict" /\ new.affected = hit /\ new.mark = mark
          /\ new.kind = save.kind /\ new.content = save.content /\ new.from = save.from
          /\ saves' = (saves \ {save}) \cup {new}
    <3> HIDE DEF mark, hit
    <3> DEFINE a == [save EXCEPT !.answer = "conflict"]
               b == [a EXCEPT !.affected = hit]
               c == [b EXCEPT !.mark = mark]
    <3>1. [save EXCEPT !.answer = "conflict", !.affected = hit, !.mark = mark] = c
      OBVIOUS
    <3>2. /\ a \in SaveRequest /\ a.answer = "conflict"
          /\ a.kind = save.kind /\ a.content = save.content /\ a.from = save.from
      BY <1>2 DEF SaveRequest
    <3> HIDE DEF a
    <3>3. /\ b \in SaveRequest /\ b.answer = "conflict" /\ b.affected = hit
          /\ b.kind = save.kind /\ b.content = save.content /\ b.from = save.from
      BY <1>4, <3>2 DEF SaveRequest
    <3> HIDE DEF b
    <3>4. /\ c \in SaveRequest /\ c.answer = "conflict" /\ c.affected = hit
          /\ c.mark = mark /\ c.kind = save.kind /\ c.content = save.content
          /\ c.from = save.from
      BY <1>3, <3>3 DEF SaveRequest
    <3> HIDE DEF c
    <3> QED  BY <2>1, <3>1, <3>4
  <2> HIDE DEF mark, hit
  <2>3. DeskTypeOK'  BY <1>1, <2>1, <2>2 DEF DeskTypeOK
  <2>4. MarksListed'  BY <1>1, <1>3, <1>4, <2>2 DEF MarksListed, Listed, Listing
  <2> QED  BY <1>1, <2>1, <2>3, <2>4 DEF DeskInv, OverriddenAsShown
<1>6. CASE ~ (hit # {} /\ save.mark # mark)
  <2>1. /\ saves' = (saves \ {save}) \cup {[save EXCEPT !.answer = "saved"]}
        /\ revision' = (IF save.kind = "switches" THEN revision ELSE revision + 1)
        /\ overridden' = overridden \cup (IF hit = {} THEN {} ELSE {Listing(save, hit)})
    BY <1>6 DEF Execute, Answer
  <2>2. [save EXCEPT !.answer = "saved"] \in SaveRequest
        /\ [save EXCEPT !.answer = "saved"].answer = "saved"
    BY <1>2 DEF SaveRequest
  <2>3. DeskTypeOK'  BY <1>1, <2>1, <2>2 DEF DeskTypeOK
  <2>4. MarksListed'  BY <1>1, <2>1, <2>2 DEF MarksListed, Listed
  <2>5. OverriddenAsShown'
    <3>1. CASE hit = {}  BY <1>1, <2>1, <3>1 DEF OverriddenAsShown
    <3>2. CASE hit # {}
      <4>1. save.mark = mark  BY <1>6, <3>2
      <4>2. Meant(mark) \in told  BY <1>1, <1>3, <4>1 DEF MarksListed, Listed
      <4>3. Listing(save, hit) = Meant(mark)  BY <1>4
      <4> QED  BY <1>1, <2>1, <4>2, <4>3 DEF OverriddenAsShown
    <3> QED  BY <3>1, <3>2
  <2> QED  BY <2>3, <2>4, <2>5 DEF DeskInv
<1> QED  BY <1>5, <1>6

LEMMA FailKeeps ==
    ASSUME DeskInv, NEW save \in saves, Fail(save)
    PROVE  DeskInv'
<1>1. /\ DeskTypeOK /\ MarksListed /\ OverriddenAsShown
      /\ saves' = (saves \ {save}) \cup {[save EXCEPT !.answer = "failed"]}
      /\ UNCHANGED <<reserved, revision, form, page, told, overridden>>
  BY DEF DeskInv, Fail, Answer
<1>2. [save EXCEPT !.answer = "failed"] \in SaveRequest
      /\ [save EXCEPT !.answer = "failed"].answer = "failed"
  BY <1>1 DEF SaveRequest, DeskTypeOK, Page
<1>3. DeskTypeOK'  BY <1>1, <1>2 DEF DeskTypeOK
<1>4. MarksListed'  BY <1>1, <1>2 DEF MarksListed, Listed
<1> QED  BY <1>1, <1>3, <1>4 DEF DeskInv, OverriddenAsShown

(* What the page takes from an answer it has listed.                       *)
LEMMA ReceiveKeeps ==
    ASSUME DeskInv, NEW save \in saves, Receive(save)
    PROVE  DeskInv'
<1>1. /\ DeskTypeOK /\ MarksListed /\ OverriddenAsShown
      /\ saves' = saves \ {save}
      /\ page' = [page EXCEPT !.busy = IF save.answer = "saved" THEN "loading" ELSE "no"]
      /\ UNCHANGED <<reserved, revision, overridden>>
  BY DEF DeskInv, Receive
<1>2. page' \in Page
  BY <1>1 DEF DeskTypeOK, Page
<1>3. CASE save.answer # "conflict"
  <2>1. form' = form /\ told' = told  BY <1>3 DEF Receive
  <2> QED  BY <1>1, <1>2, <2>1, FormSteps DEF DeskTypeOK
<1>4. CASE save.answer = "conflict"
  <2>1. /\ told' = told \cup {Meant(save.mark)} /\ save.mark # NoMark
        /\ form' = [form EXCEPT ![save.kind].acknowledged = FALSE, ![save.kind].mark = save.mark]
    BY <1>1, <1>4 DEF Receive, MarksListed
  <2>2. /\ form' \in [Sections -> Form]
        /\ \A s \in Sections : form'[s].mark \in {form[s].mark, save.mark}
    <3>1. save.mark \in Marks \cup {NoMark}
      BY <1>1 DEF DeskTypeOK, SaveRequest
    <3> DEFINE middle == [form EXCEPT ![save.kind].acknowledged = FALSE]
    <3>2. /\ middle \in [Sections -> Form]
          /\ \A s \in Sections : middle[s].mark = form[s].mark
      <4>1. form \in [Sections -> Form]  BY <1>1 DEF DeskTypeOK
      <4>2. \A s \in Sections : /\ [form[s] EXCEPT !.acknowledged = FALSE] \in Form
                                /\ [form[s] EXCEPT !.acknowledged = FALSE].mark = form[s].mark
        BY <4>1 DEF Form
      <4> HIDE DEF Form
      <4> QED  BY <4>1, <4>2
    <3>3. form' = [middle EXCEPT ![save.kind].mark = save.mark]  BY <2>1
    <3> HIDE DEF middle
    <3> QED  BY <3>1, <3>2, <3>3 DEF Form
  <2>3. DeskTypeOK'  BY <1>1, <1>2, <2>2 DEF DeskTypeOK
  <2>4. MarksListed'
    <3>1. told \subseteq told' /\ Meant(save.mark) \in told'  BY <2>1
    <3>2. ASSUME NEW s \in Sections  PROVE Listed(form[s].mark)'
      BY <1>1, <2>2, <3>1 DEF MarksListed, Listed
    <3>3. ASSUME NEW other \in saves'
          PROVE  /\ other.answer = "none" => Listed(other.mark)'
                 /\ other.answer = "conflict" =>
                      /\ other.mark # NoMark
                      /\ Meant(other.mark) = Listing(other, other.affected)
      BY <1>1, <3>1 DEF MarksListed, Listed
    <3> QED  BY <3>2, <3>3 DEF MarksListed
  <2> QED  BY <1>1, <2>1, <2>3, <2>4 DEF DeskInv, OverriddenAsShown
<1> QED  BY <1>3, <1>4

LEMMA DeskStep == DeskInv /\ [DeskNext]_deskVars => DeskInv'
<1> SUFFICES ASSUME DeskInv, [DeskNext]_deskVars  PROVE DeskInv'  OBVIOUS
<1>1. DeskTypeOK /\ MarksListed /\ OverriddenAsShown  BY DEF DeskInv
<1>2. ASSUME NEW s \in Sections, Save(s)  PROVE DeskInv'
  <2>1. /\ form[s] \in Form /\ Listed(form[s].mark)  BY <1>1 DEF DeskTypeOK, MarksListed
  <2>2. /\ acknowledgement(s) \in Marks \cup {NoMark}
        /\ Listed(acknowledgement(s)) /\ form[s].content \in Contents /\ s \in SaveKinds
    BY <2>1 DEF acknowledgement, Form, Listed, SaveKinds
  <2> QED  BY <1>2, <2>2, SubmitKeeps DEF Save
<1>3. ASSUME NEW k \in {"delete", "switches"}, SaveOther(k)  PROVE DeskInv'
  <2>1. k \in SaveKinds /\ Blank \in Contents /\ Listed(NoMark)
    BY DEF SaveKinds, Contents, Listed
  <2> QED  BY <1>3, <2>1, SubmitKeeps DEF SaveOther
<1>4. ASSUME NEW save \in saves, Disconnect(save)  PROVE DeskInv'
  <2>1. /\ page' = [page EXCEPT !.busy = "no"] /\ saves' \subseteq saves
        /\ UNCHANGED <<reserved, revision, form, told, overridden>>
    BY <1>4 DEF Disconnect
  <2>2. page' \in Page
    BY <1>1, <2>1 DEF DeskTypeOK, Page
  <2> QED  BY <1>1, <2>1, <2>2, FormSteps DEF DeskTypeOK
<1>5. ASSUME NEW v \in Visits, Reserve(v)  PROVE DeskInv'
  <2>1. DeskTypeOK'  BY <1>1, <1>5 DEF DeskTypeOK, Reserve
  <2> QED  BY <1>1, <1>5, <2>1 DEF Reserve, DeskInv, MarksListed, Listed, OverriddenAsShown
<1>6. CASE EditElsewhere
  <2>1. DeskTypeOK'  BY <1>1, <1>6 DEF DeskTypeOK, EditElsewhere
  <2> QED  BY <1>1, <1>6, <2>1 DEF EditElsewhere, DeskInv, MarksListed, Listed, OverriddenAsShown
<1>7. CASE UNCHANGED deskVars
  <2>1. DeskTypeOK'  BY <1>1, <1>7 DEF DeskTypeOK, deskVars
  <2> QED  BY <1>1, <1>7, <2>1 DEF deskVars, DeskInv, MarksListed, Listed, OverriddenAsShown
<1> QED
  BY <1>2, <1>3, <1>4, <1>5, <1>6, <1>7, PatchKeeps, AcknowledgeKeeps, LoadScheduleKeeps,
     ExecuteKeeps, FailKeeps, ReceiveKeeps
  DEF DeskNext

(* No change overrides a reservation unless the page had listed just what  *)
(* it overrides, for just that change.                                     *)
THEOREM OverridesAreShown == DeskSpec => []OverriddenAsShown
<1>1. DeskInv => OverriddenAsShown  BY DEF DeskInv
<1> QED  BY <1>1, DeskInitInv, DeskStep, PTL DEF DeskSpec

-----------------------------------------------------------------------------
(* Content.                                                                *)

ContentTypeOK ==
    /\ content \in [Kinds -> [row : Nat, published : BOOLEAN, parts : SUBSET Nat]]
    /\ saving \in [Editors -> Saving \cup {Nothing}]
    /\ edits \in Nat
    /\ copy \in [Kinds -> Shown \cup {Nothing}]
    /\ visitor \in [Visitors -> Reading \cup {Nothing}]

Whole(view) == view.parts = {view.row}

(* Between the UPDATE and the COMMIT an editor holds the row, so what its  *)
(* DELETE saw are all the variants there are.                              *)
Locked(e) ==
    /\ At(e, "entry", "updated") \/ At(e, "entry", "replaced") => entryLock = e
    /\ At(e, "entry", "replaced") => saving[e].gone = content["entry"].parts

(* An entry is read in one statement.                                      *)
ReadWhole(v) ==
    visitor[v] # Nothing =>
        /\ visitor[v].at # "missed" => visitor[v].view \in Shown
        /\ visitor[v].kind = "entry" =>
            /\ visitor[v].at # "row"
            /\ visitor[v].at = "read" => Whole(visitor[v].view)

ContentInv ==
    /\ ContentTypeOK
    /\ Whole(content["entry"]) /\ (copy["entry"] # Nothing => Whole(copy["entry"]))
    /\ \A e \in Editors : Locked(e)
    /\ \A v \in Visitors : ReadWhole(v)

LEMMA KindFacts == "entry" \in Kinds /\ "project" \in Kinds /\ \A k \in Kinds : k = "entry" \/ k = "project"
  BY DEF Kinds

LEMMA ContentInitInv == ContentInit => ContentInv
<1> SUFFICES ASSUME ContentInit  PROVE ContentInv  OBVIOUS
<1>1. ContentTypeOK  BY DEF ContentInit, ContentTypeOK
<1>2. Whole(content["entry"]) /\ copy["entry"] = Nothing
  BY KindFacts DEF ContentInit, Whole
<1>3. \A e \in Editors : Locked(e)  BY DEF ContentInit, Locked, At
<1>4. \A v \in Visitors : ReadWhole(v)  BY DEF ContentInit, ReadWhole
<1> QED  BY <1>1, <1>2, <1>3, <1>4 DEF ContentInv

(* One editor goes on, and commits nothing of the entry.                   *)
LEMMA EditorStep ==
    ASSUME ContentInv, NEW e \in Editors, NEW next \in Saving \cup {Nothing},
           saving' = [saving EXCEPT ![e] = next], edits' \in Nat,
           content' \in [Kinds -> [row : Nat, published : BOOLEAN, parts : SUBSET Nat]],
           content'["entry"] = content["entry"],
           copy' \in [Kinds -> Shown \cup {Nothing}], copy'["entry"] \in {copy["entry"], Nothing},
           next # Nothing /\ next.kind = "entry" =>
               /\ next.at \in {"updated", "replaced"} => entryLock' = e
               /\ next.at = "replaced" => next.gone = content["entry"].parts,
           entryLock' \in {entryLock, e} \/ entryLock = e,
           entryLock' = e => entryLock \in {e, Nothing},
           UNCHANGED visitor
    PROVE  ContentInv'
<1>1. ContentTypeOK'  BY DEF ContentInv, ContentTypeOK
<1>2. Whole(content["entry"])' /\ (copy'["entry"] # Nothing => Whole(copy["entry"])')
  BY DEF ContentInv, Whole
<1>3. ASSUME NEW d \in Editors  PROVE Locked(d)'
  <2>1. CASE d = e
    <3>1. saving'[d] = next  BY <2>1 DEF ContentInv, ContentTypeOK
    <3> QED  BY <2>1, <3>1 DEF Locked, At
  <2>2. CASE d # e
    <3>1. saving'[d] = saving[d] /\ Locked(d)  BY <2>2 DEF ContentInv, ContentTypeOK
    <3>2. entryLock = d => entryLock' = d
      BY <2>2, SiteContentAssumption
    <3> QED  BY <3>1, <3>2 DEF Locked, At
  <2> QED  BY <2>1, <2>2
<1>4. \A v \in Visitors : ReadWhole(v)'  BY DEF ContentInv, ReadWhole, Whole
<1> QED  BY <1>1, <1>2, <1>3, <1>4, KindFacts DEF ContentInv

LEMMA GoFacts ==
    ASSUME ContentInv, NEW e \in Editors, saving[e] # Nothing,
           NEW to \in {"checked", "updated", "replaced", "deleted", "saved", "listed"}, Go(e, to)
    PROVE  \E next \in Saving :
            /\ saving' = [saving EXCEPT ![e] = next]
            /\ next.at = to /\ next.kind = saving[e].kind /\ next.gone = saving[e].gone
            /\ next # Nothing
<1> DEFINE next == [saving[e] EXCEPT !.at = to]
<1>1. saving[e] \in Saving  BY DEF ContentInv, ContentTypeOK
<1>2. /\ next \in Saving /\ next.at = to /\ next.kind = saving[e].kind
      /\ next.gone = saving[e].gone
  BY <1>1 DEF Saving
<1>3. next # Nothing  BY <1>2, SiteContentAssumption
<1>4. saving' = [saving EXCEPT ![e] = next]  BY DEF Go
<1> HIDE DEF next
<1> QED  BY <1>2, <1>3, <1>4

LEMMA SaveStepKeeps ==
    ASSUME ContentInv, NEW e \in Editors, SaveStep(e)
    PROVE  ContentInv'
<1> DEFINE Rows == [row : Nat, published : BOOLEAN, parts : SUBSET Nat]
<1>1. /\ ContentTypeOK /\ Whole(content["entry"])
      /\ (copy["entry"] # Nothing => Whole(copy["entry"]))
      /\ \A d \in Editors : Locked(d)
      /\ \A v \in Visitors : ReadWhole(v)
  BY DEF ContentInv
<1>2. /\ content \in [Kinds -> Rows] /\ copy \in [Kinds -> Shown \cup {Nothing}] /\ edits \in Nat
      /\ saving[e] # Nothing => saving[e] \in Saving
  BY <1>1 DEF ContentTypeOK
<1>3. ASSUME NEW k \in Kinds, NEW published \in BOOLEAN, BeginSaving(e, k, published)
      PROVE  ContentInv'
  <2> DEFINE next == [kind |-> k, n |-> edits + 1, published |-> published,
                      at |-> "checked", gone |-> {}]
  <2>1. next \in Saving /\ next.at = "checked"  BY <1>2 DEF Saving
  <2>2. saving' = [saving EXCEPT ![e] = next] /\ edits' = edits + 1
        /\ UNCHANGED <<content, entryLock, copy, visitor>>
    BY <1>3 DEF BeginSaving
  <2> HIDE DEF next
  <2>3. edits' \in Nat  BY <1>2, <2>2
  <2> QED  BY <1>2, <2>1, <2>2, <2>3, EditorStep
<1>4. CASE UpdateEntry(e)
  <2>1. /\ At(e, "entry", "checked") /\ entryLock = Nothing /\ entryLock' = e /\ Go(e, "updated")
        /\ UNCHANGED <<content, edits, copy, visitor>>
    BY <1>4 DEF UpdateEntry
  <2>2. PICK next \in Saving : /\ saving' = [saving EXCEPT ![e] = next]
                               /\ next.at = "updated" /\ next # Nothing
    BY <2>1, GoFacts DEF At
  <2> QED  BY <1>2, <2>1, <2>2, EditorStep
<1>5. CASE replaceVariants(e)
  <2> DEFINE next == [[saving[e] EXCEPT !.at = "replaced"] EXCEPT !.gone = content["entry"].parts]
  <2>1. /\ At(e, "entry", "updated") /\ entryLock = e
        /\ UNCHANGED <<content, entryLock, edits, copy, visitor>>
    BY <1>1, <1>5 DEF replaceVariants, Locked
  <2>2. content["entry"].parts \in SUBSET Nat  BY <1>2, KindFacts
  <2>3. saving' = [saving EXCEPT ![e] = next]
    <3>1. saving' = [saving EXCEPT ![e].at = "replaced", ![e].gone = content["entry"].parts]
      BY <1>5 DEF replaceVariants
    <3>2. saving \in [Editors -> Saving \cup {Nothing}]  BY <1>1 DEF ContentTypeOK
    <3> QED  BY <3>1, <3>2
  <2>4. next \in Saving /\ next.at = "replaced" /\ next.gone = content["entry"].parts
    BY <1>2, <2>1, <2>2 DEF Saving, At
  <2> HIDE DEF next
  <2> QED  BY <1>2, <2>1, <2>3, <2>4, EditorStep
<1>6. CASE CommitEntry(e)
  <2>1. /\ At(e, "entry", "replaced") /\ entryLock = e /\ entryLock' = Nothing /\ Go(e, "saved")
        /\ saving[e].gone = content["entry"].parts
        /\ content' = [content EXCEPT !["entry"] =
                [row |-> saving[e].n, published |-> saving[e].published,
                 parts |-> (@.parts \ saving[e].gone) \cup {saving[e].n}]]
        /\ UNCHANGED <<edits, copy, visitor>>
    BY <1>1, <1>6 DEF CommitEntry, Locked
  <2>2. saving[e].n \in Nat /\ saving[e].published \in BOOLEAN
    BY <1>2, <2>1 DEF At, Saving
  <2>3. content' \in [Kinds -> Rows] /\ Whole(content["entry"])'
    <3> DEFINE new == [row |-> saving[e].n, published |-> saving[e].published,
                       parts |-> (content["entry"].parts \ saving[e].gone) \cup {saving[e].n}]
    <3>1. new.parts = {saving[e].n} /\ new.row = saving[e].n /\ new \in Rows
      BY <2>1, <2>2
    <3>2. content' = [content EXCEPT !["entry"] = new]  BY <2>1
    <3> HIDE DEF new
    <3> QED  BY <1>2, <3>1, <3>2, KindFacts DEF Whole
  <2>4. PICK next \in Saving : /\ saving' = [saving EXCEPT ![e] = next]
                               /\ next.at = "saved" /\ next # Nothing
    BY <2>1, GoFacts DEF At
  <2>5. ContentTypeOK'  BY <1>1, <2>1, <2>3, <2>4 DEF ContentTypeOK
  <2>6. ASSUME NEW d \in Editors  PROVE Locked(d)'
    <3>1. CASE d = e  BY <1>1, <2>4, <3>1 DEF ContentTypeOK, Locked, At
    <3>2. CASE d # e
      <4>1. saving'[d] = saving[d]  BY <1>1, <2>4, <3>2 DEF ContentTypeOK
      <4>2. ~ At(d, "entry", "updated") /\ ~ At(d, "entry", "replaced")
        BY <1>1, <2>1, <3>2 DEF Locked
      <4> QED  BY <4>1, <4>2 DEF Locked, At
    <3> QED  BY <3>1, <3>2
  <2> QED  BY <1>1, <2>1, <2>3, <2>5, <2>6 DEF ContentInv, Whole, ReadWhole
<1>7. CASE RollBackEntry(e) \/ Abandon(e)
  <2>1. /\ saving' = [saving EXCEPT ![e] = Nothing] /\ UNCHANGED <<content, edits, copy, visitor>>
        /\ entryLock' = entryLock \/ (entryLock = e /\ entryLock' = Nothing)
    BY <1>7 DEF RollBackEntry, Abandon
  <2>2. entryLock' = e => entryLock = e  BY <2>1, SiteContentAssumption
  <2> QED  BY <1>2, <2>1, <2>2, EditorStep
<1>8. CASE UpdateProject(e) \/ DeleteStyles(e) \/ InsertStyles(e)
  <2>1. PICK new : content' = [content EXCEPT !["project"] = new] /\ new \in Rows
    <3>1. /\ saving[e] # Nothing /\ saving[e].n \in Nat
      BY <1>2, <1>8 DEF UpdateProject, DeleteStyles, InsertStyles, At, Saving
    <3>2. content["project"] \in Rows  BY <1>2, KindFacts
    <3>3. CASE UpdateProject(e)
      <4> DEFINE new == [content["project"] EXCEPT !.row = saving[e].n]
      <4>1. content' = [content EXCEPT !["project"] = new] /\ new \in Rows
        BY <3>1, <3>2, <3>3 DEF UpdateProject
      <4> HIDE DEF new
      <4> QED  BY <4>1
    <3>4. CASE DeleteStyles(e)
      <4> DEFINE new == [content["project"] EXCEPT !.parts = {}]
      <4>1. content' = [content EXCEPT !["project"] = new] /\ new \in Rows
        BY <3>2, <3>4 DEF DeleteStyles
      <4> HIDE DEF new
      <4> QED  BY <4>1
    <3>5. CASE InsertStyles(e)
      <4> DEFINE new == [content["project"] EXCEPT !.parts = @ \cup {saving[e].n}]
      <4>1. content' = [content EXCEPT !["project"] = new] /\ new \in Rows
        BY <3>1, <3>2, <3>5 DEF InsertStyles
      <4> HIDE DEF new
      <4> QED  BY <4>1
    <3> QED  BY <1>8, <3>3, <3>4, <3>5
  <2>2. /\ content' \in [Kinds -> Rows] /\ content'["entry"] = content["entry"]
    BY <1>2, <2>1, KindFacts
  <2>3. PICK to \in {"checked", "updated", "replaced", "deleted", "saved", "listed"} :
          /\ Go(e, to) /\ saving[e] # Nothing /\ saving[e].kind = "project"
          /\ UNCHANGED <<entryLock, edits, copy, visitor>>
    BY <1>8 DEF UpdateProject, DeleteStyles, InsertStyles, At
  <2>4. PICK next \in Saving : saving' = [saving EXCEPT ![e] = next] /\ next.kind = "project"
    BY <2>3, GoFacts
  <2> QED  BY <1>2, <2>2, <2>3, <2>4, EditorStep
<1>9. CASE ListKeys(e)
  <2> DEFINE keys == {k \in Kinds : copy[k] # Nothing /\ (saving[e].kind = "entry" => k = "entry")}
             next == [[saving[e] EXCEPT !.at = "listed"] EXCEPT !.gone = keys]
  <2>1. /\ saving[e] # Nothing /\ UNCHANGED <<content, entryLock, edits, copy, visitor>>
    BY <1>9 DEF ListKeys, At
  <2>2. keys \in SUBSET Kinds  OBVIOUS
  <2>3. saving' = [saving EXCEPT ![e] = next]
    <3>1. saving' = [saving EXCEPT ![e].at = "listed", ![e].gone = keys]
      BY <1>9 DEF ListKeys
    <3>2. saving \in [Editors -> Saving \cup {Nothing}]  BY <1>1 DEF ContentTypeOK
    <3> HIDE DEF keys
    <3> QED  BY <3>1, <3>2
  <2> HIDE DEF keys
  <2>4. next \in Saving /\ next.at = "listed"
    <3> DEFINE middle == [saving[e] EXCEPT !.at = "listed"]
               last == [middle EXCEPT !.gone = keys]
    <3>1. middle \in Saving /\ middle.at = "listed"  BY <1>2, <2>1 DEF Saving
    <3>2. next = last  OBVIOUS
    <3> HIDE DEF middle, next
    <3>3. last \in Saving /\ last.at = "listed"  BY <2>2, <3>1 DEF Saving
    <3> QED  BY <3>2, <3>3
  <2> HIDE DEF next
  <2> QED  BY <1>2, <2>1, <2>3, <2>4, EditorStep
<1>10. CASE DeleteKeys(e)
  <2>1. /\ copy' = [k \in Kinds |-> IF k \in saving[e].gone THEN Nothing ELSE copy[k]]
        /\ saving' = [saving EXCEPT ![e] = Nothing] /\ UNCHANGED <<content, entryLock, edits, visitor>>
    BY <1>10 DEF DeleteKeys
  <2>2. /\ copy' \in [Kinds -> Shown \cup {Nothing}] /\ copy'["entry"] \in {copy["entry"], Nothing}
    BY <1>2, <2>1, KindFacts
  <2> QED  BY <1>2, <2>1, <2>2, EditorStep
<1> QED
  BY <1>3, <1>4, <1>5, <1>6, <1>7, <1>8, <1>9, <1>10 DEF SaveStep

(* One visitor goes on; what it puts into the cache it has read whole.     *)
LEMMA VisitorStep ==
    ASSUME ContentInv, NEW v \in Visitors, NEW next \in Reading \cup {Nothing},
           visitor' = [visitor EXCEPT ![v] = next],
           next # Nothing =>
               /\ next.at # "missed" => next.view \in Shown
               /\ next.kind = "entry" =>
                   next.at # "row" /\ (next.at = "read" => Whole(next.view)),
           copy' \in [Kinds -> Shown \cup {Nothing}],
           copy'["entry"] # Nothing => Whole(copy'["entry"]),
           UNCHANGED <<content, entryLock, saving, edits>>
    PROVE  ContentInv'
<1>1. ContentTypeOK'  BY DEF ContentInv, ContentTypeOK
<1>2. Whole(content["entry"])' /\ (copy'["entry"] # Nothing => Whole(copy["entry"])')
  BY DEF ContentInv, Whole
<1>3. \A e \in Editors : Locked(e)'  BY DEF ContentInv, Locked, At
<1>4. ASSUME NEW u \in Visitors  PROVE ReadWhole(u)'
  <2>1. CASE u = v
    <3>1. visitor'[u] = next  BY <2>1 DEF ContentInv, ContentTypeOK
    <3> QED  BY <3>1 DEF ReadWhole, Whole
  <2>2. CASE u # v
    <3>1. visitor'[u] = visitor[u] /\ ReadWhole(u)  BY <2>2 DEF ContentInv, ContentTypeOK
    <3> QED  BY <3>1 DEF ReadWhole, Whole
  <2> QED  BY <2>1, <2>2
<1> QED  BY <1>1, <1>2, <1>3, <1>4, KindFacts DEF ContentInv

LEMMA VisitorKeeps ==
    ASSUME ContentInv, NEW v \in Visitors,
           ReadStep(v) \/ \E k \in Kinds : cacheGet(v, k)
    PROVE  ContentInv'
<1>1. /\ ContentTypeOK /\ Whole(content["entry"]) /\ ReadWhole(v)
      /\ copy \in [Kinds -> Shown \cup {Nothing}]
      /\ copy["entry"] # Nothing => Whole(copy["entry"])
      /\ visitor[v] # Nothing => visitor[v] \in Reading
      /\ \A k \in Kinds : content[k].row \in Nat /\ content[k].parts \in SUBSET Nat
  BY DEF ContentInv, ContentTypeOK
<1>2. ASSUME NEW k \in Kinds, cacheGet(v, k)  PROVE ContentInv'
  <2> DEFINE next == [kind |-> k, at |-> "missed", view |-> Nothing]
  <2>1. next \in Reading /\ next.at = "missed"  BY DEF Reading
  <2>2. visitor' = [visitor EXCEPT ![v] = next]
        /\ UNCHANGED <<content, entryLock, saving, edits, copy>>
    BY <1>2 DEF cacheGet
  <2> HIDE DEF next
  <2> QED  BY <1>1, <2>1, <2>2, VisitorStep
<1>3. CASE ReadRow(v)
  <2>1. /\ visitor[v] # Nothing /\ visitor[v] \in Reading
        /\ UNCHANGED <<content, entryLock, saving, edits, copy>>
    BY <1>1, <1>3 DEF ReadRow
  <2>2. CASE ~ content[visitor[v].kind].published
    <3>1. visitor' = [visitor EXCEPT ![v] = Nothing]  BY <1>3, <2>2 DEF ReadRow
    <3> QED  BY <1>1, <2>1, <3>1, VisitorStep
  <2>3. CASE content[visitor[v].kind].published
    <3> DEFINE k == visitor[v].kind
               view == View(k)
               to == IF k \in MainRowFirst THEN "row" ELSE "read"
               seen == [visitor[v] EXCEPT !.view = view]
               next == [seen EXCEPT !.at = to]
    <3>1. k \in Kinds  BY <2>1 DEF Reading
    <3>2. view \in Shown /\ (k = "entry" => Whole(view) /\ to = "read") /\ to \in {"row", "read"}
      BY <1>1, <3>1, KindFacts DEF View, Shown, Whole, MainRowFirst
    <3>3. visitor' = [visitor EXCEPT ![v] = next]
      <4>1. visitor' = [visitor EXCEPT ![v].view = view, ![v].at = to]
        BY <1>3, <2>3 DEF ReadRow
      <4>2. visitor \in [Visitors -> Reading \cup {Nothing}]  BY <1>1 DEF ContentTypeOK
      <4> HIDE DEF view, to
      <4> QED  BY <4>1, <4>2
    <3> HIDE DEF view, to
    <3>4. seen \in Reading /\ seen.kind = k /\ seen.view = view  BY <2>1, <3>2 DEF Reading
    <3> HIDE DEF seen
    <3>5. next \in Reading /\ next.kind = k /\ next.view = view /\ next.at = to
      BY <3>2, <3>4 DEF Reading
    <3> HIDE DEF next, k
    <3> QED  BY <1>1, <2>1, <3>2, <3>3, <3>5, VisitorStep
  <2> QED  BY <2>2, <2>3
<1>4. CASE ReadParts(v)
  <2>1. /\ visitor[v] # Nothing /\ visitor[v] \in Reading /\ visitor[v].at = "row"
        /\ visitor[v].view \in Shown /\ visitor[v].kind # "entry"
        /\ UNCHANGED <<content, entryLock, saving, edits, copy>>
    BY <1>1, <1>4 DEF ReadParts, ReadWhole
  <2> DEFINE k == visitor[v].kind
             view == [visitor[v].view EXCEPT !.parts = content[k].parts]
             seen == [visitor[v] EXCEPT !.view = view]
             next == [seen EXCEPT !.at = "read"]
  <2>2. k \in Kinds  BY <2>1 DEF Reading
  <2>3. view \in Shown  BY <1>1, <2>1, <2>2 DEF Shown
  <2>4. visitor' = [visitor EXCEPT ![v] = next]
    <3>1. visitor' = [visitor EXCEPT ![v].view.parts = content[k].parts, ![v].at = "read"]
      BY <1>4 DEF ReadParts
    <3>2. visitor \in [Visitors -> Reading \cup {Nothing}]  BY <1>1 DEF ContentTypeOK
    <3> QED  BY <3>1, <3>2
  <2> HIDE DEF view
  <2>5. seen \in Reading /\ seen.kind = k /\ seen.view = view  BY <2>1, <2>3 DEF Reading
  <2> HIDE DEF seen
  <2>6. next \in Reading /\ next.kind = k /\ next.view = view  BY <2>5 DEF Reading
  <2> HIDE DEF next
  <2> QED  BY <1>1, <2>1, <2>3, <2>4, <2>6, VisitorStep
<1>5. CASE cacheSet(v)
  <2>1. /\ visitor[v] # Nothing /\ visitor[v].at = "read" /\ visitor[v] \in Reading
        /\ visitor[v].view \in Shown
        /\ visitor[v].kind = "entry" => Whole(visitor[v].view)
        /\ copy' \in {copy, [copy EXCEPT ![visitor[v].kind] = visitor[v].view]}
        /\ visitor' = [visitor EXCEPT ![v] = Nothing]
        /\ UNCHANGED <<content, entryLock, saving, edits>>
    BY <1>1, <1>5 DEF cacheSet, ReadWhole
  <2>2. /\ copy' \in [Kinds -> Shown \cup {Nothing}]
        /\ copy'["entry"] # Nothing => Whole(copy'["entry"])
    BY <1>1, <2>1, KindFacts DEF Reading
  <2> QED  BY <1>1, <2>1, <2>2, VisitorStep
<1> QED  BY <1>2, <1>3, <1>4, <1>5 DEF ReadStep

LEMMA ContentStep == ContentInv /\ [ContentNext]_contentVars => ContentInv'
<1> SUFFICES ASSUME ContentInv, [ContentNext]_contentVars  PROVE ContentInv'  OBVIOUS
<1>1. ASSUME NEW k \in Kinds, Expire(k)  PROVE ContentInv'
  <2>1. /\ copy' = [copy EXCEPT ![k] = Nothing]
        /\ UNCHANGED <<content, entryLock, saving, edits, visitor>>
    BY <1>1 DEF Expire
  <2>2. /\ copy' \in [Kinds -> Shown \cup {Nothing}] /\ copy'["entry"] \in {copy["entry"], Nothing}
    BY <2>1, KindFacts DEF ContentInv, ContentTypeOK
  <2> QED
    BY <2>1, <2>2 DEF ContentInv, ContentTypeOK, Whole, Locked, At, ReadWhole
<1>2. CASE UNCHANGED contentVars
  BY <1>2 DEF contentVars, ContentInv, ContentTypeOK, Whole, Locked, At, ReadWhole
<1> QED  BY <1>1, <1>2, SaveStepKeeps, VisitorKeeps DEF ContentNext

(* An entry stands and is shown with the variants that were saved with it, *)
(* however edits overlap and wherever one of them ends.                    *)
THEOREM EntriesAreWhole == ContentSpec => []EntriesWhole
<1>1. ContentInv => EntriesWhole  BY DEF ContentInv, EntriesWhole, Whole, ReadWhole
<1> QED  BY <1>1, ContentInitInv, ContentStep, PTL DEF ContentSpec

-----------------------------------------------------------------------------
(* The signed requests.                                                    *)

Signing(s) == Rollout[s].vercel
Accepted(settings) == ToSet(settings.secrets)

(* What runs has the present settings, or those of the step before.        *)
InUse == {step, step - 1} \cap 1 .. 7

TransportTypeOK ==
    /\ step \in 1 .. 7 /\ second \in Nat /\ deployed \in Nat /\ deployed <= second
    /\ site \in [Instances -> {Signing(s) : s \in InUse}]
    /\ skew \in [Instances -> -MaxSkew .. MaxSkew]
    /\ machine \in [Machines -> {Rollout[s].fly : s \in InUse}]
    /\ turnedAway \in SUBSET Int

Call == [secret : {"old", "new"}, timestamp : Int, sent : Nat, limited : BOOLEAN]

(* A secret is used when every machine accepts it.  Once the site changes  *)
(* to the new one, what was signed with the old one was sent before the    *)
(* last deployment, or there is one to come; and the old secret is taken   *)
(* away when nothing was signed with it for as long as a signature lasts.  *)
CallOK(call) ==
    /\ call \in Call /\ Instances # {}
    /\ call.sent <= second
    /\ call.timestamp - call.sent \in -MaxSkew .. MaxSkew
    /\ step >= 3 /\ (call.secret = "new" => step >= 6)
    /\ call.secret = "old" /\ step >= 6 =>
        call.sent <= deployed \/ \E i \in Instances : site[i] = "old"

TransportInv ==
    /\ TransportTypeOK
    /\ \A call \in calls : CallOK(call)
    /\ step = 7 => second - deployed >= MAX_AGE
    /\ SignedIsServed

LEMMA RolloutFacts ==
    /\ Len(Rollout) = 7
    /\ Signing(1) = NoSecret /\ Signing(2) = NoSecret
    /\ Signing(3) = "old" /\ Signing(4) = "old" /\ Signing(5) = "old"
    /\ Signing(6) = "new" /\ Signing(7) = "new"
    /\ "old" \in Accepted(Rollout[2].fly) /\ "old" \in Accepted(Rollout[3].fly)
    /\ "old" \in Accepted(Rollout[4].fly) /\ "old" \in Accepted(Rollout[5].fly)
    /\ "old" \in Accepted(Rollout[6].fly)
    /\ "new" \in Accepted(Rollout[5].fly) /\ "new" \in Accepted(Rollout[6].fly)
    /\ "new" \in Accepted(Rollout[7].fly)
<1>1. /\ Len(Rollout) = 7
      /\ Signing(1) = NoSecret /\ Signing(2) = NoSecret
      /\ Signing(3) = "old" /\ Signing(4) = "old" /\ Signing(5) = "old"
      /\ Signing(6) = "new" /\ Signing(7) = "new"
  BY DEF Rollout, Signing
<1>2. /\ Rollout[2].fly.secrets = <<"old">> /\ Rollout[3].fly.secrets = <<"old">>
      /\ Rollout[4].fly.secrets = <<"old">> /\ Rollout[5].fly.secrets = <<"new", "old">>
      /\ Rollout[6].fly.secrets = <<"new", "old">> /\ Rollout[7].fly.secrets = <<"new">>
  BY DEF Rollout
<1>3. ToSet(<<"old">>) = {"old"} /\ ToSet(<<"new">>) = {"new"}
      /\ ToSet(<<"new", "old">>) = {"new", "old"}
  BY DEF ToSet
<1> QED  BY <1>1, <1>2, <1>3 DEF Accepted

(* A request that arrives in time is served by every machine.              *)
LEMMA YoungIsVerified ==
    ASSUME TransportInv, NEW call \in calls, NEW m \in Machines,
           second - call.sent <= MAX_AGE - MaxSkew
    PROVE  Outcome(call, m) = "served"
<1>1. CallOK(call) /\ TransportTypeOK  BY DEF TransportInv
<1>2. PICK s \in InUse : machine[m] = Rollout[s].fly  BY <1>1 DEF TransportTypeOK
<1>3. s \in 1 .. 7 /\ (s = step \/ s = step - 1)  BY <1>2 DEF InUse
<1>4. call.secret \in Accepted(machine[m])
  <2>1. CASE call.secret = "new"
    <3>1. s \in {5, 6, 7}  BY <1>1, <1>3, <2>1 DEF CallOK, TransportTypeOK
    <3> QED  BY <1>2, <2>1, <3>1, RolloutFacts
  <2>2. CASE call.secret = "old"
    <3>1. step # 7
      <4> SUFFICES ASSUME step = 7  PROVE FALSE  OBVIOUS
      <4>1. second - deployed >= MAX_AGE  BY DEF TransportInv
      <4>2. ~ \E i \in Instances : site[i] = "old"
        <5> SUFFICES ASSUME NEW i \in Instances, site[i] = "old"  PROVE FALSE  OBVIOUS
        <5>1. PICK t \in InUse : site[i] = Signing(t)  BY <1>1 DEF TransportTypeOK
        <5>2. t = 7 \/ t = 6  BY <5>1 DEF InUse
        <5> QED  BY <5>1, <5>2, RolloutFacts
      <4>3. call.sent <= deployed  BY <1>1, <2>2, <4>2 DEF CallOK
      <4> QED
        BY <1>1, <4>1, <4>3, InternalRequestsAssumption DEF CallOK, Call, TransportTypeOK
    <3>2. s \in {2, 3, 4, 5, 6}  BY <1>1, <1>3, <3>1 DEF CallOK, TransportTypeOK
    <3> QED  BY <1>2, <2>2, <3>2, RolloutFacts
  <2> QED  BY <1>1, <2>1, <2>2 DEF CallOK, Call
<1>5. second - call.timestamp \in -MAX_AGE .. MAX_AGE
  BY <1>1, InternalRequestsAssumption DEF CallOK, Call, TransportTypeOK
<1>6. verifyInternalRequest(call, m)  BY <1>4, <1>5 DEF verifyInternalRequest, Accepted
<1> QED  BY <1>6 DEF Outcome, resolvePublicRateLimitSubject

LEMMA TransportInitInv == TransportInit => TransportInv
<1> SUFFICES ASSUME TransportInit  PROVE TransportInv  OBVIOUS
<1>1. step = 1 /\ 1 \in InUse  BY DEF TransportInit, InUse
<1> QED
  BY <1>1 DEF TransportInit, TransportInv, TransportTypeOK, SignedIsServed, Signing

(* A request that is on its way stays in order while the settings and what *)
(* runs with them move on.                                                 *)
LEMMA SettingsKeep ==
    ASSUME TransportInv, NextStep \/ \E i \in Instances : Deploy(i)
    PROVE  TransportInv'
<1>1. TransportTypeOK /\ \A call \in calls : CallOK(call)  BY DEF TransportInv
<1>2. CASE NextStep
  <2>1. /\ step \in 1 .. 6 /\ step' = step + 1
        /\ \A i \in Instances : site[i] = Signing(step)
        /\ \A m \in Machines : machine[m] = Rollout[step].fly
        /\ step = 6 => second - deployed >= MAX_AGE
        /\ UNCHANGED <<second, deployed, site, skew, machine, calls, turnedAway>>
    BY <1>1, <1>2, RolloutFacts DEF NextStep, TransportTypeOK, Signing
  <2>2. step \in InUse'
    <3>1. step \in 1 .. 7 /\ step = step' - 1  BY <2>1
    <3> QED  BY <3>1 DEF InUse
  <2>3. TransportTypeOK'
    <3>1. site' \in [Instances -> {Signing(s) : s \in InUse'}]
      BY <1>1, <2>1, <2>2 DEF TransportTypeOK
    <3>2. machine' \in [Machines -> {Rollout[s].fly : s \in InUse'}]
      BY <1>1, <2>1, <2>2 DEF TransportTypeOK
    <3> QED  BY <1>1, <2>1, <3>1, <3>2 DEF TransportTypeOK
  <2>4. ASSUME NEW call \in calls  PROVE CallOK(call)'
    <3>1. CallOK(call)  BY <1>1
    <3>2. step = 5 => \E i \in Instances : site[i] = "old"
      BY <2>1, <3>1, RolloutFacts DEF CallOK
    <3> QED  BY <2>1, <3>1, <3>2 DEF CallOK
  <2> QED  BY <2>1, <2>3, <2>4 DEF TransportInv, SignedIsServed
<1>3. ASSUME NEW i \in Instances, Deploy(i)  PROVE TransportInv'
  <2>1. /\ site' = [site EXCEPT ![i] = Signing(step)] /\ site[i] # Signing(step)
        /\ deployed' = second
        /\ UNCHANGED <<second, step, skew, machine, calls, turnedAway>>
    BY <1>3 DEF Deploy, Signing
  <2>2. step \in InUse /\ InUse' = InUse  BY <1>1, <2>1 DEF InUse, TransportTypeOK
  <2>3. TransportTypeOK'
    <3>1. site' \in [Instances -> {Signing(s) : s \in InUse'}]
      BY <1>1, <2>1, <2>2 DEF TransportTypeOK
    <3> QED  BY <1>1, <2>1, <2>2, <3>1 DEF TransportTypeOK
  <2>4. ASSUME NEW call \in calls  PROVE CallOK(call)'
    BY <1>1, <2>1 DEF CallOK
  <2>5. step # 7
    <3> SUFFICES ASSUME step = 7  PROVE FALSE  OBVIOUS
    <3>1. PICK s \in InUse : site[i] = Signing(s)  BY <1>1 DEF TransportTypeOK
    <3>2. s = 7 \/ s = 6  BY <3>1 DEF InUse
    <3> QED  BY <2>1, <3>1, <3>2, RolloutFacts
  <2> QED  BY <2>1, <2>3, <2>4, <2>5 DEF TransportInv, SignedIsServed
<1> QED  BY <1>2, <1>3

LEMMA RequestsKeep ==
    ASSUME TransportInv,
           \/ \E i \in Instances, limited \in BOOLEAN : handleBackendRequest(i, limited)
           \/ \E m \in Machines, call \in calls : Arrive(call, m)
    PROVE  TransportInv'
<1>1. TransportTypeOK /\ \A call \in calls : CallOK(call)  BY DEF TransportInv
<1>2. ASSUME UNCHANGED <<second, step, deployed, site, skew, machine>>
      PROVE  /\ InUse' = InUse
             /\ turnedAway' \in SUBSET Int => TransportTypeOK'
             /\ \A call : CallOK(call)' <=> CallOK(call)
  BY <1>1, <1>2 DEF InUse, TransportTypeOK, CallOK
<1>3. ASSUME NEW i \in Instances, NEW limited \in BOOLEAN, handleBackendRequest(i, limited)
      PROVE  TransportInv'
  <2> DEFINE call == signInternalRequest(i, limited)
  <2>1. /\ site[i] # NoSecret /\ calls' = calls \cup {call}
        /\ UNCHANGED <<second, step, deployed, site, skew, machine, turnedAway>>
    BY <1>3 DEF handleBackendRequest
  <2>2. PICK s \in InUse : site[i] = Signing(s)  BY <1>1 DEF TransportTypeOK
  <2>3. /\ s \in 3 .. 7 /\ site[i] \in {"old", "new"}
        /\ site[i] = "new" => s \in {6, 7}
        /\ s = step \/ s = step - 1
    BY <2>1, <2>2, RolloutFacts DEF InUse
  <2>4. /\ call.secret = site[i] /\ call.sent = second
        /\ call.timestamp = second + skew[i] /\ call.limited = limited
        /\ call = [secret |-> site[i], timestamp |-> second + skew[i], sent |-> second,
                   limited |-> limited]
    BY DEF signInternalRequest
  <2>5. second \in Nat /\ skew[i] \in -MaxSkew .. MaxSkew /\ step \in 1 .. 7
    BY <1>1 DEF TransportTypeOK
  <2>6. call \in Call
    BY <2>3, <2>4, <2>5, InternalRequestsAssumption DEF Call
  <2> HIDE DEF call
  <2>7. CallOK(call)
    BY <2>3, <2>4, <2>5, <2>6, InternalRequestsAssumption DEF CallOK
  <2> QED  BY <1>1, <1>2, <2>1, <2>7 DEF TransportInv, TransportTypeOK, SignedIsServed
<1>4. ASSUME NEW m \in Machines, NEW call \in calls, Arrive(call, m)  PROVE TransportInv'
  <2>1. /\ calls' = calls \ {call}
        /\ UNCHANGED <<second, step, deployed, site, skew, machine>>
        /\ turnedAway' = turnedAway
           \/ /\ Outcome(call, m) # "served"
              /\ turnedAway' = turnedAway \cup {second - call.sent}
    BY <1>4 DEF Arrive
  <2>2. second - call.sent \in Int  BY <1>1 DEF TransportTypeOK, CallOK, Call
  <2>3. Outcome(call, m) # "served" => second - call.sent > MAX_AGE - MaxSkew
    BY <2>2, YoungIsVerified, InternalRequestsAssumption
  <2>4. SignedIsServed'  BY <2>1, <2>3 DEF TransportInv, SignedIsServed
  <2>5. turnedAway' \in SUBSET Int  BY <1>1, <2>1, <2>2 DEF TransportTypeOK
  <2> QED  BY <1>1, <1>2, <2>1, <2>4, <2>5 DEF TransportInv
<1> QED  BY <1>3, <1>4

LEMMA TransportStep == TransportInv /\ [TransportNext]_transportVars => TransportInv'
<1> SUFFICES ASSUME TransportInv, [TransportNext]_transportVars  PROVE TransportInv'
  OBVIOUS
<1>1. TransportTypeOK /\ \A call \in calls : CallOK(call)  BY DEF TransportInv
<1>2. ASSUME NEW m \in Machines, Start(m)  PROVE TransportInv'
  <2>1. /\ machine' = [machine EXCEPT ![m] = Rollout[step].fly]
        /\ UNCHANGED <<second, step, deployed, site, skew, calls, turnedAway>>
    BY <1>2 DEF Start
  <2>2. step \in InUse /\ InUse' = InUse  BY <1>1, <2>1 DEF InUse, TransportTypeOK
  <2>3. machine' \in [Machines -> {Rollout[s].fly : s \in InUse'}]
    BY <1>1, <2>1, <2>2 DEF TransportTypeOK
  <2> QED
    BY <1>1, <2>1, <2>2, <2>3 DEF TransportInv, TransportTypeOK, CallOK, SignedIsServed
<1>3. CASE NextSecond
  <2>1. /\ second' = second + 1
        /\ UNCHANGED <<step, deployed, site, skew, machine, calls, turnedAway>>
    BY <1>3 DEF NextSecond
  <2>2. InUse' = InUse  BY <2>1 DEF InUse
  <2>3. TransportTypeOK'  BY <1>1, <2>1, <2>2 DEF TransportTypeOK
  <2>4. \A call \in calls' : CallOK(call)'
    BY <1>1, <2>1 DEF CallOK, Call, TransportTypeOK
  <2>5. step' = 7 => second' - deployed' >= MAX_AGE
    BY <1>1, <2>1, InternalRequestsAssumption DEF TransportInv, TransportTypeOK
  <2> QED  BY <2>1, <2>3, <2>4, <2>5 DEF TransportInv, SignedIsServed
<1>4. CASE UNCHANGED transportVars
  BY <1>4 DEF transportVars, TransportInv, TransportTypeOK, CallOK, SignedIsServed, InUse
<1> QED  BY <1>2, <1>3, <1>4, SettingsKeep, RequestsKeep DEF TransportNext

(* While secrets are introduced and replaced, machine by machine and       *)
(* instance by instance, no signed request that arrives in time is turned  *)
(* away.                                                                   *)
THEOREM SignedAreServed == TransportSpec => []SignedIsServed
<1>1. TransportInv => SignedIsServed  BY DEF TransportInv
<1> QED  BY <1>1, TransportInitInv, TransportStep, PTL DEF TransportSpec
=============================================================================
