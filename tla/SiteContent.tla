------------------------------ MODULE SiteContent ------------------------------
(***************************************************************************)
(* The catalogue and the projects as staff edits them, and the cache that  *)
(* public pages read them through.  An entry and its variants are saved in *)
(* one transaction, a project and its styles statement by statement.  What *)
(* is saved is abstracted to the number of the edit it comes from.         *)
(***************************************************************************)
EXTENDS Naturals, FiniteSets

CONSTANTS
    Editors,        \* requests of staff
    Visitors,       \* requests of the public pages
    MaxEdits,       \* bound
    Nothing

Kinds == {"entry", "project"}

Saving ==
    [kind : Kinds, n : Nat, published : BOOLEAN,
     at : {"checked", "updated", "replaced", "deleted", "saved", "listed"},
     gone : (SUBSET Nat) \cup (SUBSET Kinds)]
Shown == [row : Nat, parts : SUBSET Nat, project : Nat]
Reading == [kind : Kinds, at : {"missed", "row", "read"}, view : Shown \cup {Nothing}]

ASSUME SiteContentAssumption ==
    Nothing \notin Editors \cup Saving \cup Shown \cup Reading

VARIABLES
    content,        \* committed rows: the main one, and its variants or styles
    entryLock,      \* who has locked the row of the entry
    saving,         \* what an editor's request is doing
    edits,          \* edits so far
    copy,           \* the cache
    visitor         \* what a visitor's request is doing

contentVars == <<content, entryLock, saving, edits, copy, visitor>>

ContentInit ==
    /\ content = [k \in Kinds |-> [row |-> 0, published |-> TRUE, parts |-> {0}]]
    /\ entryLock = Nothing /\ edits = 0
    /\ saving = [e \in Editors |-> Nothing]
    /\ copy = [k \in Kinds |-> Nothing]
    /\ visitor = [v \in Visitors |-> Nothing]

-----------------------------------------------------------------------------
(* Staff.                                                                  *)

At(e, kind, step) == saving[e] # Nothing /\ saving[e].kind = kind /\ saving[e].at = step
Go(e, step) == saving' = [saving EXCEPT ![e].at = step]

(* validateReferences, and the checks of a project.                        *)
BeginSaving(e, kind, published) ==
    /\ saving[e] = Nothing /\ edits < MaxEdits /\ (kind = "project" => published)
    /\ edits' = edits + 1
    /\ saving' = [saving EXCEPT ![e] = [kind |-> kind, n |-> edits + 1, published |-> published,
                                    at |-> "checked", gone |-> {}]]
    /\ UNCHANGED <<content, entryLock, copy, visitor>>

(* A plausible bug: the row is not written before its variants.            *)
UpdateEntryLast(e) ==
    /\ At(e, "entry", "checked")
    /\ Go(e, "updated")
    /\ UNCHANGED <<content, entryLock, edits, copy, visitor>>

(* The UPDATE waits for the row, the row stays locked until the commit.    *)
UpdateEntry(e) ==
    /\ At(e, "entry", "checked") /\ entryLock = Nothing
    /\ entryLock' = e /\ Go(e, "updated")
    /\ UNCHANGED <<content, edits, copy, visitor>>

(* The DELETE sees what is committed when it starts.                       *)
replaceVariants(e) ==
    /\ At(e, "entry", "updated")
    /\ saving' = [saving EXCEPT ![e].at = "replaced", ![e].gone = content["entry"].parts]
    /\ UNCHANGED <<content, entryLock, edits, copy, visitor>>

CommitEntry(e) ==
    /\ At(e, "entry", "replaced")
    /\ content' = [content EXCEPT !["entry"] =
            [row |-> saving[e].n, published |-> saving[e].published,
             parts |-> (@.parts \ saving[e].gone) \cup {saving[e].n}]]
    /\ entryLock' = Nothing /\ Go(e, "saved")
    /\ UNCHANGED <<edits, copy, visitor>>

(* A conflict of slugs, an error or the end of the process.                *)
RollBackEntry(e) ==
    /\ \E step \in {"checked", "updated", "replaced"} : At(e, "entry", step)
    /\ entryLock' = IF entryLock = e THEN Nothing ELSE entryLock
    /\ saving' = [saving EXCEPT ![e] = Nothing]
    /\ UNCHANGED <<content, edits, copy, visitor>>

UpdateProject(e) ==
    /\ At(e, "project", "checked")
    /\ content' = [content EXCEPT !["project"].row = saving[e].n] /\ Go(e, "updated")
    /\ UNCHANGED <<entryLock, edits, copy, visitor>>

DeleteStyles(e) ==
    /\ At(e, "project", "updated")
    /\ content' = [content EXCEPT !["project"].parts = {}] /\ Go(e, "deleted")
    /\ UNCHANGED <<entryLock, edits, copy, visitor>>

InsertStyles(e) ==
    /\ At(e, "project", "deleted")
    /\ content' = [content EXCEPT !["project"].parts = @ \cup {saving[e].n}] /\ Go(e, "saved")
    /\ UNCHANGED <<entryLock, edits, copy, visitor>>

(* invalidateProjectsCache and invalidateCatalogueCache: an entry shows    *)
(* its project.  Keys are listed first and deleted then.                   *)
ListKeys(e) ==
    /\ \E kind \in Kinds : At(e, kind, "saved")
    /\ saving' = [saving EXCEPT ![e].at = "listed",
            ![e].gone = {k \in Kinds : copy[k] # Nothing /\ (saving[e].kind = "entry" => k = "entry")}]
    /\ UNCHANGED <<content, entryLock, edits, copy, visitor>>

DeleteKeys(e) ==
    /\ \E kind \in Kinds : At(e, kind, "listed")
    /\ copy' = [k \in Kinds |-> IF k \in saving[e].gone THEN Nothing ELSE copy[k]]
    /\ saving' = [saving EXCEPT ![e] = Nothing]
    /\ UNCHANGED <<content, entryLock, edits, visitor>>

(* An error of the cache, or after statements that are not undone.         *)
Abandon(e) ==
    /\ \/ \E step \in {"checked", "updated", "deleted"} : At(e, "project", step)
       \/ \E kind \in Kinds, step \in {"saved", "listed"} : At(e, kind, step)
    /\ saving' = [saving EXCEPT ![e] = Nothing]
    /\ UNCHANGED <<content, entryLock, edits, copy, visitor>>

-----------------------------------------------------------------------------
(* Public pages.                                                           *)

(* What a page shows of an entry includes the project.                     *)
View(k) == [row |-> content[k].row, parts |-> content[k].parts, project |-> content["project"].row]

cacheGet(v, k) ==
    /\ visitor[v] = Nothing /\ copy[k] = Nothing
    /\ visitor' = [visitor EXCEPT ![v] = [kind |-> k, at |-> "missed", view |-> Nothing]]
    /\ UNCHANGED <<content, entryLock, saving, edits, copy>>

(* A plausible bug: an entry is read like a project.                       *)
MainRowAlone == Kinds

(* The kinds whose main row is read before the rest.                       *)
MainRowFirst == {"project"}

ReadRow(v) ==
    /\ visitor[v] # Nothing /\ visitor[v].at = "missed"
    /\ visitor' =
        IF content[visitor[v].kind].published
        THEN [visitor EXCEPT ![v].view = View(visitor[v].kind),
                             ![v].at = IF visitor[v].kind \in MainRowFirst THEN "row" ELSE "read"]
        ELSE [visitor EXCEPT ![v] = Nothing]
    /\ UNCHANGED <<content, entryLock, saving, edits, copy>>

ReadParts(v) ==
    /\ visitor[v] # Nothing /\ visitor[v].at = "row"
    /\ visitor' = [visitor EXCEPT ![v].view.parts = content[visitor[v].kind].parts, ![v].at = "read"]
    /\ UNCHANGED <<content, entryLock, saving, edits, copy>>

(* An error of the cache goes unnoticed.                                   *)
cacheSet(v) ==
    /\ visitor[v] # Nothing /\ visitor[v].at = "read"
    /\ copy' \in {copy, [copy EXCEPT ![visitor[v].kind] = visitor[v].view]}
    /\ visitor' = [visitor EXCEPT ![v] = Nothing]
    /\ UNCHANGED <<content, entryLock, saving, edits>>

(* CACHE_TTL_SECONDS.                                                      *)
Expire(k) ==
    /\ copy[k] # Nothing
    /\ copy' = [copy EXCEPT ![k] = Nothing]
    /\ UNCHANGED <<content, entryLock, saving, edits, visitor>>

SaveStep(e) ==
    \/ \E kind \in Kinds, published \in BOOLEAN : BeginSaving(e, kind, published)
    \/ UpdateEntry(e) \/ replaceVariants(e) \/ CommitEntry(e) \/ RollBackEntry(e)
    \/ UpdateProject(e) \/ DeleteStyles(e) \/ InsertStyles(e)
    \/ ListKeys(e) \/ DeleteKeys(e) \/ Abandon(e)

ReadStep(v) == ReadRow(v) \/ ReadParts(v) \/ cacheSet(v)

ContentNext ==
    \/ \E e \in Editors : SaveStep(e)
    \/ \E v \in Visitors : ReadStep(v) \/ \E k \in Kinds : cacheGet(v, k)
    \/ \E k \in Kinds : Expire(k)

ContentSpec == ContentInit /\ [][ContentNext]_contentVars

-----------------------------------------------------------------------------
(* An entry stands and is shown with the variants that were saved with it, *)
(* however edits overlap and wherever one of them ends.                    *)
EntriesWhole ==
    LET Whole(view) == view.parts = {view.row} IN
    /\ Whole(content["entry"])
    /\ copy["entry"] # Nothing => Whole(copy["entry"])
    /\ \A v \in Visitors :
        visitor[v] # Nothing /\ visitor[v].kind = "entry" /\ visitor[v].at = "read"
            => Whole(visitor[v].view)
=============================================================================
