----------------------------- MODULE MCStorefront -----------------------------
(***************************************************************************)
(* A small instance of Storefront: two booking forms one after the other,  *)
(* or one cart page; dates and products are model values.  The fields of   *)
(* one form, and what becomes of them.  And the page of a customer's link  *)
(* in the night the clocks change.                                         *)
(***************************************************************************)
EXTENDS Storefront, BookingContent, CustomerPage, TLC

Forms == [kind \in Kinds |-> IF kind = "cart" THEN 1 ELSE MaxMounts]

Symmetry == Permutations(Dates)

(* The cart and the booking forms share nothing but the tab: no customer   *)
(* of this instance uses both.                                             *)
Met(kinds) ==
    \/ \E kind \in kinds : On(kind)
    \/ \E p \in posts : p.body.kind \in kinds
    \/ \E k \in Keys : rows[k] # NoBody /\ rows[k].kind \in kinds
ShopOrBook ==
    \/ ~ Met({"experience", "party"})
    \/ ~ (Met({"cart"}) \/ hydrated \/ items \cup saved # {})

-----------------------------------------------------------------------------
(* Two projects, the first of which takes half an hour.                    *)
MCAdults == {-1, 0, 1}
Durations == {[o \in Offerings |-> IF o = short THEN 1 ELSE DECIDE_DURATION] : short \in Offerings}

ContentInit == FormShown /\ offered = CHOOSE durations \in Durations : TRUE

(* Of the edits around a form, only those after the first click show.      *)
EditsLate == (catalogue # offered \/ outdated) => sending # Unsent

(* Consent is given where the form asks for it, on its last steps.         *)
ConsentLast ==
    draft.consent # NoConsent => draft.step >= IF draft.kind = "party" THEN 2 ELSE 3

-----------------------------------------------------------------------------
(* Three parts that share no state: while one is used, the others stand    *)
(* still.                                                                  *)
Earliest == CHOOSE h \in Hours : \A later \in Hours : h <= later
NothingOrdered == Init
PageUnopened == view = "loading" /\ hour = Earliest /\ spring
FormUntouched == draft = BlankParty /\ sending = Unsent /\ catalogue = offered /\ ~ outdated

OnePartMoves ==
    \/ PageUnopened /\ FormUntouched /\ Next /\ UNCHANGED <<pageVars, contentVars>>
    \/ NothingOrdered /\ FormUntouched /\ PageNext /\ UNCHANGED <<vars, contentVars>>
    \/ NothingOrdered /\ PageUnopened /\ BookingContentNext /\ UNCHANGED <<vars, pageVars>>

MCInit == Init /\ PageInit /\ hour = Earliest /\ ContentInit

MCSpec == MCInit /\ [][OnePartMoves]_<<vars, pageVars, contentVars>>
=============================================================================
