------------------------------- MODULE Storefront -------------------------------
(***************************************************************************)
(* One customer's tab and the API it talks to: at most one form is open at *)
(* a time, the cart lives as long as the tab, POSTs outlive both.          *)
(***************************************************************************)
EXTENDS OrdinaryForm, PartyForm, Cart

vars == <<client, cart, intake>>

Init == IntakeInit /\ FormInit /\ CartInit

Next ==
    \/ (OrdinaryNext \/ PartyNext \/ LeaveForm \/ GiveUp) /\ UNCHANGED cart
    \/ CartPageNext
    \/ CartNext
    \/ Serve /\ UNCHANGED <<client, cart>>

Spec == Init /\ [][Next]_vars
-----------------------------------------------------------------------------
TypeOK == IntakeTypeOK /\ FormTypeOK /\ CartTypeOK

(* However availability answers overtake each other, and wherever the      *)
(* customer goes while they are under way, the starts on the screen and    *)
(* the chosen one belong to the day and the group the form shows.          *)
SlotsMatchForm ==
    /\ Editable("experience") =>
        /\ \A o \in form.offers : o.date = form.shown /\ o.size = form.size
        /\ form.slot # NoSlot => form.slot.date = form.date /\ form.slot.size = form.size
    /\ (Editable("party") /\ form.date # NoDate) =>
        /\ Loading \/ \A o \in form.offers : o.date = form.date
        /\ form.slot # NoSlot => form.slot.date = form.date

(* The success page is shown only for a request the API has stored with    *)
(* exactly the content that was posted, never for one the same form sent   *)
(* earlier and the customer has changed since.                             *)
SuccessIsStored ==
    (form # Nowhere /\ form.status = "done") =>
        \E k \in Keys : k[1] = form.key[1] /\ form.sent \in past[k]

(* However often a form is submitted, and whatever is lost on the way, it  *)
(* leaves at most one request.                                             *)
OneRequestPerForm ==
    \A k, j \in Keys : (k[1] = j[1] /\ rows[k] # NoBody /\ rows[j] # NoBody) => k = j

(* The slot of a stored cart order is on the day the customer had picked,  *)
(* although the calendar may offer slots of another one.                   *)
OrdersKeepTheirDate ==
    \A k \in Keys : rows[k] # NoBody => rows[k].date = rows[k].slot.date

(* Hydration loses nothing the customer has added to the cart meanwhile,   *)
(* and from then on the browser's copy is the cart.                        *)
CartKept == wanted \subseteq items /\ (hydrated => saved = items)

(* Whatever fails, rolls back or is replayed, no window stores more        *)
(* bookings than its limit.  (A cart order is counted before it is stored, *)
(* and so perhaps in the window before.)                                   *)
QuotaKept == Cardinality(made) <= Limit
=============================================================================
