---------------------------------- MODULE Cart ----------------------------------
(***************************************************************************)
(* CartProvider: the cart of a tab, its copies in the browser's storage    *)
(* and in cart_sessions on the server.  A tab starts with an empty cart    *)
(* and hydrates it once, from the server if that has any items, otherwise  *)
(* from storage.  Every change is saved in both places.                    *)
(***************************************************************************)
EXTENDS RequestForm

VARIABLES
    items,          \* the cart of the tab (items, itemsRef)
    hydrated,       \* the first GET has come back
    skipNextSync,   \* the next effect writes to storage only
    saved,          \* localStorage
    remote,         \* carts the session may hold: those of all PUTs so far
    wanted          \* history: added in this tab, and not removed or ordered since

cart == <<items, hydrated, skipNextSync, saved, remote, wanted>>

CartTypeOK ==
    /\ {items, saved, wanted} \subseteq SUBSET Projects
    /\ remote \in SUBSET SUBSET Projects
    /\ hydrated \in BOOLEAN /\ skipNextSync \in BOOLEAN

CartInit ==
    /\ items = {} /\ saved = {} /\ remote = {{}} /\ wanted = {}
    /\ hydrated = FALSE /\ skipNextSync = FALSE

(* The effect on [items, hydrated], which runs with every change.  A PUT   *)
(* replaces the items of the session, sooner or later or never.            *)
Synced(new, ready, skip) ==
    /\ saved' = IF ready THEN new ELSE saved
    /\ skipNextSync' = (skip /\ ~ ready)
    /\ remote' = IF ready /\ ~ skip THEN remote \cup {new} ELSE remote

(* A plausible bug: what the customer added meanwhile is overwritten.      *)
mergeLoadedOnly(local, loaded, pending) == IF loaded # {} THEN loaded ELSE local
mergeCartAfterHydration(local, loaded, pending) ==
    pending \cup IF loaded # {} THEN loaded ELSE local

(* loadCartFromServer answers what the session holds, or an empty cart     *)
(* when it fails.                                                          *)
Hydrate(loaded) ==
    /\ ~ hydrated /\ loaded \in remote
    /\ hydrated' = TRUE
    /\ items' = mergeCartAfterHydration(saved, loaded, items)
    /\ Synced(items', TRUE, skipNextSync)
    /\ UNCHANGED <<wanted, client, intake>>

(* ProjectDetail; a product that is in the cart already is refused.        *)
addItem(i) ==
    /\ form = Nowhere /\ i \notin items
    /\ items' = items \cup {i} /\ wanted' = wanted \cup {i}
    /\ Synced(items', hydrated, skipNextSync)
    /\ UNCHANGED <<hydrated, client, intake>>

(* From the drawer or the cart page.  A cart page without items shows      *)
(* nothing, and its calendar goes.                                         *)
removeItem(i) ==
    /\ i \in items
    /\ items' = items \ {i} /\ wanted' = wanted \ {i}
    /\ Synced(items', hydrated, skipNextSync)
    /\ IF items' = {} /\ Editable("cart")
       THEN form' = [form EXCEPT !.shown = NoDate, !.offers = {}] /\ loads' = {}
       ELSE UNCHANGED <<form, loads>>
    /\ UNCHANGED <<hydrated, mounts, intake>>

(* Skip the effect, empty the cart, and save that.                         *)
clearItems ==
    /\ items' = {} /\ wanted' = {}
    /\ saved' = IF hydrated THEN {} ELSE saved
    /\ skipNextSync' = ~ hydrated
    /\ remote' = remote \cup {{}}
    /\ UNCHANGED hydrated

(* The tab is loaded again.                                                *)
Reload ==
    /\ hydrated
    /\ items' = {} /\ wanted' = {}
    /\ hydrated' = FALSE /\ skipNextSync' = FALSE
    /\ form' = Nowhere /\ loads' = {}
    /\ Abandon(posts)
    /\ UNCHANGED <<saved, remote, rows, past, used, made, mounts>>

CartNext ==
    \/ \E loaded \in SUBSET Projects : Hydrate(loaded)
    \/ \E i \in Projects : addItem(i) \/ removeItem(i)
    \/ Reload
-------------------------------------------------------------------------------
(* The cart page: a time slot is picked in the calendar of the earlier     *)
(* form, and the cart is ordered.  That calendar takes the answers to its  *)
(* requests in whatever order they come; the API compares the dates.       *)

OpenCart == Mount("cart", "cart") /\ UNCHANGED cart

(* The fields and the calendar are on the screen while there are items.    *)
CartFields == Editable("cart") /\ items # {}

ChangeNumberOfPeople(n) ==
    /\ CartFields
    /\ form' = [form EXCEPT !.size = n, !.slot = NoSlot]
    /\ UNCHANGED <<loads, mounts, intake, cart>>

(* LegacyBookingCalendar.selectDate: no request outdates another.          *)
selectDate(d) ==
    /\ CartFields /\ RoomToLoad
    /\ form' = [form EXCEPT !.date = d, !.shown = d, !.slot = NoSlot]
    /\ loads' = loads \cup {[date |-> d, size |-> 1, current |-> TRUE]}
    /\ UNCHANGED <<mounts, intake, cart>>

(* Another month: the selected day and its slots are forgotten, but not    *)
(* the date the page was told.                                             *)
shiftMonth ==
    /\ CartFields
    /\ form' = [form EXCEPT !.shown = NoDate, !.offers = {}, !.slot = NoSlot]
    /\ UNCHANGED <<loads, mounts, intake, cart>>

DayAnswered(l, offers) ==
    /\ Editable("cart")
    /\ loads' = loads \ {l}
    /\ form' = [form EXCEPT !.offers = offers]
    /\ UNCHANGED <<mounts, intake, cart>>

(* Any answer ends loadingDay, which is one flag for all requests; so the  *)
(* slots of an earlier day may be on the screen.                           *)
ChooseDaySlot(o) ==
    /\ CartFields /\ form.shown # NoDate /\ o \in form.offers
    /\ form' = [form EXCEPT !.slot = o]
    /\ UNCHANGED <<loads, mounts, intake, cart>>

SubmitCart ==
    /\ CartFields /\ form.status = "idle" /\ form.slot # NoSlot
    /\ LET body == [kind |-> "cart", date |-> form.date, size |-> form.size,
                    slot |-> form.slot, items |-> items] IN
        /\ form' = [form EXCEPT !.status = "posting", !.sent = body]
        /\ Send(form.key, body)
    /\ UNCHANGED <<rows, past, used, made, loads, mounts, cart>>

(* An order empties the cart; a refusal leaves everything as it is.        *)
ReceiveCart(p) ==
    /\ On("cart") /\ Answered(p)
    /\ Taken(p)
    /\ \/ /\ p.answer = "stored"
          /\ form' = Succeeded(form)
          /\ loads' = {}
          /\ clearItems
       \/ /\ p.answer # "stored"
          /\ form' = Failed(form)
          /\ UNCHANGED <<loads, cart>>
    /\ UNCHANGED <<rows, past, used, made, mounts>>

(* The same after the customer has left the page: the handler runs on and  *)
(* empties whatever the cart holds by then.                                *)
ReceiveLate(p) ==
    /\ p.live /\ p.body.kind = "cart" /\ ~ Mine(p) /\ p.answer \in Outcomes
    /\ Taken(p)
    /\ IF p.answer = "stored" THEN clearItems ELSE UNCHANGED cart
    /\ UNCHANGED <<rows, past, used, made, client>>

CartPageNext ==
    \/ OpenCart \/ shiftMonth \/ SubmitCart
    \/ \E n \in 1 .. MaxSize : ChangeNumberOfPeople(n)
    \/ \E d \in Dates : selectDate(d)
    \/ \E l \in loads : \E offers \in Answers(l.date, 1) : DayAnswered(l, offers)
    \/ \E o \in Offer : ChooseDaySlot(o)
    \/ \E p \in posts : ReceiveCart(p) \/ ReceiveLate(p)
=============================================================================
