--------------------------- MODULE StorefrontProofs ---------------------------
(***************************************************************************)
(* Storefront, the fields of its forms, and the page of a customer's link, *)
(* for any days, products, forms and POSTs, and any change of the clocks:  *)
(* the forms show what belongs together, one form leaves one request, its  *)
(* success is true and what is stored is what was shown; the cart keeps    *)
(* what was added, no window exceeds its quota; and a time a customer asks *)
(* for exists, once, and is announced in time.                             *)
(***************************************************************************)
EXTENDS Storefront, CustomerPage, BookingContent, FiniteSetTheorems, TLAPS

-----------------------------------------------------------------------------
(* Types, and the keys of forms.                                           *)

(* The form on the screen has the key of its mount, of the second          *)
(* generation once it has succeeded; what is posted or stored has one of   *)
(* the first.                                                              *)
KeysFresh ==
    /\ form # Nowhere => form.key = <<mounts, IF form.status = "done" THEN 2 ELSE 1>>
    /\ \A p \in posts : p.key[1] <= mounts /\ p.key[2] = 1
    /\ \A k \in Keys : rows[k] # NoBody => k[2] = 1

(* The cart page has the date its calendar was clicked for, as long as it  *)
(* has a start.                                                            *)
DayPicked ==
    On("cart") => /\ form.shown \in {NoDate, form.date}
                  /\ form.slot # NoSlot => form.date # NoDate

TypeInv == TypeOK /\ KeysFresh /\ DayPicked

LEMMA FormFields ==
    ASSUME FormTypeOK, form # Nowhere
    PROVE  /\ form \in Form
           /\ form.kind \in Kinds /\ form.key \in Mounts \X Nat /\ form.step \in Steps
           /\ form.size \in 1 .. MaxSize /\ form.date \in Dates \cup {NoDate}
           /\ form.slot \in Offer \cup {NoSlot} /\ form.shown \in Dates \cup {NoDate}
           /\ form.offers \in SUBSET Offer
           /\ form.status \in {"idle", "checking", "posting", "done"}
           /\ form.sent \in Body \cup {NoBody}
BY DEF FormTypeOK, Form

LEMMA AnswersAreOffers ==
    ASSUME NEW d \in Dates, NEW n \in 1 .. MaxSize, NEW offers \in Answers(d, n)
    PROVE  /\ offers \in SUBSET Offer
           /\ \A o \in offers : o.date = d /\ o.size = n
BY DEF Answers, Offer

LEMMA AbandonType ==
    ASSUME posts \in SUBSET Post, NEW gone, Abandon(gone), gone \subseteq posts
    PROVE  posts' \in SUBSET Post
<1>1. ASSUME NEW q \in gone, q.answer \in {"none", "counted"}
      PROVE  [q EXCEPT !.live = FALSE] \in Post
  BY <1>1 DEF Post
<1> QED  BY <1>1 DEF Abandon

(* What a POST leaves behind when the form gives up on it.                 *)
LEMMA AbandonKeeps ==
    ASSUME posts \in SUBSET Post, NEW gone \in SUBSET posts, Abandon(gone), NEW p \in posts'
    PROVE  \/ p \in posts /\ p \notin gone
           \/ \E q \in gone : p = [q EXCEPT !.live = FALSE]
BY DEF Abandon

(* Opening a form.                                                         *)
LEMMA MountTypes ==
    ASSUME TypeInv, NEW kind \in Kinds, NEW step \in Steps, Mount(kind, step)
    PROVE  IntakeTypeOK' /\ FormTypeOK' /\ KeysFresh' /\ form' \in Form
<1> USE IntakeAssumption DEF Mount, TypeInv, TypeOK, intake
<1>1. LastMount[kind] \in 1 .. MaxMounts /\ mounts \in Nat /\ MaxMounts \in Nat
  BY DEF FormTypeOK
<1>2. mounts + 1 \in Mounts /\ mounts' \in 0 .. MaxMounts
  BY <1>1 DEF Mounts
<1>3. 1 \in 1 .. MaxSize
  OBVIOUS
<1>4. form' \in Form
  BY <1>2, <1>3 DEF Form
<1>5. FormTypeOK'
  BY <1>2, <1>4 DEF FormTypeOK
<1>6. IntakeTypeOK'
  BY DEF IntakeTypeOK
<1>7. \A p \in posts : p.key[1] \in Nat
  BY DEF IntakeTypeOK, Post, Keys, Mounts
<1>8. KeysFresh'
  BY <1>1, <1>7 DEF KeysFresh
<1> QED  BY <1>4, <1>5, <1>6, <1>8

(* A step that keeps the key of the form, unless the form succeeds, and    *)
(* what the API has.                                                       *)
LEMMA FormStep ==
    ASSUME TypeInv, form # Nowhere, form' \in Form, loads' \in SUBSET Load, UNCHANGED mounts,
           form'.key = IF form'.status = "done" THEN <<mounts, 2>> ELSE <<mounts, 1>>,
           posts' \in SUBSET Post,
           \A p \in posts' : (p.key = form.key /\ form.status # "done") \/ \E q \in posts : p.key = q.key,
           UNCHANGED <<rows, past, used, made>>
    PROVE  IntakeTypeOK' /\ FormTypeOK' /\ KeysFresh' /\ form' \in Form
<1> USE DEF TypeInv, TypeOK
<1>1. IntakeTypeOK' /\ FormTypeOK'
  BY DEF IntakeTypeOK, FormTypeOK
<1>2. form' # Nowhere
  BY NowhereAssumption
<1>3. ASSUME NEW p \in posts'  PROVE p.key[1] <= mounts /\ p.key[2] = 1
  <2>1. mounts \in Nat  BY DEF FormTypeOK
  <2>2. CASE p.key = form.key /\ form.status # "done"  BY <2>1, <2>2 DEF KeysFresh
  <2>3. CASE \E q \in posts : p.key = q.key  BY <2>3 DEF KeysFresh
  <2> QED  BY <2>2, <2>3
<1>4. KeysFresh'
  BY <1>2, <1>3 DEF KeysFresh
<1> QED  BY <1>1, <1>4

(* Loads that are outdated, or asked for in addition.                      *)
LEMMA LoadTypes ==
    ASSUME FormTypeOK
    PROVE  /\ Outdated \in SUBSET Load
           /\ \A d \in Dates : [date |-> d, size |-> 1, current |-> TRUE] \in Load
           /\ form # Nowhere => \A d \in Dates \cup {NoDate} : Ask(d) \in SUBSET Load
<1>1. ASSUME NEW l \in loads  PROVE [l EXCEPT !.current = FALSE] \in Load
  BY DEF FormTypeOK, Load
<1>2. Outdated \in SUBSET Load  BY <1>1 DEF Outdated
<1>3. \A d \in Dates, n \in 1 .. MaxSize : [date |-> d, size |-> n, current |-> TRUE] \in Load
  BY DEF Load
<1>5. 1 \in 1 .. MaxSize
  BY IntakeAssumption
<1>4. form # Nowhere => \A d \in Dates \cup {NoDate} : Ask(d) \in SUBSET Load
  BY <1>2, <1>3, FormFields DEF Ask
<1> QED  BY <1>2, <1>3, <1>4, <1>5

LEMMA SendTypes ==
    ASSUME TypeInv, form # Nowhere, form.status # "done", NEW body \in Body, Send(form.key, body)
    PROVE  /\ posts' \in SUBSET Post
           /\ \A p \in posts' : p.key = form.key \/ \E q \in posts : p.key = q.key
<1> USE DEF TypeInv, TypeOK
<1>1. form.key = <<mounts, 1>> /\ form.key \in Mounts \X Nat
  BY FormFields DEF KeysFresh
<1>2. form.key \in Keys
  BY <1>1 DEF Keys
<1> DEFINE new == [key |-> form.key, body |-> body, live |-> TRUE, answer |-> "none"]
<1>3. new \in Post /\ new.key = form.key
  BY <1>2 DEF Post
<1>4. posts' = posts \cup {new}
  BY DEF Send
<1>5. posts \in SUBSET Post
  BY DEF IntakeTypeOK
<1> HIDE DEF new
<1> QED  BY <1>3, <1>4, <1>5

(* The two ways in which an answer ends a submission.                      *)
LEMMA EndTypes ==
    ASSUME TypeInv, form # Nowhere, form.status # "done"
    PROVE  /\ Failed(form) \in Form /\ Failed(form).status = "idle"
           /\ Failed(form).key = <<mounts, 1>>
           /\ Succeeded(form) \in Form /\ Succeeded(form).status = "done"
           /\ Succeeded(form).key = <<mounts, 2>>
<1> USE DEF TypeInv, TypeOK
<1>1. form.key = <<mounts, 1>> /\ form \in Form /\ form.key \in Mounts \X Nat
  BY FormFields DEF KeysFresh
<1>2. succeeded(form.key) = <<mounts, 2>> /\ succeeded(form.key) \in Mounts \X Nat
  BY <1>1 DEF succeeded
<1>3. Failed(form) \in Form /\ Failed(form).status = "idle" /\ Failed(form).key = form.key
  BY <1>1 DEF Failed, failed, Form
<1>4. Succeeded(form) \in Form /\ Succeeded(form).status = "done"
        /\ Succeeded(form).key = <<mounts, 2>>
  BY <1>1, <1>2 DEF Succeeded, Form
<1> QED  BY <1>1, <1>3, <1>4

LEMMA OrdinaryTypes ==
    ASSUME TypeInv, OrdinaryNext
    PROVE  IntakeTypeOK' /\ FormTypeOK' /\ KeysFresh' /\ form' \in Form
<1> USE DEF TypeInv, TypeOK, intake
<1>a. posts \in SUBSET Post /\ loads \in SUBSET Load /\ mounts' \in {mounts, mounts'}
  BY DEF IntakeTypeOK, FormTypeOK
<1>b. Editable("experience") => form # Nowhere /\ form.status # "done" /\ form.key = <<mounts, 1>>
  BY DEF Editable, On, KeysFresh
<1>c. ASSUME Editable("experience"), form' \in Form, loads' \in SUBSET Load, UNCHANGED <<mounts, intake>>,
             form'.key = form.key, form'.status # "done"
      PROVE  IntakeTypeOK' /\ FormTypeOK' /\ KeysFresh' /\ form' \in Form
  BY <1>a, <1>b, <1>c, FormStep
<1>d. form # Nowhere => \A step \in Steps :
        /\ AtStep(form, step) \in Form /\ AtStep(form, step).key = form.key
        /\ AtStep(form, step).status = form.status
  BY FormFields DEF AtStep, Form
<1>1. CASE OpenOrdinary
  BY <1>1, MountTypes DEF OpenOrdinary, Kinds, Steps
<1>2. CASE goToNextStep
  BY <1>2, <1>b, <1>c, <1>d DEF goToNextStep, Steps
<1>3. CASE goToPreviousStep
  BY <1>3, <1>b, <1>c, <1>d DEF goToPreviousStep, Steps
<1>4. CASE RetryLoad
  BY <1>4, <1>b, <1>c, FormFields, LoadTypes DEF RetryLoad
<1>5. CASE Submit
  <2>1. [kind |-> "experience", date |-> form.date, size |-> form.size,
         slot |-> form.slot, items |-> {}] \in Body
    BY <1>5, <1>b, FormFields DEF Submit, Body, Kinds
  <2>2. form' \in Form /\ form'.key = form.key /\ form'.status # "done"
    BY <1>5, <1>b, <2>1, FormFields DEF Submit, Form
  <2> QED  BY <1>5, <1>a, <1>c, <2>2 DEF Submit
<1>6. CASE CheckFailed
  <2>1. form # Nowhere /\ Editable("experience")  BY <1>6 DEF CheckFailed, On, Editable
  <2>2. form' \in Form /\ form'.key = form.key /\ form'.status # "done"
    BY <1>6, <2>1, FormFields DEF CheckFailed, Form
  <2> QED  BY <1>6, <1>a, <1>c, <2>1, <2>2 DEF CheckFailed
<1>7. ASSUME NEW n \in 1 .. MaxSize, ChangePeople(n)
      PROVE  IntakeTypeOK' /\ FormTypeOK' /\ KeysFresh' /\ form' \in Form
  <2>1. form' \in Form /\ form'.key = form.key /\ form'.status # "done"
    BY <1>7, <1>b, FormFields DEF ChangePeople, Form
  <2> QED  BY <1>7, <1>a, <1>c, <2>1 DEF ChangePeople
<1>8. ASSUME NEW d \in Dates \cup {NoDate}, ChangeDate(d)
      PROVE  IntakeTypeOK' /\ FormTypeOK' /\ KeysFresh' /\ form' \in Form
  <2>1. form' \in Form /\ form'.key = form.key /\ form'.status # "done"
    BY <1>8, <1>b, FormFields DEF ChangeDate, Form
  <2> QED  BY <1>8, <1>b, <1>c, <2>1, LoadTypes DEF ChangeDate
<1>9. ASSUME NEW l \in loads, NEW offers \in Answers(l.date, l.size), LoadAnswered(l, offers)
      PROVE  IntakeTypeOK' /\ FormTypeOK' /\ KeysFresh' /\ form' \in Form
  <2>1. offers \in SUBSET Offer
    BY <1>a, AnswersAreOffers DEF Load
  <2>2. form' \in Form /\ form'.key = form.key /\ form'.status # "done"
    BY <1>9, <1>b, <2>1, FormFields DEF LoadAnswered, Form
  <2> QED  BY <1>9, <1>a, <1>c, <2>2 DEF LoadAnswered
<1>10. ASSUME NEW o \in Offer, ChooseSlot(o)
       PROVE  IntakeTypeOK' /\ FormTypeOK' /\ KeysFresh' /\ form' \in Form
  <2>1. form' \in Form /\ form'.key = form.key /\ form'.status # "done"
    BY <1>10, <1>b, FormFields DEF ChooseSlot, Form
  <2> QED  BY <1>10, <1>a, <1>c, <2>1 DEF ChooseSlot
<1>11. ASSUME NEW offers, form # Nowhere, form.sent # NoBody, CheckAnswered(offers)
       PROVE  IntakeTypeOK' /\ FormTypeOK' /\ KeysFresh' /\ form' \in Form
  <2>1. form.status # "done" /\ form.key = <<mounts, 1>> /\ UNCHANGED <<rows, past, used, made, mounts>>
        /\ form.sent \in Body
    BY <1>11, FormFields DEF CheckAnswered, KeysFresh
  <2>2. form' \in Form /\ form'.key = <<mounts, 1>> /\ form'.status # "done"
    BY <1>11, <2>1, FormFields, EndTypes DEF CheckAnswered, Form
  <2>3. Revised \in SUBSET Load
    BY <1>a, <1>11, LoadTypes, FormFields DEF Revised
  <2>4. loads' \in SUBSET Load
    BY <1>11, <1>a, <2>3 DEF CheckAnswered
  <2>5. posts' \in SUBSET Post /\ \A p \in posts' : p.key = form.key \/ \E q \in posts : p.key = q.key
    BY <1>11, <1>a, <2>1, SendTypes DEF CheckAnswered
  <2> QED  BY <1>11, <2>1, <2>2, <2>4, <2>5, FormStep
<1>12. ASSUME NEW p \in posts, ReceiveOrdinary(p)
       PROVE  IntakeTypeOK' /\ FormTypeOK' /\ KeysFresh' /\ form' \in Form
  <2>1. form # Nowhere /\ form.status # "done"
    BY <1>12 DEF ReceiveOrdinary, Answered, Mine, KeysFresh
  <2>2. Failed(form) \in Form /\ Failed(form).status = "idle" /\ Failed(form).key = <<mounts, 1>>
        /\ Succeeded(form) \in Form /\ Succeeded(form).status = "done"
        /\ Succeeded(form).key = <<mounts, 2>>
    BY <2>1, EndTypes
  <2>3. LET gone == [Failed(form) EXCEPT !.slot = NoSlot] IN
        \A f \in {gone, AtStep(gone, "schedule")} :
            f \in Form /\ f.status = "idle" /\ f.key = <<mounts, 1>>
    <3> DEFINE gone == [Failed(form) EXCEPT !.slot = NoSlot]
    <3>1. gone \in Form /\ gone.status = "idle" /\ gone.key = <<mounts, 1>>
      BY <2>2 DEF Form
    <3> HIDE DEF gone
    <3> DEFINE there == [gone EXCEPT !.step = "schedule"]
    <3>3. there \in Form /\ there.status = "idle" /\ there.key = <<mounts, 1>>
      BY <3>1 DEF Form, Steps
    <3>4. AtStep(gone, "schedule") = [[there EXCEPT !.shown = NoDate] EXCEPT !.offers = {}]
      BY DEF AtStep
    <3> HIDE DEF there
    <3>5. /\ AtStep(gone, "schedule") \in Form /\ AtStep(gone, "schedule").status = "idle"
          /\ AtStep(gone, "schedule").key = <<mounts, 1>>
      BY <3>3, <3>4 DEF Form
    <3> QED  BY <3>1, <3>5 DEF gone
  <2>4. form' \in Form /\ form'.key = IF form'.status = "done" THEN <<mounts, 2>> ELSE <<mounts, 1>>
    BY <1>12, <2>2, <2>3 DEF ReceiveOrdinary
  <2>5. Revised \in SUBSET Load
    BY <1>a, <2>1, LoadTypes, FormFields DEF Revised
  <2>6. loads' \in SUBSET Load
    BY <1>12, <1>a, <2>5 DEF ReceiveOrdinary
  <2> QED  BY <1>12, <1>a, <2>1, <2>4, <2>6, FormStep DEF ReceiveOrdinary, Taken
<1> QED
  BY <1>1, <1>2, <1>3, <1>4, <1>5, <1>6, <1>7, <1>8, <1>9, <1>10, <1>11, <1>12 DEF OrdinaryNext

LEMMA PartyTypes ==
    ASSUME TypeInv, PartyNext
    PROVE  IntakeTypeOK' /\ FormTypeOK' /\ KeysFresh' /\ form' \in Form
<1> USE DEF TypeInv, TypeOK, intake
<1>a. posts \in SUBSET Post /\ loads \in SUBSET Load
  BY DEF IntakeTypeOK, FormTypeOK
<1>b. Editable("party") => form # Nowhere /\ form.status # "done" /\ form.key = <<mounts, 1>>
  BY DEF Editable, On, KeysFresh
<1>c. ASSUME Editable("party"), form' \in Form, loads' \in SUBSET Load, UNCHANGED <<mounts, intake>>,
             form'.key = form.key, form'.status # "done"
      PROVE  IntakeTypeOK' /\ FormTypeOK' /\ KeysFresh' /\ form' \in Form
  BY <1>a, <1>b, <1>c, FormStep
<1>1. CASE OpenParty
  BY <1>1, MountTypes DEF OpenParty, Kinds, Steps
<1>2. CASE PartyStep
  <2>1. form' \in Form /\ form'.key = form.key /\ form'.status # "done"
    BY <1>2, <1>b, FormFields DEF PartyStep, Form, Steps
  <2> QED  BY <1>2, <1>a, <1>c, <2>1 DEF PartyStep
<1>3. CASE RetryPartyLoad
  <2>1. form' \in Form /\ form'.key = form.key /\ form'.status # "done"
    BY <1>3, <1>b, FormFields DEF RetryPartyLoad, Form
  <2>2. [date |-> form.date, size |-> 1, current |-> TRUE] \in Load
    BY <1>3, <1>b, FormFields, LoadTypes DEF RetryPartyLoad
  <2> QED  BY <1>3, <1>c, <2>1, <2>2, LoadTypes DEF RetryPartyLoad
<1>4. CASE SubmitParty
  <2> DEFINE body == [kind |-> "party", date |-> form.date, size |-> form.size,
                      slot |-> form.slot, items |-> {}]
  <2>1. /\ Editable("party") /\ form.date # NoDate /\ form.slot # NoSlot
        /\ UNCHANGED <<rows, past, used, made, loads, mounts>>
        /\ \/ form' = [form EXCEPT !.status = "posting", !.sent = body] /\ Send(form.key, body)
           \/ \E step \in {"people", "plan", "extras"} :
                form' = [form EXCEPT !.step = step] /\ UNCHANGED posts
    BY <1>4 DEF SubmitParty
  <2>2. body \in Body
    BY <1>b, <2>1, FormFields DEF Body, Kinds
  <2> HIDE DEF body
  <2>3. form' \in Form /\ form'.key = form.key /\ form'.status # "done"
    BY <1>b, <2>1, <2>2, FormFields DEF Form, Steps
  <2>4. posts' \in SUBSET Post /\ \A p \in posts' : p.key = form.key \/ \E q \in posts : p.key = q.key
    BY <1>a, <1>b, <2>1, <2>2, SendTypes
  <2> QED  BY <1>a, <1>b, <2>1, <2>3, <2>4, FormStep
<1>5. ASSUME NEW n \in 1 .. MaxSize, ChangeGuests(n)
      PROVE  IntakeTypeOK' /\ FormTypeOK' /\ KeysFresh' /\ form' \in Form
  <2>1. form' \in Form /\ form'.key = form.key /\ form'.status # "done"
    BY <1>5, <1>b, FormFields DEF ChangeGuests, Form
  <2> QED  BY <1>5, <1>a, <1>c, <2>1 DEF ChangeGuests
<1>6. ASSUME NEW d \in Dates \cup {NoDate}, ChangePartyDate(d)
      PROVE  IntakeTypeOK' /\ FormTypeOK' /\ KeysFresh' /\ form' \in Form
  <2>1. form' \in Form /\ form'.key = form.key /\ form'.status # "done"
    BY <1>6, <1>b, FormFields DEF ChangePartyDate, Form
  <2>2. d # NoDate => [date |-> d, size |-> 1, current |-> TRUE] \in Load
    BY LoadTypes
  <2>3. loads' \in SUBSET Load
    BY <1>6, <1>a, <2>2, LoadTypes DEF ChangePartyDate
  <2> QED  BY <1>6, <1>c, <2>1, <2>3 DEF ChangePartyDate
<1>7. ASSUME NEW l \in loads, NEW offers \in Answers(l.date, l.size), PartyLoadAnswered(l, offers)
      PROVE  IntakeTypeOK' /\ FormTypeOK' /\ KeysFresh' /\ form' \in Form
  <2>1. offers \in SUBSET Offer
    BY <1>a, AnswersAreOffers DEF Load
  <2>2. form' \in Form /\ form'.key = form.key /\ form'.status # "done"
    BY <1>7, <1>b, <2>1, FormFields DEF PartyLoadAnswered, Form
  <2> QED  BY <1>7, <1>a, <1>c, <2>2 DEF PartyLoadAnswered
<1>8. ASSUME NEW o \in Offer, ChoosePartySlot(o)
      PROVE  IntakeTypeOK' /\ FormTypeOK' /\ KeysFresh' /\ form' \in Form
  <2>1. form' \in Form /\ form'.key = form.key /\ form'.status # "done"
    BY <1>8, <1>b, FormFields DEF ChoosePartySlot, Form
  <2> QED  BY <1>8, <1>a, <1>c, <2>1 DEF ChoosePartySlot
<1>9. ASSUME NEW p \in posts, ReceiveParty(p)
      PROVE  IntakeTypeOK' /\ FormTypeOK' /\ KeysFresh' /\ form' \in Form
  <2>1. form # Nowhere /\ form.status # "done"
    BY <1>9 DEF ReceiveParty, Answered, Mine, KeysFresh
  <2>2. form' \in Form /\ form'.key = IF form'.status = "done" THEN <<mounts, 2>> ELSE <<mounts, 1>>
    BY <1>9, <2>1, EndTypes DEF ReceiveParty
  <2> QED  BY <1>9, <1>a, <2>1, <2>2, FormStep DEF ReceiveParty, Taken
<1> QED
  BY <1>1, <1>2, <1>3, <1>4, <1>5, <1>6, <1>7, <1>8, <1>9 DEF PartyNext

(* The form is left, or reloading the tab takes it away.                   *)
LEMMA GoneTypes ==
    ASSUME TypeInv, form' = Nowhere, loads' = {}, NEW gone \in SUBSET posts, Abandon(gone),
           UNCHANGED <<rows, past, used, made, mounts>>
    PROVE  IntakeTypeOK' /\ FormTypeOK' /\ KeysFresh'
<1> USE DEF TypeInv, TypeOK
<1>1. posts \in SUBSET Post  BY DEF IntakeTypeOK
<1>2. posts' \in SUBSET Post  BY <1>1, AbandonType
<1>3. ASSUME NEW p \in posts'  PROVE \E q \in posts : p.key = q.key
  <2>1. CASE p \in posts  BY <2>1
  <2>2. CASE \E q \in gone : p = [q EXCEPT !.live = FALSE]
    <3>1. PICK q \in gone : p = [q EXCEPT !.live = FALSE]  BY <2>2
    <3>2. q \in Post  BY <1>1
    <3>3. p.key = q.key  BY <3>1, <3>2 DEF Post
    <3> QED  BY <3>3
  <2> QED  BY <1>1, <2>1, <2>2, AbandonKeeps
<1>4. KeysFresh'  BY <1>3 DEF KeysFresh
<1> QED  BY <1>2, <1>4 DEF IntakeTypeOK, FormTypeOK

LEMMA LeaveTypes ==
    ASSUME TypeInv, LeaveForm \/ GiveUp
    PROVE  IntakeTypeOK' /\ FormTypeOK' /\ KeysFresh'
<1>1. CASE LeaveForm
  BY <1>1, GoneTypes DEF LeaveForm
<1>2. ASSUME NEW p \in posts, form' = IF Mine(p) THEN Failed(form) ELSE form, Abandon({p}),
             UNCHANGED <<rows, past, used, made, loads, mounts>>
      PROVE  IntakeTypeOK' /\ FormTypeOK' /\ KeysFresh'
  <2> USE DEF TypeInv, TypeOK
  <2>1. posts \in SUBSET Post  BY DEF IntakeTypeOK
  <2>2. posts' \in SUBSET Post  BY <1>2, <2>1, AbandonType
  <2>3. ASSUME NEW q \in posts'  PROVE \E r \in posts : q.key = r.key
    <3>1. CASE q \in posts  BY <3>1
    <3>2. CASE q = [p EXCEPT !.live = FALSE]
      <4>1. p \in Post  BY <2>1
      <4>2. q.key = p.key  BY <3>2, <4>1 DEF Post
      <4> QED  BY <4>2
    <3> QED  BY <1>2, <2>1, <3>1, <3>2, AbandonKeeps
  <2>4. CASE Mine(p)
    <3>1. form # Nowhere /\ form.status # "done"
      BY <2>4 DEF Mine, KeysFresh
    <3> QED  BY <1>2, <2>2, <2>3, <2>4, <3>1, EndTypes, FormStep DEF FormTypeOK
  <2>5. CASE ~ Mine(p)
    <3>1. IntakeTypeOK' /\ FormTypeOK'
      BY <1>2, <2>2, <2>5 DEF IntakeTypeOK, FormTypeOK
    <3>2. KeysFresh'
      BY <1>2, <2>3, <2>5 DEF KeysFresh
    <3> QED  BY <3>1, <3>2
  <2> QED  BY <2>4, <2>5
<1> QED  BY <1>1, <1>2 DEF GiveUp

LEMMA CartPageTypes ==
    ASSUME TypeInv, CartPageNext
    PROVE  IntakeTypeOK' /\ FormTypeOK' /\ KeysFresh' /\ CartTypeOK' /\ form' \in Form \cup {form}
<1> USE DEF TypeInv, TypeOK, intake, cart
<1>a. posts \in SUBSET Post /\ loads \in SUBSET Load
  BY DEF IntakeTypeOK, FormTypeOK
<1>b. Editable("cart") => form # Nowhere /\ form.status # "done" /\ form.key = <<mounts, 1>>
  BY DEF Editable, On, KeysFresh
<1>c. ASSUME Editable("cart"), form' \in Form, loads' \in SUBSET Load, UNCHANGED <<mounts, intake, cart>>,
             form'.key = form.key, form'.status # "done"
      PROVE  IntakeTypeOK' /\ FormTypeOK' /\ KeysFresh' /\ CartTypeOK' /\ form' \in Form \cup {form}
  BY <1>a, <1>b, <1>c, FormStep DEF CartTypeOK
<1>d. CartFields => Editable("cart") /\ form # Nowhere
  BY <1>b DEF CartFields
<1>e. UNCHANGED cart \/ clearItems => CartTypeOK'
  BY DEF CartTypeOK, clearItems
<1>1. CASE OpenCart
  BY <1>1, MountTypes DEF OpenCart, Kinds, Steps, CartTypeOK
<1>2. CASE shiftMonth
  <2>1. form' \in Form /\ form'.key = form.key /\ form'.status # "done"
    BY <1>2, <1>b, <1>d, FormFields DEF shiftMonth, Form
  <2> QED  BY <1>2, <1>a, <1>c, <1>d, <2>1 DEF shiftMonth
<1>3. CASE SubmitCart
  <2> DEFINE body == [kind |-> "cart", date |-> form.date, size |-> form.size,
                      slot |-> form.slot, items |-> items]
  <2>1. /\ CartFields /\ form.slot # NoSlot
        /\ UNCHANGED <<rows, past, used, made, loads, mounts, cart>>
        /\ form' = [form EXCEPT !.status = "posting", !.sent = body] /\ Send(form.key, body)
    BY <1>3 DEF SubmitCart
  <2>2. form.date # NoDate
    BY <1>d, <2>1 DEF DayPicked, CartFields, Editable
  <2>3. body \in Body
    BY <1>d, <2>1, <2>2, FormFields DEF Body, Kinds, CartTypeOK
  <2> HIDE DEF body
  <2>4. form' \in Form /\ form'.key = form.key /\ form'.status # "done"
    BY <1>b, <1>d, <2>1, <2>2, <2>3, FormFields DEF Form
  <2>5. posts' \in SUBSET Post /\ \A p \in posts' : p.key = form.key \/ \E q \in posts : p.key = q.key
    BY <1>a, <1>b, <1>d, <2>1, <2>2, <2>3, SendTypes
  <2> QED  BY <1>a, <1>b, <1>d, <1>e, <2>1, <2>4, <2>5, FormStep
<1>4. ASSUME NEW n \in 1 .. MaxSize, ChangeNumberOfPeople(n)
      PROVE  IntakeTypeOK' /\ FormTypeOK' /\ KeysFresh' /\ CartTypeOK' /\ form' \in Form \cup {form}
  <2>1. form' \in Form /\ form'.key = form.key /\ form'.status # "done"
    BY <1>4, <1>b, <1>d, FormFields DEF ChangeNumberOfPeople, Form
  <2> QED  BY <1>4, <1>a, <1>c, <1>d, <2>1 DEF ChangeNumberOfPeople
<1>5. ASSUME NEW d \in Dates, selectDate(d)
      PROVE  IntakeTypeOK' /\ FormTypeOK' /\ KeysFresh' /\ CartTypeOK' /\ form' \in Form \cup {form}
  <2>1. form' \in Form /\ form'.key = form.key /\ form'.status # "done"
    BY <1>5, <1>b, <1>d, FormFields DEF selectDate, Form
  <2>2. loads' \in SUBSET Load
    BY <1>5, <1>a, LoadTypes DEF selectDate
  <2> QED  BY <1>5, <1>c, <1>d, <2>1, <2>2 DEF selectDate
<1>6. ASSUME NEW l \in loads, NEW offers \in Answers(l.date, 1), DayAnswered(l, offers)
      PROVE  IntakeTypeOK' /\ FormTypeOK' /\ KeysFresh' /\ CartTypeOK' /\ form' \in Form \cup {form}
  <2>1. offers \in SUBSET Offer
    BY <1>a, AnswersAreOffers, IntakeAssumption DEF Load
  <2>2. form' \in Form /\ form'.key = form.key /\ form'.status # "done"
    BY <1>6, <1>b, <2>1, FormFields DEF DayAnswered, Form
  <2> QED  BY <1>6, <1>a, <1>c, <2>2 DEF DayAnswered
<1>7. ASSUME NEW o \in Offer, ChooseDaySlot(o)
      PROVE  IntakeTypeOK' /\ FormTypeOK' /\ KeysFresh' /\ CartTypeOK' /\ form' \in Form \cup {form}
  <2>1. form' \in Form /\ form'.key = form.key /\ form'.status # "done"
    BY <1>7, <1>b, <1>d, FormFields DEF ChooseDaySlot, Form
  <2> QED  BY <1>7, <1>a, <1>c, <1>d, <2>1 DEF ChooseDaySlot
<1>8. ASSUME NEW p \in posts, ReceiveCart(p)
      PROVE  IntakeTypeOK' /\ FormTypeOK' /\ KeysFresh' /\ CartTypeOK' /\ form' \in Form \cup {form}
  <2>1. form # Nowhere /\ form.status # "done"
    BY <1>8 DEF ReceiveCart, Answered, Mine, KeysFresh
  <2>2. form' \in Form /\ form'.key = IF form'.status = "done" THEN <<mounts, 2>> ELSE <<mounts, 1>>
    BY <1>8, <2>1, EndTypes DEF ReceiveCart
  <2>3. loads' \in SUBSET Load /\ (UNCHANGED cart \/ clearItems)
    BY <1>8, <1>a DEF ReceiveCart
  <2> QED  BY <1>8, <1>a, <1>e, <2>1, <2>2, <2>3, FormStep DEF ReceiveCart, Taken
<1>9. ASSUME NEW p \in posts, ReceiveLate(p)
      PROVE  IntakeTypeOK' /\ FormTypeOK' /\ KeysFresh' /\ CartTypeOK' /\ form' \in Form \cup {form}
  <2>1. IntakeTypeOK' /\ FormTypeOK' /\ KeysFresh'
    BY <1>9 DEF ReceiveLate, Taken, client, IntakeTypeOK, FormTypeOK, KeysFresh
  <2> QED  BY <1>9, <1>e, <2>1 DEF ReceiveLate, client
<1> QED
  BY <1>1, <1>2, <1>3, <1>4, <1>5, <1>6, <1>7, <1>8, <1>9 DEF CartPageNext

LEMMA CartTypes ==
    ASSUME TypeInv, CartNext
    PROVE  IntakeTypeOK' /\ FormTypeOK' /\ KeysFresh' /\ CartTypeOK' /\ DayPicked'
<1> USE DEF TypeInv, TypeOK, client, intake
<1>a. CartTypeOK => {items, saved, wanted} \subseteq SUBSET Projects /\ remote \in SUBSET SUBSET Projects
        /\ hydrated \in BOOLEAN /\ skipNextSync \in BOOLEAN
  BY DEF CartTypeOK
<1>b. ASSUME UNCHANGED <<client, intake>>
      PROVE  IntakeTypeOK' /\ FormTypeOK' /\ KeysFresh' /\ DayPicked'
  BY <1>b DEF IntakeTypeOK, FormTypeOK, KeysFresh, DayPicked, On
<1>c. ASSUME NEW new \in SUBSET Projects, NEW ready \in BOOLEAN, Synced(new, ready, skipNextSync)
      PROVE  saved' \in SUBSET Projects /\ skipNextSync' \in BOOLEAN /\ remote' \in SUBSET SUBSET Projects
  BY <1>a, <1>c DEF Synced
<1>1. ASSUME NEW loaded \in SUBSET Projects, Hydrate(loaded)
      PROVE  IntakeTypeOK' /\ FormTypeOK' /\ KeysFresh' /\ CartTypeOK' /\ DayPicked'
  <2>1. items' \in SUBSET Projects
    BY <1>1, <1>a DEF Hydrate, mergeCartAfterHydration
  <2> QED  BY <1>1, <1>a, <1>b, <1>c, <2>1 DEF Hydrate, CartTypeOK
<1>2. ASSUME NEW i \in Projects, addItem(i)
      PROVE  IntakeTypeOK' /\ FormTypeOK' /\ KeysFresh' /\ CartTypeOK' /\ DayPicked'
  <2>1. items' \in SUBSET Projects /\ wanted' \in SUBSET Projects
    BY <1>2, <1>a DEF addItem
  <2> QED  BY <1>2, <1>a, <1>b, <1>c, <2>1 DEF addItem, CartTypeOK
<1>3. ASSUME NEW i \in Projects, removeItem(i)
      PROVE  IntakeTypeOK' /\ FormTypeOK' /\ KeysFresh' /\ CartTypeOK' /\ DayPicked'
  <2>1. items' \in SUBSET Projects /\ wanted' \in SUBSET Projects
    BY <1>3, <1>a DEF removeItem
  <2>2. CartTypeOK'
    BY <1>3, <1>a, <1>c, <2>1 DEF removeItem, CartTypeOK
  <2>3. CASE UNCHANGED <<form, loads>>
    BY <1>3, <1>b, <2>2, <2>3 DEF removeItem
  <2>4. CASE Editable("cart") /\ form' = [form EXCEPT !.shown = NoDate, !.offers = {}] /\ loads' = {}
    <3>1. form # Nowhere /\ form.status # "done"
      BY <2>4 DEF Editable, On
    <3>2. form' \in Form /\ form'.key = form.key /\ form'.status = form.status
            /\ form'.date = form.date /\ form'.slot = form.slot /\ form'.shown = NoDate
      BY <2>4, <3>1, FormFields DEF Form
    <3>3. UNCHANGED <<mounts, intake>>
      BY <1>3 DEF removeItem
    <3>4. posts' \in SUBSET Post /\ form.key = <<mounts, 1>>
      BY <3>1, <3>3 DEF IntakeTypeOK, KeysFresh
    <3>5. IntakeTypeOK' /\ FormTypeOK' /\ KeysFresh'
      BY <2>4, <3>1, <3>2, <3>3, <3>4, FormStep
    <3>6. DayPicked'
      BY <2>4, <3>2 DEF DayPicked, Editable
    <3> QED  BY <2>2, <3>5, <3>6
  <2> QED  BY <1>3, <2>3, <2>4 DEF removeItem
<1>4. CASE Reload
  <2>1. IntakeTypeOK' /\ FormTypeOK' /\ KeysFresh'
    BY <1>4, GoneTypes DEF Reload
  <2>2. CartTypeOK' /\ DayPicked'
    BY <1>4 DEF Reload, CartTypeOK, DayPicked, On
  <2> QED  BY <2>1, <2>2
<1> QED  BY <1>1, <1>2, <1>3, <1>4 DEF CartNext

LEMMA ServeTypes ==
    ASSUME TypeInv, Serve, UNCHANGED client
    PROVE  IntakeTypeOK' /\ FormTypeOK' /\ KeysFresh' /\ DayPicked'
<1> USE DEF TypeInv, TypeOK, client
<1>a. FormTypeOK' /\ DayPicked'
  BY DEF FormTypeOK, DayPicked, On
<1>b. posts \in SUBSET Post /\ Scopes = {"booking", "cart-order"}
  BY DEF IntakeTypeOK, Scopes, scopeOf, Kinds
<1>c. \A scope \in Scopes : consume(scope) => used' \in [Scopes -> Nat]
  BY DEF IntakeTypeOK, consume
<1>d. ASSUME NEW p \in posts, NEW a \in Outcomes \cup {"none", "counted"}
      PROVE  [p EXCEPT !.answer = a] \in Post /\ [p EXCEPT !.answer = a].key = p.key
  BY <1>b DEF Post
<1>e. ASSUME NEW p \in posts, NEW a \in Outcomes, Answer(p, a)
      PROVE  posts' \in SUBSET Post /\ \A q \in posts' : \E r \in posts : q.key = r.key
  BY <1>b, <1>d, <1>e DEF Answer
<1>f. ASSUME NEW p \in posts, Insert(p)
      PROVE  /\ rows' \in [Keys -> Body \cup {NoBody}] /\ past' \in [Keys -> SUBSET Body]
             /\ made' \in SUBSET Keys /\ \A k \in Keys : rows'[k] # NoBody => k[2] = 1
  <2>1. p.key \in Keys /\ p.body \in Body /\ p.key[2] = 1
    BY <1>b DEF Post, KeysFresh
  <2> QED  BY <1>f, <2>1 DEF Insert, IntakeTypeOK, KeysFresh
<1>g. Outcomes = {"stored", "gone", "refused"}
  BY DEF Outcomes
<1>1. ASSUME NEW p \in posts, CreateBooking(p)
      PROVE  IntakeTypeOK' /\ KeysFresh'
  <2>1. PICK a \in Outcomes : Answer(p, a)
    BY <1>1, <1>g DEF CreateBooking, Keep, Insert
  <2>2. posts' \in SUBSET Post /\ \A q \in posts' : \E r \in posts : q.key = r.key
    BY <1>e, <2>1
  <2>3. used' \in [Scopes -> Nat]
    BY <1>1, <1>b, <1>c DEF CreateBooking, Keep, IntakeTypeOK
  <2>4. Insert(p) \/ UNCHANGED <<rows, past, made>>
    BY <1>1 DEF CreateBooking, Keep
  <2> QED  BY <1>f, <2>2, <2>3, <2>4 DEF IntakeTypeOK, KeysFresh
<1>2. ASSUME NEW p \in posts, CountCartOrder(p)
      PROVE  IntakeTypeOK' /\ KeysFresh'
  <2>1. UNCHANGED <<rows, past, made>> /\ used' \in [Scopes -> Nat]
    BY <1>2, <1>b, <1>c DEF CountCartOrder, IntakeTypeOK
  <2>2. posts' \in SUBSET Post /\ \A q \in posts' : \E r \in posts : q.key = r.key
    BY <1>2, <1>b, <1>d, <1>e, <1>g DEF CountCartOrder
  <2> QED  BY <2>1, <2>2 DEF IntakeTypeOK, KeysFresh
<1>3. ASSUME NEW p \in posts, CreateCartOrder(p)
      PROVE  IntakeTypeOK' /\ KeysFresh'
  <2>1. PICK a \in Outcomes : Answer(p, a)
    BY <1>3, <1>g DEF CreateCartOrder, Keep, Insert
  <2>2. posts' \in SUBSET Post /\ \A q \in posts' : \E r \in posts : q.key = r.key
    BY <1>e, <2>1
  <2>3. Insert(p) \/ UNCHANGED <<rows, past, made>>
    BY <1>3 DEF CreateCartOrder, Keep
  <2> QED  BY <1>3, <1>f, <2>2, <2>3 DEF CreateCartOrder, IntakeTypeOK, KeysFresh
<1>4. ASSUME NEW p \in posts, Lose(p)
      PROVE  IntakeTypeOK' /\ KeysFresh'
  BY <1>4 DEF Lose, IntakeTypeOK, KeysFresh
<1>5. ASSUME NEW k \in Keys, NEW d \in Dates, StaffMoves(k, d)
      PROVE  IntakeTypeOK' /\ KeysFresh'
  <2> DEFINE moved == [rows[k] EXCEPT !.date = d, !.slot = [@ EXCEPT !.date = d]]
  <2>1. rows[k] \in Body /\ moved \in Body
    BY <1>5 DEF StaffMoves, IntakeTypeOK, Body, Offer
  <2>2. /\ rows' = [rows EXCEPT ![k] = moved] /\ past' = [past EXCEPT ![k] = @ \cup {moved}]
        /\ UNCHANGED <<used, made, posts>> /\ rows[k] # NoBody
    BY <1>5 DEF StaffMoves
  <2> HIDE DEF moved
  <2> QED  BY <2>1, <2>2 DEF IntakeTypeOK, KeysFresh
<1>6. ASSUME NewWindow
      PROVE  IntakeTypeOK' /\ KeysFresh'
  BY <1>6 DEF NewWindow, IntakeTypeOK, KeysFresh
<1>7. IntakeTypeOK' /\ KeysFresh'
  BY <1>1, <1>2, <1>3, <1>4, <1>5, <1>6 DEF Serve, createOrdinaryRequest, createPartyRequest
<1> QED  BY <1>a, <1>7

(* What a step of a booking form leaves on the screen is a form of that    *)
(* kind; such steps change nothing on the other side.                      *)
LEMMA BookingKinds ==
    ASSUME TypeInv
    PROVE  /\ OrdinaryNext => form'.kind = "experience" /\ UNCHANGED <<rows, past, used, made>>
           /\ PartyNext => form'.kind = "party" /\ UNCHANGED <<rows, past, used, made>>
<1> USE DEF TypeInv, TypeOK, intake
<1>1. form # Nowhere => form \in Form
  BY FormFields
<1>2. \A kind \in Kinds, step \in Steps : Mount(kind, step) => form'.kind = kind
  BY DEF Mount
<1>3. OrdinaryNext => form'.kind = "experience"
  BY ZenonT(60), <1>1, <1>2 DEF OrdinaryNext, OpenOrdinary, goToNextStep, goToPreviousStep,
        RetryLoad, Submit, CheckFailed, ChangePeople, ChangeDate, LoadAnswered, ChooseSlot,
        CheckAnswered, ReceiveOrdinary, Failed, Succeeded, AtStep, Editable, On, Form, Kinds, Steps
<1>4. PartyNext => form'.kind = "party"
  BY <1>1, <1>2 DEF PartyNext, OpenParty, PartyStep, RetryPartyLoad, SubmitParty, ChangeGuests,
        ChangePartyDate, PartyLoadAnswered, ChoosePartySlot, ReceiveParty,
        Failed, Succeeded, Editable, On, Form, Kinds, Steps
<1>5. OrdinaryNext => UNCHANGED <<rows, past, used, made>>
  BY DEF OrdinaryNext, OpenOrdinary, Mount, goToNextStep, goToPreviousStep, RetryLoad, Submit,
        CheckFailed, ChangePeople, ChangeDate, LoadAnswered, ChooseSlot, CheckAnswered,
        ReceiveOrdinary
<1>6. PartyNext => UNCHANGED <<rows, past, used, made>>
  BY DEF PartyNext, OpenParty, Mount, PartyStep, RetryPartyLoad, SubmitParty, ChangeGuests,
        ChangePartyDate, PartyLoadAnswered, ChoosePartySlot, ReceiveParty
<1> QED  BY <1>3, <1>4, <1>5, <1>6

LEMMA DayPickedStep ==
    ASSUME TypeInv, OrdinaryNext \/ PartyNext \/ LeaveForm \/ GiveUp \/ CartPageNext
    PROVE  DayPicked'
<1> USE DEF TypeInv, TypeOK
<1>1. form # Nowhere => form \in Form
  BY FormFields
<1>2. CASE OrdinaryNext \/ PartyNext
  BY <1>2, BookingKinds DEF DayPicked, On
<1>3. CASE LeaveForm
  BY <1>3 DEF LeaveForm, DayPicked, On
<1>4. CASE GiveUp
  BY <1>4, <1>1 DEF GiveUp, Mine, Failed, Form, DayPicked, On
<1>5. CASE CartPageNext
  <2>1. CASE OpenCart
    BY <2>1 DEF OpenCart, Mount, DayPicked, On
  <2>2. CASE shiftMonth \/ SubmitCart \/ \E n \in 1 .. MaxSize : ChangeNumberOfPeople(n)
    BY <1>1, <2>2 DEF shiftMonth, SubmitCart, ChangeNumberOfPeople, CartFields, Editable, On, DayPicked, Form
  <2>3. ASSUME NEW d \in Dates, selectDate(d)  PROVE DayPicked'
    BY <1>1, <2>3 DEF selectDate, CartFields, Editable, On, DayPicked, Form
  <2>4. ASSUME NEW l \in loads, NEW offers, DayAnswered(l, offers)  PROVE DayPicked'
    BY <1>1, <2>4 DEF DayAnswered, Editable, On, DayPicked, Form
  <2>5. ASSUME NEW o \in Offer, ChooseDaySlot(o)  PROVE DayPicked'
    BY <1>1, <2>5 DEF ChooseDaySlot, CartFields, Editable, On, DayPicked, Form
  <2>6. ASSUME NEW p \in posts, ReceiveCart(p)  PROVE DayPicked'
    BY <1>1, <2>6 DEF ReceiveCart, Failed, Succeeded, On, DayPicked, Form
  <2>7. ASSUME NEW p \in posts, ReceiveLate(p)  PROVE DayPicked'
    BY <2>7 DEF ReceiveLate, client, On, DayPicked
  <2> QED  BY <1>5, <2>1, <2>2, <2>3, <2>4, <2>5, <2>6, <2>7 DEF CartPageNext
<1> QED  BY <1>2, <1>3, <1>4, <1>5

(* Every row, form, load and POST is what its declaration says, and no key *)
(* is used by two forms or for two successes of one.                       *)
LEMMA TypesKept == Spec => []TypeInv
<1>1. Init => TypeInv
  <2>1. Init => IntakeTypeOK  BY DEF Init, IntakeInit, IntakeTypeOK
  <2>2. Init => FormTypeOK  BY IntakeAssumption DEF Init, FormInit, FormTypeOK
  <2>3. Init => CartTypeOK  BY DEF Init, CartInit, CartTypeOK
  <2>4. Init => KeysFresh  BY DEF Init, FormInit, IntakeInit, KeysFresh
  <2>5. Init => DayPicked  BY DEF Init, FormInit, DayPicked, On
  <2> QED  BY <2>1, <2>2, <2>3, <2>4, <2>5 DEF TypeInv, TypeOK
<1>2. TypeInv /\ [Next]_vars => TypeInv'
  <2> SUFFICES ASSUME TypeInv, [Next]_vars  PROVE TypeInv'
    OBVIOUS
  <2> USE DEF TypeInv, TypeOK
  <2>1. UNCHANGED cart => CartTypeOK'
    BY DEF cart, CartTypeOK
  <2>2. CASE (OrdinaryNext \/ PartyNext \/ LeaveForm \/ GiveUp) /\ UNCHANGED cart
    BY <2>1, <2>2, OrdinaryTypes, PartyTypes, LeaveTypes, DayPickedStep
  <2>3. CASE CartPageNext
    BY <2>3, CartPageTypes, DayPickedStep
  <2>4. CASE CartNext
    BY <2>4, CartTypes
  <2>5. CASE Serve /\ UNCHANGED <<client, cart>>
    BY <2>1, <2>5, ServeTypes
  <2>6. CASE UNCHANGED vars
    BY <2>6 DEF vars, client, cart, intake, IntakeTypeOK, FormTypeOK, CartTypeOK, KeysFresh, DayPicked, On
  <2> QED  BY <2>2, <2>3, <2>4, <2>5, <2>6 DEF Next
<1> QED  BY <1>1, <1>2, PTL DEF Spec

(* Every row, form, load and POST is what its declaration says.            *)
THEOREM TypeCorrect == Spec => []TypeOK
<1>1. TypeInv => TypeOK  BY DEF TypeInv
<1> QED  BY <1>1, TypesKept, PTL

-----------------------------------------------------------------------------
(* The cart.                                                               *)

(* Hydration loses nothing the customer has added meanwhile, and from then *)
(* on the browser's copy is the cart.                                      *)
THEOREM CartIsKept == Spec => []CartKept
<1>1. Init => CartKept
  BY DEF Init, CartInit, CartKept
<1>2. CartKept /\ [Next]_vars => CartKept'
  <2> SUFFICES ASSUME CartKept, [Next]_vars  PROVE CartKept'
    OBVIOUS
  <2>1. UNCHANGED cart => CartKept'
    BY DEF CartKept, cart
  <2>2. clearItems => CartKept'
    BY DEF CartKept, clearItems
  <2>3. CASE CartPageNext
    BY <2>1, <2>2, <2>3 DEF CartPageNext, OpenCart, shiftMonth, SubmitCart, ChangeNumberOfPeople,
        selectDate, DayAnswered, ChooseDaySlot, ReceiveCart, ReceiveLate, cart
  <2>4. CASE CartNext
    BY <2>4 DEF CartNext, Hydrate, addItem, removeItem, Reload, Synced, mergeCartAfterHydration, CartKept
  <2> QED  BY <2>1, <2>3, <2>4 DEF Next, vars
<1> QED  BY <1>1, <1>2, PTL DEF Spec

-----------------------------------------------------------------------------
(* What the API stores.                                                    *)

(* However often a form is submitted, it leaves at most one request: all   *)
(* its POSTs have one key, and after a success it posts no more.           *)
THEOREM FormsLeaveOneRequest == Spec => []OneRequestPerForm
<1>1. TypeInv => OneRequestPerForm
  BY DEF TypeInv, KeysFresh, OneRequestPerForm, Keys
<1> QED  BY <1>1, TypesKept, PTL

LEMMA KeysFinite == IsFiniteSet(Keys)
<1>1. IsFiniteSet(Mounts)
  BY FS_Interval, IntakeAssumption DEF Mounts
<1>2. IsFiniteSet(1 .. 2)
  <2>1. 1 \in Int /\ 2 \in Int  OBVIOUS
  <2> QED  BY <2>1, FS_Interval, Zenon
<1> QED  BY <1>1, <1>2, FS_Product DEF Keys

-----------------------------------------------------------------------------
(* Availability.                                                           *)

(* A step of the cart or of its page leaves a booking form alone, or puts  *)
(* a form on the screen that is none.                                      *)
LEMMA CartLeavesForms ==
    ASSUME TypeInv, CartPageNext \/ CartNext, NEW kind \in {"experience", "party"}, Editable(kind)'
    PROVE  UNCHANGED <<form, loads>>
<1> USE DEF TypeInv, TypeOK
<1>1. form # Nowhere => form \in Form
  BY FormFields
<1>2. CASE CartPageNext
  <2>1. CASE OpenCart
    BY <2>1 DEF OpenCart, Mount, Editable, On
  <2>2. CASE shiftMonth \/ SubmitCart \/ \E n \in 1 .. MaxSize : ChangeNumberOfPeople(n)
    BY <1>1, <2>2 DEF shiftMonth, SubmitCart, ChangeNumberOfPeople, CartFields, Editable, On, Form
  <2>3. ASSUME NEW d \in Dates, selectDate(d)  PROVE FALSE
    BY <1>1, <2>3 DEF selectDate, CartFields, Editable, On, Form
  <2>4. ASSUME NEW l \in loads, NEW offers, DayAnswered(l, offers)  PROVE FALSE
    BY <1>1, <2>4 DEF DayAnswered, Editable, On, Form
  <2>5. ASSUME NEW o \in Offer, ChooseDaySlot(o)  PROVE FALSE
    BY <1>1, <2>5 DEF ChooseDaySlot, CartFields, Editable, On, Form
  <2>6. ASSUME NEW p \in posts, ReceiveCart(p)  PROVE FALSE
    BY <1>1, <2>6 DEF ReceiveCart, Failed, Succeeded, Editable, On, Form
  <2> QED  BY <1>2, <2>1, <2>2, <2>3, <2>4, <2>5, <2>6 DEF CartPageNext, ReceiveLate, client
<1>3. CASE CartNext
  BY <1>1, <1>3 DEF CartNext, Hydrate, addItem, removeItem, Reload, client, Editable, On, Form
<1> QED  BY <1>2, <1>3

(* The calendar of an ordinary booking is on the screen in its step only,  *)
(* and an answer that will be used is one for the day it shows.            *)
OrdinaryCalendar ==
    Editable("experience") =>
        /\ form.shown \in {NoDate, form.date}
        /\ form.step # "schedule" => form.offers = {} /\ loads = {}
        /\ \A l \in loads : l.current => l.date = form.shown /\ l.size = form.size
        /\ \A o \in form.offers : o.date = form.shown /\ o.size = form.size
        /\ form.slot # NoSlot => form.slot.date = form.date /\ form.slot.size = form.size

(* Of a party, an answer that will be used is one for its day.             *)
PartyList ==
    (Editable("party") /\ form.date # NoDate) =>
        /\ \A l \in loads : l.current => l.date = form.date
        /\ Loading \/ \A o \in form.offers : o.date = form.date
        /\ form.slot # NoSlot => form.slot.date = form.date

LEMMA OrdinaryCalendarStep ==
    ASSUME TypeInv, OrdinaryCalendar, OrdinaryNext
    PROVE  OrdinaryCalendar'
<1> USE DEF TypeInv, TypeOK
<1>1. form # Nowhere => form \in Form /\ form.slot \in Offer \cup {NoSlot} /\ form.offers \in SUBSET Offer
  BY FormFields
<1>2. loads \in SUBSET Load /\ NoSlot \notin Offer /\ NoDate \notin Dates
  BY NoSlotAssumption, IntakeAssumption DEF FormTypeOK
<1>3. ASSUME NEW l \in Outdated  PROVE ~ l.current
  BY <1>2, <1>3 DEF Outdated, Load
<1>4. ASSUME NEW d, NEW l \in Ask(d), l.current
      PROVE  l.date = d /\ l.size = form.size
  BY <1>3, <1>4 DEF Ask
<1>5. CASE OpenOrdinary
  BY <1>5 DEF OpenOrdinary, Mount, OrdinaryCalendar, Editable, On
<1>6. CASE goToNextStep \/ goToPreviousStep
  BY <1>1, <1>6 DEF goToNextStep, goToPreviousStep, AtStep, OrdinaryCalendar, Editable, On, Form
<1>7. CASE RetryLoad
  BY <1>1, <1>4, <1>7 DEF RetryLoad, OrdinaryCalendar, Editable, On, Form
<1>8. CASE Submit \/ CheckFailed
  <2>1. /\ form \in Form /\ loads' = loads
        /\ \E to, body : form' = [form EXCEPT !.status = to, !.sent = body]
        /\ Editable("experience")
    BY <1>1, <1>8 DEF Submit, CheckFailed, Editable, On
  <2>2. /\ form'.kind = form.kind /\ form'.step = form.step /\ form'.size = form.size
        /\ form'.date = form.date /\ form'.slot = form.slot /\ form'.shown = form.shown
        /\ form'.offers = form.offers
    BY <2>1 DEF Form
  <2> QED  BY <2>1, <2>2 DEF OrdinaryCalendar
<1>9. ASSUME NEW n \in 1 .. MaxSize, ChangePeople(n)  PROVE OrdinaryCalendar'
  BY <1>1, <1>9 DEF ChangePeople, OrdinaryCalendar, Editable, On, Form
<1>10. ASSUME NEW d \in Dates \cup {NoDate}, ChangeDate(d)  PROVE OrdinaryCalendar'
  <2>1. /\ form'.shown = d /\ form'.date = d /\ form'.offers = {} /\ form'.slot = NoSlot
        /\ form'.step = "schedule" /\ form'.size = form.size /\ loads' = Ask(d)
    BY <1>1, <1>10 DEF ChangeDate, Editable, On, Form
  <2> QED  BY <1>4, <2>1 DEF OrdinaryCalendar
<1>11. ASSUME NEW l \in loads, NEW offers \in Answers(l.date, l.size), LoadAnswered(l, offers)
       PROVE  OrdinaryCalendar'
  <2>1. \A o \in offers : o.date = l.date /\ o.size = l.size
    BY <1>2, AnswersAreOffers DEF Load
  <2> QED  BY <1>1, <1>11, <2>1 DEF LoadAnswered, OrdinaryCalendar, Editable, On, Form
<1>12. ASSUME NEW o \in Offer, ChooseSlot(o)  PROVE OrdinaryCalendar'
  BY <1>1, <1>2, <1>12 DEF ChooseSlot, OrdinaryCalendar, Editable, On, Form, Offer
<1>13. ASSUME On("experience"), form.status # "done", OrdinaryCalendar
       PROVE  \A l \in Revised : l.current => l.date = form.shown /\ l.size = form.size
  BY <1>4, <1>13 DEF Revised, OrdinaryCalendar, Editable
<1>14. ASSUME NEW offers, CheckAnswered(offers)  PROVE OrdinaryCalendar'
  <2>1. /\ On("experience") /\ form.status # "done" /\ form'.shown = form.shown /\ form'.date = form.date
        /\ form'.offers = form.offers /\ form'.slot \in {form.slot, NoSlot}
        /\ form'.step = form.step /\ form'.size = form.size /\ loads' \in {loads, Revised}
    BY <1>1, <1>14 DEF CheckAnswered, On, Form, Failed
  <2>2. form.step # "schedule" => Revised = loads
    BY DEF Revised
  <2> QED  BY <1>13, <2>1, <2>2 DEF OrdinaryCalendar, Editable
<1>15. ASSUME NEW p \in posts, ReceiveOrdinary(p)  PROVE OrdinaryCalendar'
  <2>1. On("experience") /\ form.status # "done"
    BY <1>15 DEF ReceiveOrdinary, Answered, Mine, KeysFresh
  <2>2. form' # Nowhere /\ form'.status = "done" => OrdinaryCalendar'
    BY DEF OrdinaryCalendar, Editable
  <2>3. CASE form' = Succeeded(form)
    BY <1>1, <2>1, <2>3 DEF Succeeded, On, Form, OrdinaryCalendar, Editable
  <2>4. CASE form' = Failed(form) /\ loads' = loads
    BY <1>1, <2>1, <2>4 DEF Failed, On, Form, OrdinaryCalendar, Editable
  <2>5. CASE form.step = "schedule" /\ form' = [Failed(form) EXCEPT !.slot = NoSlot] /\ loads' = Revised
    BY <1>1, <1>13, <2>1, <2>5 DEF Failed, On, Form, OrdinaryCalendar, Editable
  <2>6. CASE form' = AtStep([Failed(form) EXCEPT !.slot = NoSlot], "schedule") /\ loads' = {}
    BY <1>1, <2>1, <2>6 DEF Failed, AtStep, On, Form, OrdinaryCalendar, Editable
  <2> QED  BY <1>15, <2>3, <2>4, <2>5, <2>6 DEF ReceiveOrdinary
<1> QED
  BY <1>5, <1>6, <1>7, <1>8, <1>9, <1>10, <1>11, <1>12, <1>14, <1>15 DEF OrdinaryNext

LEMMA PartyListStep ==
    ASSUME TypeInv, PartyList, PartyNext
    PROVE  PartyList'
<1> USE DEF TypeInv, TypeOK
<1>1. form # Nowhere => form \in Form /\ form.slot \in Offer \cup {NoSlot} /\ form.offers \in SUBSET Offer
  BY FormFields
<1>2. loads \in SUBSET Load /\ NoSlot \notin Offer
  BY NoSlotAssumption DEF FormTypeOK
<1>3. ASSUME NEW l \in Outdated  PROVE ~ l.current
  BY <1>2, <1>3 DEF Outdated, Load
<1>4. CASE OpenParty
  BY <1>4 DEF OpenParty, Mount, PartyList, Editable, On
<1>5. CASE PartyStep \/ \E n \in 1 .. MaxSize : ChangeGuests(n)
  BY <1>1, <1>5 DEF PartyStep, ChangeGuests, PartyList, Editable, On, Form, Loading
<1>6. CASE RetryPartyLoad
  BY <1>1, <1>3, <1>6 DEF RetryPartyLoad, PartyList, Editable, On, Form, Loading
<1>7. CASE SubmitParty
  <2>1. /\ form \in Form /\ loads' = loads /\ Editable("party")
        /\ \/ \E sent : form' = [form EXCEPT !.status = "posting", !.sent = sent]
           \/ \E step : form' = [form EXCEPT !.step = step]
    BY <1>1, <1>7 DEF SubmitParty, Editable, On
  <2>2. /\ form'.kind = form.kind /\ form'.date = form.date /\ form'.slot = form.slot
        /\ form'.offers = form.offers
    BY <2>1 DEF Form
  <2> QED  BY <2>1, <2>2 DEF PartyList, Loading
<1>8. ASSUME NEW d \in Dates \cup {NoDate}, ChangePartyDate(d)  PROVE PartyList'
  <2>1. form' \in Form /\ form'.date = d /\ form'.slot = NoSlot
    BY <1>1, <1>8, PartyTypes, BookingKinds, FormFields DEF ChangePartyDate, Editable, On, Form
  <2>2. CASE d = NoDate
    BY <2>1, <2>2 DEF PartyList
  <2>3. CASE d # NoDate
    <3> DEFINE fresh == [date |-> d, size |-> 1, current |-> TRUE]
    <3>1. loads' = Outdated \cup {fresh}
      BY <1>8, <2>3 DEF ChangePartyDate
    <3>2. fresh.current /\ fresh.date = d
      OBVIOUS
    <3> HIDE DEF fresh
    <3>3. Loading' /\ \A l \in loads' : l.current => l.date = d
      BY <1>3, <3>1, <3>2 DEF Loading
    <3> QED  BY <2>1, <3>3 DEF PartyList
  <2> QED  BY <2>2, <2>3
<1>9. ASSUME NEW l \in loads, NEW offers \in Answers(l.date, l.size), PartyLoadAnswered(l, offers)
      PROVE  PartyList'
  <2>1. \A o \in offers : o.date = l.date
    BY <1>2, AnswersAreOffers DEF Load
  <2>2. CASE l.current
    BY <1>1, <1>9, <2>1, <2>2 DEF PartyLoadAnswered, PartyList, Editable, On, Form, Loading
  <2>3. CASE ~ l.current
    BY <1>1, <1>9, <2>3 DEF PartyLoadAnswered, PartyList, Editable, On, Form, Loading
  <2> QED  BY <2>2, <2>3
<1>10. ASSUME NEW o \in Offer, ChoosePartySlot(o)  PROVE PartyList'
  BY <1>1, <1>2, <1>10 DEF ChoosePartySlot, PartyList, Editable, On, Form, Loading
<1>11. ASSUME NEW p \in posts, ReceiveParty(p)  PROVE PartyList'
  <2>1. On("party") /\ form.status # "done"
    BY <1>11 DEF ReceiveParty, Answered, Mine, KeysFresh
  <2>2. form \in Form
    BY <1>1, <2>1 DEF On
  <2>3. CASE p.answer = "stored"
    <3>1. form'.status = "done"
      BY <1>11, <2>2, <2>3 DEF ReceiveParty, Succeeded, Form
    <3> QED  BY <3>1 DEF PartyList, Editable
  <2>4. CASE p.answer # "stored"
    <3>1. /\ form' = Failed(form) /\ loads' = loads
      BY <1>11, <2>4 DEF ReceiveParty
    <3>2. /\ form'.date = form.date /\ form'.slot = form.slot /\ form'.offers = form.offers
          /\ form'.kind = form.kind
      BY <2>2, <3>1 DEF Failed, Form
    <3> QED  BY <2>1, <3>1, <3>2 DEF PartyList, Editable, On, Loading
  <2> QED  BY <2>3, <2>4
<1> QED
  BY <1>4, <1>5, <1>6, <1>7, <1>8, <1>9, <1>10, <1>11 DEF PartyNext

Matching == OrdinaryCalendar /\ PartyList

LEMMA MatchingKept == Spec => []Matching
<1> USE DEF Matching
<1>1. Init => Matching
  BY DEF Init, FormInit, OrdinaryCalendar, PartyList, Editable, On
<1>2. TypeInv /\ Matching /\ [Next]_vars => Matching'
  <2> SUFFICES ASSUME TypeInv, Matching, [Next]_vars  PROVE Matching'
    OBVIOUS
  <2>1. UNCHANGED <<form, loads>> => Matching'
    BY DEF OrdinaryCalendar, PartyList, Editable, On, Loading
  <2>2. CASE OrdinaryNext
    BY <2>2, OrdinaryCalendarStep, BookingKinds DEF PartyList, Editable, On
  <2>3. CASE PartyNext
    BY <2>3, PartyListStep, BookingKinds DEF OrdinaryCalendar, Editable, On
  <2>4. CASE LeaveForm
    BY <2>4 DEF LeaveForm, OrdinaryCalendar, PartyList, Editable, On
  <2>5. CASE GiveUp
    <3>1. form' = form \/ (form # Nowhere /\ form.status # "done" /\ form' = Failed(form))
      BY <2>5 DEF GiveUp, Mine, TypeInv, KeysFresh
    <3>2. form # Nowhere => form \in Form
      BY FormFields DEF TypeInv, TypeOK
    <3>3. loads' = loads
      BY <2>5 DEF GiveUp
    <3>4. CASE form # Nowhere /\ form.status # "done" /\ form' = Failed(form)
      <4>1. OrdinaryCalendar'
        BY <3>2, <3>3, <3>4 DEF Failed, OrdinaryCalendar, Editable, On, Form
      <4>2. PartyList'
        BY <3>2, <3>3, <3>4 DEF Failed, PartyList, Editable, On, Form, Loading
      <4> QED  BY <4>1, <4>2
    <3> QED  BY <2>1, <3>1, <3>3, <3>4
  <2>6. CASE CartPageNext \/ CartNext
    BY <2>1, <2>6, CartLeavesForms DEF OrdinaryCalendar, PartyList
  <2> QED  BY <2>1, <2>2, <2>3, <2>4, <2>5, <2>6 DEF Next, vars, client
<1> QED  BY <1>1, <1>2, TypesKept, PTL DEF Spec

(* However availability answers overtake each other, and wherever the      *)
(* customer goes while they are under way, the starts on the screen and    *)
(* the chosen one belong to the day and the group the form shows.          *)
THEOREM SlotsMatch == Spec => []SlotsMatchForm
<1>1. Matching => SlotsMatchForm
  BY DEF Matching, OrdinaryCalendar, PartyList, SlotsMatchForm
<1> QED  BY <1>1, MatchingKept, PTL

-----------------------------------------------------------------------------
(* Submissions.                                                            *)

(* What a form has captured: a start on the day that goes with it.         *)
SentKept ==
    (form # Nowhere /\ form.sent # NoBody) =>
        /\ form.sent.kind = form.kind
        /\ form.kind # "cart" => form.sent.date = form.sent.slot.date

SameForm == form # Nowhere /\ form' # Nowhere /\ form'.kind = form.kind /\ form'.key = form.key

(* All that a step in the tab may do to the form and its POSTs: the form is*)
(* filled in, ...                                                          *)
Retyped ==
    /\ SameForm /\ form.status # "done" /\ posts' = posts
    /\ \/ form'.status = form.status /\ form'.sent = form.sent
       \/ form.status # "posting" /\ form'.status \in {"idle", "checking"} /\ SentKept'

(* ... posted, ...                                                         *)
Posted ==
    /\ SameForm /\ form.status \notin {"posting", "done"} /\ form'.status = "posting"
    /\ form'.sent \in Body /\ SentKept'
    /\ posts' = posts \cup {[key |-> form.key, body |-> form'.sent, live |-> TRUE, answer |-> "none"]}

(* ... it ends, with an answer or without one, ...                         *)
Ended(p) ==
    /\ Mine(p) /\ form' # Nowhere /\ form'.kind = form.kind
    /\ \/ /\ form'.status = "idle" /\ form'.key = form.key /\ form'.sent = NoBody
          /\ posts' = posts \ {p} \/ Abandon({p})
       \/ /\ form'.status = "done" /\ form'.key[1] = form.key[1] /\ form'.sent = form.sent
          /\ p.answer = "stored" /\ posts' = posts \ {p}

(* ... a form is opened, or left, ...                                      *)
Opened ==
    /\ form' # Nowhere /\ form'.key = <<mounts + 1, 1>> /\ form'.status = "idle"
    /\ form'.sent = NoBody /\ posts' = posts

Left == form' = Nowhere /\ \E gone \in SUBSET posts : Abandon(gone)

(* ... or what a form before it has posted comes to its end.               *)
Late(p) == ~ Mine(p) /\ form' = form /\ (posts' = posts \ {p} \/ Abandon({p}))

TabStep ==
    \/ Retyped \/ Posted \/ Opened \/ Left \/ UNCHANGED <<form, posts>>
    \/ \E p \in posts : Ended(p) \/ Late(p)

InTheTab == OrdinaryNext \/ PartyNext \/ LeaveForm \/ GiveUp \/ CartPageNext \/ CartNext

LEMMA MountOpens ==
    ASSUME NEW kind \in Kinds, NEW step \in Steps, Mount(kind, step), TypeInv
    PROVE  Opened
<1>1. form' # Nowhere
  BY NowhereAssumption, MountTypes
<1> QED  BY <1>1 DEF Mount, Opened, intake

(* Success: another key of the same mount.                                 *)
LEMMA SuccessKeeps ==
    ASSUME TypeInv, form # Nowhere
    PROVE  /\ Succeeded(form).status = "done" /\ Succeeded(form).key[1] = form.key[1]
           /\ Succeeded(form).sent = form.sent /\ Succeeded(form).kind = form.kind
<1>1. form \in Form /\ form.key \in Mounts \X Nat
  BY FormFields DEF TypeInv, TypeOK
<1>2. succeeded(form.key)[1] = form.key[1]
  BY DEF succeeded
<1> QED  BY <1>1, <1>2 DEF Succeeded, Form

LEMMA OrdinarySteps ==
    ASSUME TypeInv, Matching, SentKept, OrdinaryNext
    PROVE  TabStep
<1> USE DEF TypeInv, TypeOK, intake
<1>1. form # Nowhere => form \in Form
  BY FormFields
<1>2. form' # Nowhere /\ form' \in Form
  BY OrdinaryTypes, NowhereAssumption
<1>3. Editable("experience") => form # Nowhere /\ form.status # "done"
  BY DEF Editable, On
<1>4. form # Nowhere /\ form'.kind = form.kind /\ form'.key = form.key => SameForm
  BY <1>2 DEF SameForm
<1>5. ASSUME SameForm, form.status # "done", posts' = posts, form'.status = form.status, form'.sent = form.sent
      PROVE  TabStep
  BY <1>5 DEF TabStep, Retyped
<1>6. CASE OpenOrdinary
  BY <1>6, MountOpens DEF OpenOrdinary, TabStep, Kinds, Steps
<1>7. CASE goToNextStep \/ goToPreviousStep
  BY <1>1, <1>3, <1>4, <1>5, <1>7 DEF goToNextStep, goToPreviousStep, AtStep, Form
<1>8. CASE RetryLoad
  BY <1>8, <1>3, <1>4, <1>5 DEF RetryLoad
<1>9. CASE Submit
  <2>1. SameForm /\ form.status = "idle" /\ posts' = posts /\ form'.status = "checking"
    BY <1>1, <1>3, <1>4, <1>9 DEF Submit, Form
  <2>2. form.slot.date = form.date
    BY <1>9 DEF Submit, Matching, OrdinaryCalendar
  <2>3. SentKept'
    BY <1>1, <1>9, <2>2 DEF Submit, SentKept, Editable, On, Form
  <2> QED  BY <2>1, <2>3 DEF TabStep, Retyped
<1>10. CASE CheckFailed
  <2>1. SameForm /\ form.status = "checking" /\ posts' = posts /\ form'.status = "idle" /\ form'.sent = NoBody
    BY <1>1, <1>4, <1>10 DEF CheckFailed, On, Form
  <2> QED  BY <2>1 DEF TabStep, Retyped, SentKept
<1>11. ASSUME NEW n \in 1 .. MaxSize, ChangePeople(n)  PROVE TabStep
  BY <1>1, <1>3, <1>4, <1>5, <1>11 DEF ChangePeople, Form
<1>12. ASSUME NEW d \in Dates \cup {NoDate}, ChangeDate(d)  PROVE TabStep
  BY <1>1, <1>3, <1>4, <1>5, <1>12 DEF ChangeDate, Form
<1>13. ASSUME NEW l \in loads, NEW offers, LoadAnswered(l, offers)  PROVE TabStep
  BY <1>1, <1>3, <1>4, <1>5, <1>13 DEF LoadAnswered, Form
<1>14. ASSUME NEW o \in Offer, ChooseSlot(o)  PROVE TabStep
  BY <1>1, <1>3, <1>4, <1>5, <1>14 DEF ChooseSlot, Form
<1>15. ASSUME NEW offers, form.sent # NoBody, CheckAnswered(offers)  PROVE TabStep
  <2>1. form # Nowhere /\ form.status = "checking" /\ form.sent \in Body
    BY <1>15, FormFields DEF CheckAnswered, On
  <2>2. CASE form' = [form EXCEPT !.status = "posting"] /\ Send(form.key, form.sent)
    BY <1>1, <1>4, <2>1, <2>2 DEF Form, Send, SentKept, Posted, TabStep
  <2>3. CASE UNCHANGED posts /\ (form' = Failed(form)
             \/ form' = [form EXCEPT !.status = "idle", !.sent = NoBody, !.slot = NoSlot])
    <3>1. SameForm /\ form'.status = "idle" /\ form'.sent = NoBody
      BY <1>1, <1>4, <2>1, <2>3 DEF Failed, failed, Form
    <3> QED  BY <2>1, <2>3, <3>1 DEF Retyped, TabStep, SentKept
  <2> QED  BY <1>15, <2>2, <2>3 DEF CheckAnswered
<1>16. ASSUME NEW p \in posts, ReceiveOrdinary(p)  PROVE TabStep
  <2>1. Mine(p) /\ form # Nowhere /\ form.status # "done" /\ form \in Form /\ posts' = posts \ {p}
    BY <1>1, <1>16 DEF ReceiveOrdinary, Answered, Mine, KeysFresh, Taken
  <2>2. CASE p.answer = "stored"
    <3>1. form' = Succeeded(form)
      BY <1>16, <2>2 DEF ReceiveOrdinary
    <3> QED  BY <1>2, <2>1, <2>2, <3>1, SuccessKeeps DEF TabStep, Ended
  <2>3. CASE p.answer # "stored"
    <3>1. form'.status = "idle" /\ form'.key = form.key /\ form'.sent = NoBody /\ form'.kind = form.kind
      BY <1>16, <2>1, <2>3 DEF ReceiveOrdinary, Failed, failed, AtStep, Form
    <3> QED  BY <1>2, <2>1, <3>1 DEF TabStep, Ended
  <2> QED  BY <2>2, <2>3
<1> QED
  BY <1>6, <1>7, <1>8, <1>9, <1>10, <1>11, <1>12, <1>13, <1>14, <1>15, <1>16 DEF OrdinaryNext

LEMMA PartySteps ==
    ASSUME TypeInv, Matching, SentKept, PartyNext
    PROVE  TabStep
<1> USE DEF TypeInv, TypeOK, intake
<1>1. form # Nowhere => form \in Form
  BY FormFields
<1>2. form' # Nowhere /\ form' \in Form
  BY PartyTypes, NowhereAssumption
<1>3. Editable("party") => form # Nowhere /\ form.status # "done" /\ form.kind = "party"
  BY DEF Editable, On
<1>4. form # Nowhere /\ form'.kind = form.kind /\ form'.key = form.key => SameForm
  BY <1>2 DEF SameForm
<1>5. ASSUME SameForm, form.status # "done", posts' = posts, form'.status = form.status, form'.sent = form.sent
      PROVE  TabStep
  BY <1>5 DEF TabStep, Retyped
<1>6. CASE OpenParty
  BY <1>6, MountOpens DEF OpenParty, TabStep, Kinds, Steps
<1>7. CASE PartyStep
  BY <1>1, <1>3, <1>4, <1>5, <1>7 DEF PartyStep, Form
<1>8. CASE RetryPartyLoad
  BY <1>1, <1>3, <1>4, <1>5, <1>8 DEF RetryPartyLoad, Form
<1>9. CASE SubmitParty
  <2> DEFINE body == [kind |-> "party", date |-> form.date, size |-> form.size,
                      slot |-> form.slot, items |-> {}]
  <2>1. /\ Editable("party") /\ form.status = "idle" /\ form.date # NoDate /\ form.slot # NoSlot
        /\ \/ form' = [form EXCEPT !.status = "posting", !.sent = body] /\ Send(form.key, body)
           \/ \E step \in {"people", "plan", "extras"} :
                form' = [form EXCEPT !.step = step] /\ UNCHANGED posts
    BY <1>9 DEF SubmitParty
  <2>2. body.kind = "party" /\ body.date = body.slot.date /\ body \in Body
    BY <1>3, <2>1, FormFields DEF Matching, PartyList, Body, Kinds
  <2> HIDE DEF body
  <2>3. CASE form' = [form EXCEPT !.status = "posting", !.sent = body] /\ Send(form.key, body)
    BY <1>1, <1>3, <1>4, <2>1, <2>2, <2>3 DEF Form, Send, SentKept, Posted, TabStep
  <2>4. ASSUME NEW step, form' = [form EXCEPT !.step = step], UNCHANGED posts  PROVE TabStep
    BY <1>1, <1>3, <1>4, <1>5, <2>1, <2>4 DEF Form
  <2> QED  BY <2>1, <2>3, <2>4
<1>10. ASSUME NEW n \in 1 .. MaxSize, ChangeGuests(n)  PROVE TabStep
  BY <1>1, <1>3, <1>4, <1>5, <1>10 DEF ChangeGuests, Form
<1>11. ASSUME NEW d \in Dates \cup {NoDate}, ChangePartyDate(d)  PROVE TabStep
  BY <1>1, <1>3, <1>4, <1>5, <1>11 DEF ChangePartyDate, Form
<1>12. ASSUME NEW l \in loads, NEW offers, PartyLoadAnswered(l, offers)  PROVE TabStep
  BY <1>1, <1>3, <1>4, <1>5, <1>12 DEF PartyLoadAnswered, Form
<1>13. ASSUME NEW o \in Offer, ChoosePartySlot(o)  PROVE TabStep
  BY <1>1, <1>3, <1>4, <1>5, <1>13 DEF ChoosePartySlot, Form
<1>14. ASSUME NEW p \in posts, ReceiveParty(p)  PROVE TabStep
  <2>1. Mine(p) /\ form # Nowhere /\ form \in Form /\ posts' = posts \ {p}
    BY <1>1, <1>14 DEF ReceiveParty, Answered, Mine, Taken
  <2>2. CASE p.answer = "stored"
    BY <1>2, <1>14, <2>1, <2>2, SuccessKeeps DEF ReceiveParty, TabStep, Ended
  <2>3. CASE p.answer # "stored"
    <3>1. form'.status = "idle" /\ form'.key = form.key /\ form'.sent = NoBody /\ form'.kind = form.kind
      BY <1>14, <2>1, <2>3 DEF ReceiveParty, Failed, failed, Form
    <3> QED  BY <1>2, <2>1, <3>1 DEF TabStep, Ended
  <2> QED  BY <2>2, <2>3
<1> QED
  BY <1>6, <1>7, <1>8, <1>9, <1>10, <1>11, <1>12, <1>13, <1>14 DEF PartyNext

LEMMA CartPageSteps ==
    ASSUME TypeInv, SentKept, CartPageNext
    PROVE  TabStep
<1> USE DEF TypeInv, TypeOK, intake
<1>1. form # Nowhere => form \in Form /\ form' # Nowhere
  BY FormFields, CartPageTypes, NowhereAssumption
<1>2. CartFields \/ Editable("cart") => form # Nowhere /\ form.status # "done" /\ form.kind = "cart"
  BY DEF CartFields, Editable, On
<1>3. form # Nowhere /\ form'.kind = form.kind /\ form'.key = form.key => SameForm
  BY <1>1 DEF SameForm
<1>4. ASSUME SameForm, form.status # "done", posts' = posts, form'.status = form.status, form'.sent = form.sent
      PROVE  TabStep
  BY <1>4 DEF TabStep, Retyped
<1>5. CASE OpenCart
  BY <1>5, MountOpens DEF OpenCart, TabStep, Kinds, Steps
<1>6. CASE shiftMonth
  BY <1>1, <1>2, <1>3, <1>4, <1>6 DEF shiftMonth, Form
<1>7. CASE SubmitCart
  <2> DEFINE body == [kind |-> "cart", date |-> form.date, size |-> form.size,
                      slot |-> form.slot, items |-> items]
  <2>1. /\ CartFields /\ form.status = "idle" /\ form.slot # NoSlot
        /\ form' = [form EXCEPT !.status = "posting", !.sent = body] /\ Send(form.key, body)
    BY <1>7 DEF SubmitCart
  <2>2. form.date # NoDate
    BY <2>1 DEF DayPicked, CartFields, Editable
  <2>3. body.kind = "cart" /\ body \in Body
    BY <1>2, <2>1, <2>2, FormFields DEF Body, Kinds, CartTypeOK
  <2> HIDE DEF body
  <2> QED  BY <1>1, <1>2, <1>3, <2>1, <2>3 DEF Form, Send, SentKept, Posted, TabStep
<1>8. ASSUME NEW n \in 1 .. MaxSize, ChangeNumberOfPeople(n)  PROVE TabStep
  BY <1>1, <1>2, <1>3, <1>4, <1>8 DEF ChangeNumberOfPeople, Form
<1>9. ASSUME NEW d \in Dates, selectDate(d)  PROVE TabStep
  BY <1>1, <1>2, <1>3, <1>4, <1>9 DEF selectDate, Form
<1>10. ASSUME NEW l \in loads, NEW offers, DayAnswered(l, offers)  PROVE TabStep
  BY <1>1, <1>2, <1>3, <1>4, <1>10 DEF DayAnswered, Form
<1>11. ASSUME NEW o \in Offer, ChooseDaySlot(o)  PROVE TabStep
  BY <1>1, <1>2, <1>3, <1>4, <1>11 DEF ChooseDaySlot, Form
<1>12. ASSUME NEW p \in posts, ReceiveCart(p)  PROVE TabStep
  <2>1. Mine(p) /\ form # Nowhere /\ form \in Form /\ posts' = posts \ {p}
    BY <1>1, <1>12 DEF ReceiveCart, Answered, Mine, Taken
  <2>2. CASE p.answer = "stored"
    BY <1>1, <1>12, <2>1, <2>2, SuccessKeeps DEF ReceiveCart, TabStep, Ended
  <2>3. CASE p.answer # "stored"
    <3>1. form'.status = "idle" /\ form'.key = form.key /\ form'.sent = NoBody /\ form'.kind = form.kind
      BY <1>12, <2>1, <2>3 DEF ReceiveCart, Failed, failed, Form
    <3> QED  BY <1>1, <2>1, <3>1 DEF TabStep, Ended
  <2> QED  BY <2>2, <2>3
<1>13. ASSUME NEW p \in posts, ReceiveLate(p)  PROVE TabStep
  BY <1>13 DEF ReceiveLate, Taken, client, TabStep, Late
<1> QED
  BY <1>5, <1>6, <1>7, <1>8, <1>9, <1>10, <1>11, <1>12, <1>13 DEF CartPageNext

(* In the tab nothing else happens, and nothing happens in the API then.   *)
LEMMA TabSteps ==
    ASSUME TypeInv, Matching, SentKept, InTheTab
    PROVE  TabStep /\ UNCHANGED <<rows, past, used, made>>
<1> USE DEF TypeInv, TypeOK, intake, client
<1>1. form # Nowhere => form \in Form
  BY FormFields
<1>2. CASE OrdinaryNext \/ PartyNext
  BY <1>2, OrdinarySteps, PartySteps, BookingKinds
<1>3. CASE CartPageNext
  <2>1. UNCHANGED <<rows, past, used, made>>
    BY <1>3 DEF CartPageNext, OpenCart, Mount, shiftMonth, SubmitCart, ChangeNumberOfPeople,
        selectDate, DayAnswered, ChooseDaySlot, ReceiveCart, ReceiveLate
  <2> QED  BY <1>3, <2>1, CartPageSteps
<1>4. CASE LeaveForm
  BY <1>4 DEF LeaveForm, TabStep, Left
<1>5. ASSUME NEW p \in posts, form' = IF Mine(p) THEN Failed(form) ELSE form, Abandon({p})
      PROVE  TabStep
  <2>1. CASE ~ Mine(p)
    BY <1>5, <2>1 DEF TabStep, Late
  <2>2. CASE Mine(p)
    <3>1. form # Nowhere /\ form.status # "done"
      BY <2>2 DEF Mine, KeysFresh
    <3>2. form' \in Form /\ form'.status = "idle" /\ form' = Failed(form)
      BY <1>5, <2>2, <3>1, EndTypes
    <3>3. form' # Nowhere /\ form'.kind = form.kind /\ form'.key = form.key /\ form'.sent = NoBody
      BY <1>1, <3>1, <3>2, NowhereAssumption DEF Failed, failed, Form
    <3> QED  BY <1>5, <2>2, <3>2, <3>3 DEF TabStep, Ended
  <2> QED  BY <2>1, <2>2
<1>6. CASE GiveUp
  BY <1>5, <1>6 DEF GiveUp
<1>7. CASE CartNext
  <2>1. CASE UNCHANGED <<form, posts, rows, past, used, made>>
    BY <2>1 DEF TabStep
  <2>2. ASSUME NEW i \in Projects, removeItem(i), ~ UNCHANGED form
        PROVE  TabStep /\ UNCHANGED <<rows, past, used, made>>
    <3>1. form # Nowhere /\ form.status # "done" /\ form' = [form EXCEPT !.shown = NoDate, !.offers = {}]
            /\ UNCHANGED <<rows, past, used, made, posts>>
      BY <2>2 DEF removeItem, Editable, On
    <3>2. form' \in Form /\ form'.kind = form.kind /\ form'.key = form.key /\ form'.sent = form.sent
            /\ form'.status = form.status
      BY <1>1, <3>1 DEF Form
    <3> QED  BY <3>1, <3>2, NowhereAssumption DEF SameForm, Retyped, TabStep
  <2>3. CASE Reload
    BY <2>3 DEF Reload, TabStep, Left
  <2> QED  BY <1>7, <2>1, <2>2, <2>3 DEF CartNext, Hydrate, addItem, removeItem
<1> QED  BY <1>2, <1>3, <1>4, <1>6, <1>7 DEF InTheTab, LeaveForm, GiveUp

(* The same of the other side: at most one POST is answered, counted or    *)
(* lost in a step, and a row keeps all it has been.                        *)
Served(p, a) ==
    /\ posts' = (posts \ {p}) \cup {[p EXCEPT !.answer = a]}
    /\ a = "stored" => p.body \in past'[p.key]
    /\ a = "counted" => p.body.kind = "cart"

LEMMA ServeSteps ==
    ASSUME TypeInv, Serve, \A k \in Keys : rows[k] # NoBody => rows[k] \in past[k]
    PROVE  /\ \/ posts' = posts
              \/ \E p \in posts : \/ posts' = posts \ {p}
                                  \/ \E a \in Outcomes \cup {"counted"} : Served(p, a)
           /\ \A k \in Keys : past[k] \subseteq past'[k]
           /\ \A k \in Keys : rows'[k] # NoBody => rows'[k] \in past'[k]
<1> USE DEF TypeInv, TypeOK
<1> DEFINE Grown == /\ \A k \in Keys : past[k] \subseteq past'[k]
                    /\ \A k \in Keys : rows'[k] # NoBody => rows'[k] \in past'[k]
<1>1. UNCHANGED <<rows, past>> => Grown
  OBVIOUS
<1>2. posts \in SUBSET Post /\ rows \in [Keys -> Body \cup {NoBody}] /\ past \in [Keys -> SUBSET Body]
  BY DEF IntakeTypeOK
<1>3. ASSUME NEW p \in posts, Insert(p)
      PROVE  Grown /\ p.body \in past'[p.key]
  <2>1. p.key \in Keys /\ p.body \in Body
    BY <1>2 DEF Post
  <2> QED  BY <1>2, <1>3, <2>1 DEF Insert
<1>4. ASSUME NEW p \in posts, NEW a \in Outcomes, Answer(p, a), a = "stored" => p.body \in past'[p.key]
      PROVE  posts' = posts \ {p} \/ \E b \in Outcomes \cup {"counted"} : Served(p, b)
  <2>1. CASE p.live
    BY <1>4, <2>1 DEF Answer, Served, Outcomes
  <2>2. CASE ~ p.live
    BY <1>4, <2>2 DEF Answer
  <2> QED  BY <2>1, <2>2
<1>5. ASSUME NEW p \in posts, CreateBooking(p)
      PROVE  Grown /\ (posts' = posts \ {p} \/ \E b \in Outcomes \cup {"counted"} : Served(p, b))
  <2>1. p.key \in Keys
    BY <1>2 DEF Post
  <2>2. CASE Insert(p)
    BY <1>3, <1>4, <2>2 DEF Insert, Outcomes
  <2>3. CASE Keep(p, "stored") /\ rows[p.key] # NoBody /\ SameRequest(rows[p.key], p.body)
    BY <1>1, <1>4, <2>1, <2>3 DEF Keep, SameRequest, Outcomes
  <2>4. CASE Keep(p, "gone") \/ Keep(p, "refused")
    BY <1>1, <1>4, <2>4 DEF Keep, Outcomes
  <2> QED  BY <1>5, <2>2, <2>3, <2>4 DEF CreateBooking
<1>6. ASSUME NEW p \in posts, CountCartOrder(p)
      PROVE  Grown /\ (posts' = posts \ {p} \/ \E b \in Outcomes \cup {"counted"} : Served(p, b))
  <2>1. CASE posts' = (posts \ {p}) \cup {[p EXCEPT !.answer = "counted"]}
    BY <1>1, <1>6, <2>1 DEF CountCartOrder, Served
  <2>2. CASE Answer(p, "refused")
    BY <1>1, <1>4, <1>6, <2>2 DEF CountCartOrder, Outcomes
  <2> QED  BY <1>6, <2>1, <2>2 DEF CountCartOrder
<1>7. ASSUME NEW p \in posts, CreateCartOrder(p)
      PROVE  Grown /\ (posts' = posts \ {p} \/ \E b \in Outcomes \cup {"counted"} : Served(p, b))
  <2>1. p.key \in Keys
    BY <1>2 DEF Post
  <2>2. CASE Insert(p)
    BY <1>3, <1>4, <2>2 DEF Insert, Outcomes
  <2>3. CASE Keep(p, "stored") /\ rows[p.key] # NoBody /\ SameRequest(rows[p.key], p.body)
    BY <1>1, <1>4, <2>1, <2>3 DEF Keep, SameRequest, Outcomes
  <2>4. CASE Keep(p, "refused")
    BY <1>1, <1>4, <2>4 DEF Keep, Outcomes
  <2> QED  BY <1>7, <2>2, <2>3, <2>4 DEF CreateCartOrder
<1>8. ASSUME NEW p \in posts, Lose(p)
      PROVE  Grown /\ posts' = posts \ {p}
  BY <1>1, <1>8 DEF Lose
<1>9. ASSUME NEW k \in Keys, NEW d \in Dates, StaffMoves(k, d)
      PROVE  Grown /\ posts' = posts
  <2> DEFINE moved == [rows[k] EXCEPT !.date = d, !.slot = [@ EXCEPT !.date = d]]
  <2>1. rows' = [rows EXCEPT ![k] = moved] /\ past' = [past EXCEPT ![k] = @ \cup {moved}] /\ posts' = posts
    BY <1>9 DEF StaffMoves
  <2> HIDE DEF moved
  <2> QED  BY <1>2, <2>1
<1>10. NewWindow => Grown /\ posts' = posts
  BY <1>1 DEF NewWindow
<1> QED
  BY <1>5, <1>6, <1>7, <1>8, <1>9, <1>10 DEF Serve, createOrdinaryRequest, createPartyRequest

(* A form waits for one POST at most, the one with what it has captured,   *)
(* and only while it says so.                                              *)
OneLive == \A p, q \in posts : (p.live /\ q.live /\ p.key = q.key) => p = q
AwaitsOwn ==
    \A p \in posts : (form # Nowhere /\ p.live /\ p.key = form.key) =>
        form.status = "posting" /\ p.body = form.sent

(* What the answers claim is true.                                         *)
StoredIsPast ==
    /\ \A k \in Keys : rows[k] # NoBody => rows[k] \in past[k]
    /\ \A p \in posts : p.answer = "stored" => p.body \in past[p.key]

(* Bookings are posted with a start on their day; only cart orders are     *)
(* counted in advance.                                                     *)
BodiesKept ==
    \A p \in posts : /\ p.body.kind # "cart" => p.body.date = p.body.slot.date
                     /\ p.answer = "counted" => p.body.kind = "cart"

Submissions == SentKept /\ OneLive /\ AwaitsOwn /\ StoredIsPast /\ BodiesKept /\ SuccessIsStored

(* What a tab step leaves of the POSTs.                                    *)
LEMMA PostsAfter ==
    ASSUME TypeInv, TabStep, NEW p \in posts'
    PROVE  \/ p \in posts
           \/ ~ p.live /\ \E q \in posts : p.key = q.key /\ p.body = q.body /\ p.answer = q.answer
           \/ Posted /\ p = [key |-> form.key, body |-> form'.sent, live |-> TRUE, answer |-> "none"]
<1>1. posts \in SUBSET Post
  BY DEF TypeInv, TypeOK, IntakeTypeOK
<1>2. ASSUME NEW gone \in SUBSET posts, Abandon(gone), p \notin posts
      PROVE  ~ p.live /\ \E q \in posts : p.key = q.key /\ p.body = q.body /\ p.answer = q.answer
  <2>1. PICK q \in gone : p = [q EXCEPT !.live = FALSE]
    BY <1>1, <1>2, AbandonKeeps
  <2>2. q \in Post /\ q \in posts
    BY <1>1
  <2> QED  BY <2>1, <2>2 DEF Post
<1>3. CASE Posted
  BY <1>3 DEF Posted
<1> QED  BY <1>2, <1>3 DEF TabStep, Retyped, Opened, Left, Ended, Late

LEMMA TabKeeps ==
    ASSUME TypeInv, TypeInv', Submissions, TabStep, UNCHANGED <<rows, past, used, made>>
    PROVE  Submissions'
<1> USE DEF Submissions
<1>1. posts \in SUBSET Post /\ \A p \in posts : p.key \in Keys /\ p.key[1] <= mounts /\ p.key[2] = 1
  BY DEF TypeInv, TypeOK, IntakeTypeOK, KeysFresh, Post
<1>2. mounts \in Nat
  BY DEF TypeInv, TypeOK, FormTypeOK
<1>3. form' # Nowhere /\ form'.status = "done" => form'.key[2] = 2
  BY DEF TypeInv, KeysFresh
<1>4. \A p \in posts' : p.key[2] = 1
  BY DEF TypeInv, KeysFresh
<1>5. SentKept'
  <2>1. CASE SentKept'
    BY <2>1
  <2>2. CASE form' # Nowhere /\ form'.sent # NoBody =>
                form # Nowhere /\ form'.kind = form.kind /\ form'.sent = form.sent
    BY <2>2 DEF SentKept
  <2> QED
    BY <2>1, <2>2 DEF TabStep, Retyped, Posted, Opened, Left, Ended, Late, SameForm, Mine
<1>6. Posted => ~ \E p \in posts : p.live /\ p.key = form.key
  BY DEF Posted, AwaitsOwn, SameForm
<1>7. OneLive'
  <2> SUFFICES ASSUME NEW p \in posts', NEW q \in posts', p.live, q.live, p.key = q.key
               PROVE  p = q
    BY DEF OneLive
  <2> DEFINE new == [key |-> form.key, body |-> form'.sent, live |-> TRUE, answer |-> "none"]
  <2>1. \A r \in {p, q} : (r \in posts) \/ (Posted /\ r = new)
    BY PostsAfter
  <2>2. new.key = form.key
    OBVIOUS
  <2> HIDE DEF new
  <2> QED  BY <1>6, <2>1, <2>2 DEF OneLive
<1>8. AwaitsOwn'
  <2> SUFFICES ASSUME NEW p \in posts', form' # Nowhere, p.live, p.key = form'.key
               PROVE  form'.status = "posting" /\ p.body = form'.sent
    BY DEF AwaitsOwn
  <2>1. CASE Posted
    BY <2>1, <1>6, PostsAfter DEF Posted, SameForm
  <2>2. ASSUME ~ Posted  PROVE p \in posts
    BY <2>2, PostsAfter
  <2>3. CASE Retyped
    BY <2>2, <2>3 DEF Retyped, SameForm, AwaitsOwn
  <2>4. CASE Opened
    BY <1>1, <1>2, <2>4 DEF Opened
  <2>5. ASSUME NEW q \in posts, Ended(q), ~ Posted  PROVE FALSE
    <3>1. form'.status # "done"
      BY <1>3, <1>4
    <3>2. form'.key = form.key /\ q.live /\ q.key = form.key /\ (posts' = posts \ {q} \/ Abandon({q}))
      BY <2>5, <3>1 DEF Ended, Mine
    <3>3. p = q
      BY <2>2, <2>5, <3>2 DEF OneLive
    <3>4. Abandon({q})
      BY <3>2, <3>3
    <3>5. p = [q EXCEPT !.live = FALSE] \/ p \notin {q}
      BY <1>1, <3>4, AbandonKeeps
    <3> QED  BY <1>1, <3>3, <3>5 DEF Post
  <2>6. ASSUME form' = form, ~ Posted  PROVE form'.status = "posting" /\ p.body = form'.sent
    BY <2>2, <2>6 DEF AwaitsOwn
  <2> QED  BY <2>1, <2>3, <2>4, <2>5, <2>6 DEF TabStep, Left, Late
<1>9. StoredIsPast'
  BY <1>1, PostsAfter DEF StoredIsPast
<1>10. BodiesKept'
  <2>1. Posted /\ form'.sent.kind # "cart" => form'.sent.date = form'.sent.slot.date
    BY <1>5, BodyAssumption DEF Posted, SentKept, SameForm
  <2> QED  BY <2>1, PostsAfter DEF BodiesKept
<1>11. SuccessIsStored'
  <2> SUFFICES ASSUME form' # Nowhere, form'.status = "done"
               PROVE  \E k \in Keys : k[1] = form'.key[1] /\ form'.sent \in past[k]
    BY DEF SuccessIsStored
  <2>1. CASE form' = form
    BY <2>1 DEF SuccessIsStored
  <2>2. ASSUME NEW p \in posts, Ended(p)
        PROVE  \E k \in Keys : k[1] = form'.key[1] /\ form'.sent \in past[k]
    BY <1>1, <2>2 DEF Ended, Mine, AwaitsOwn, StoredIsPast
  <2> QED  BY <2>1, <2>2 DEF TabStep, Retyped, Posted, Opened, Left, Late, SameForm
<1> QED  BY <1>5, <1>7, <1>8, <1>9, <1>10, <1>11

LEMMA ServeKeeps ==
    ASSUME TypeInv, Submissions, Serve, UNCHANGED client
    PROVE  Submissions'
<1> USE DEF Submissions, client
<1>1. posts \in SUBSET Post /\ \A p \in posts : p.key \in Keys
  BY DEF TypeInv, TypeOK, IntakeTypeOK, Post
<1>2. /\ \A k \in Keys : past[k] \subseteq past'[k]
      /\ \A k \in Keys : rows'[k] # NoBody => rows'[k] \in past'[k]
  BY ServeSteps DEF StoredIsPast
<1>3. \/ posts' \subseteq posts
      \/ \E p \in posts, a \in Outcomes \cup {"counted"} : Served(p, a)
  BY ServeSteps DEF StoredIsPast
<1>4. SentKept' /\ SuccessIsStored'
  <2>1. SentKept'
    BY DEF SentKept
  <2>2. SuccessIsStored'
    BY <1>2 DEF SuccessIsStored
  <2> QED  BY <2>1, <2>2
<1>5. CASE posts' \subseteq posts
  <2>1. OneLive' /\ AwaitsOwn' /\ BodiesKept'
    BY <1>5 DEF OneLive, AwaitsOwn, BodiesKept
  <2>2. StoredIsPast'
    BY <1>1, <1>2, <1>5 DEF StoredIsPast
  <2> QED  BY <1>4, <2>1, <2>2
<1>6. ASSUME NEW p \in posts, NEW a \in Outcomes \cup {"counted"}, Served(p, a)
      PROVE  Submissions'
  <2> DEFINE new == [p EXCEPT !.answer = a]
  <2>1. new.key = p.key /\ new.body = p.body /\ new.live = p.live /\ new.answer = a
    BY <1>1 DEF Post
  <2>2. posts' = (posts \ {p}) \cup {new}
    BY <1>6 DEF Served
  <2> HIDE DEF new
  <2>3. OneLive'
    BY <2>1, <2>2 DEF OneLive
  <2>4. AwaitsOwn'
    BY <2>1, <2>2 DEF AwaitsOwn
  <2>5. StoredIsPast'
    <3>1. new.answer = "stored" => new.body \in past'[new.key]
      BY <1>6, <2>1 DEF Served
    <3>2. \A q \in posts : q.answer = "stored" => q.body \in past'[q.key]
      BY <1>1, <1>2 DEF StoredIsPast
    <3> QED  BY <1>2, <2>2, <3>1, <3>2 DEF StoredIsPast
  <2>6. BodiesKept'
    BY <1>6, <2>1, <2>2 DEF BodiesKept, Served
  <2> QED  BY <1>4, <2>3, <2>4, <2>5, <2>6
<1> QED  BY <1>3, <1>5, <1>6

LEMMA SubmissionsKept == Spec => []Submissions
<1>1. Init => Submissions
  BY DEF Init, FormInit, IntakeInit, Submissions, SentKept, OneLive, AwaitsOwn, StoredIsPast,
      BodiesKept, SuccessIsStored
<1>2. TypeInv /\ TypeInv' /\ Matching /\ Submissions /\ [Next]_vars => Submissions'
  <2> SUFFICES ASSUME TypeInv, TypeInv', Matching, Submissions, [Next]_vars  PROVE Submissions'
    OBVIOUS
  <2>1. CASE InTheTab
    BY <2>1, TabSteps, TabKeeps DEF Submissions
  <2>2. CASE Serve /\ UNCHANGED <<client, cart>>
    BY <2>2, ServeKeeps
  <2>3. CASE UNCHANGED vars
    BY <2>3, TabKeeps DEF vars, client, intake, TabStep
  <2> QED  BY <2>1, <2>2, <2>3 DEF Next, InTheTab
<1> QED  BY <1>1, <1>2, TypesKept, MatchingKept, PTL DEF Spec

(* The success page is shown only for a request the API has stored with    *)
(* exactly the content that was posted, whatever is lost, overtaken or     *)
(* replayed, and however the customer changes the form meanwhile.          *)
THEOREM SuccessIsTrue == Spec => []SuccessIsStored
<1>1. Submissions => SuccessIsStored
  BY DEF Submissions
<1> QED  BY <1>1, SubmissionsKept, PTL

(* The start of a stored request is on the day it was asked for, although  *)
(* the calendar of the cart may offer starts of another one.               *)
THEOREM DatesAreKept == Spec => []OrdersKeepTheirDate
<1>1. Init => OrdersKeepTheirDate
  BY DEF Init, IntakeInit, OrdersKeepTheirDate
<1>2. TypeInv /\ Matching /\ Submissions /\ OrdersKeepTheirDate /\ [Next]_vars => OrdersKeepTheirDate'
  <2> SUFFICES ASSUME TypeInv, Matching, Submissions, OrdersKeepTheirDate, [Next]_vars
               PROVE  OrdersKeepTheirDate'
    OBVIOUS
  <2>1. UNCHANGED rows => OrdersKeepTheirDate'
    BY DEF OrdersKeepTheirDate
  <2>2. posts \in SUBSET Post /\ rows \in [Keys -> Body \cup {NoBody}]
    BY DEF TypeInv, TypeOK, IntakeTypeOK
  <2>3. ASSUME NEW p \in posts, Insert(p), p.body.date = p.body.slot.date
        PROVE  OrdersKeepTheirDate'
    BY <2>2, <2>3 DEF Insert, OrdersKeepTheirDate, Post
  <2>4. ASSUME NEW k \in Keys, NEW d \in Dates, StaffMoves(k, d)
        PROVE  OrdersKeepTheirDate'
    <3> DEFINE moved == [rows[k] EXCEPT !.date = d, !.slot = [@ EXCEPT !.date = d]]
    <3>1. rows[k] \in Body /\ rows' = [rows EXCEPT ![k] = moved]
      BY <2>2, <2>4 DEF StaffMoves
    <3>2. moved.date = moved.slot.date
      BY <3>1 DEF Body, Offer
    <3> HIDE DEF moved
    <3> QED  BY <2>2, <3>1, <3>2 DEF OrdersKeepTheirDate
  <2>5. CASE Serve
    BY <2>1, <2>3, <2>4, <2>5 DEF Serve, createOrdinaryRequest, createPartyRequest, CreateBooking,
        CountCartOrder, CreateCartOrder, DateMatches, Keep, Lose, NewWindow, Submissions, BodiesKept
  <2>6. CASE InTheTab
    BY <2>1, <2>6, TabSteps DEF Submissions
  <2> QED  BY <2>1, <2>5, <2>6 DEF Next, InTheTab, vars, intake
<1> QED  BY <1>1, <1>2, TypesKept, MatchingKept, SubmissionsKept, PTL DEF Spec

-----------------------------------------------------------------------------
(* The quota.                                                              *)

(* A booking is counted in the window it is stored in.                     *)
CountsCover ==
    /\ Cardinality(made) <= used["booking"]
    /\ used["booking"] <= Limit

(* Whatever fails, rolls back or is replayed, no window stores more        *)
(* bookings than its limit.                                                *)
THEOREM QuotaIsKept == Spec => []QuotaKept
<1>1. Init => CountsCover
  BY FS_EmptySet, IntakeAssumption DEF Init, IntakeInit, CountsCover, Scopes, scopeOf, Kinds
<1>2. TypeInv /\ Matching /\ Submissions /\ CountsCover /\ [Next]_vars => CountsCover'
  <2> SUFFICES ASSUME TypeInv, Matching, Submissions, CountsCover, [Next]_vars
               PROVE  CountsCover'
    OBVIOUS
  <2>1. UNCHANGED <<used, made>> => CountsCover'
    BY DEF CountsCover
  <2>2. posts \in SUBSET Post /\ used \in [Scopes -> Nat] /\ made \in SUBSET Keys /\ Limit \in Nat
          /\ Scopes = {"booking", "cart-order"}
    BY IntakeAssumption DEF TypeInv, TypeOK, IntakeTypeOK, Scopes, scopeOf, Kinds
  <2>3. IsFiniteSet(made)
    BY <2>2, KeysFinite, FS_Subset
  <2>4. ASSUME NEW k
        PROVE  /\ Cardinality(made) \in Nat /\ Cardinality(made \cup {k}) \in Nat
               /\ Cardinality(made \cup {k}) <= Cardinality(made) + 1
    <3>1. Cardinality(made) \in Nat
      BY <2>3, FS_CardinalityType
    <3>2. Cardinality(made \cup {k}) = IF k \in made THEN Cardinality(made) ELSE Cardinality(made) + 1
      BY <2>3, FS_AddElement
    <3> QED  BY <3>1, <3>2
  <2>5. ASSUME NEW p \in posts, CreateBooking(p)  PROVE CountsCover'
    <3>1. CASE UNCHANGED <<used, made>>
      BY <2>1, <3>1
    <3>2. CASE Allowed("booking") /\ consume("booking") /\ \E k : made' \in {made, made \cup {k}}
      <4>1. used'["booking"] = used["booking"] + 1 /\ used["booking"] < Limit /\ used["booking"] \in Nat
        BY <2>2, <3>2 DEF Allowed, consume
      <4>2. Cardinality(made') \in Nat /\ Cardinality(made') <= Cardinality(made) + 1
              /\ Cardinality(made) \in Nat
        <5>1. PICK k : made' \in {made, made \cup {k}}
          BY <3>2
        <5>2. /\ Cardinality(made) \in Nat /\ Cardinality(made \cup {k}) \in Nat
              /\ Cardinality(made \cup {k}) <= Cardinality(made) + 1
          BY <2>4
        <5> QED  BY <5>1, <5>2
      <4> QED  BY <2>2, <4>1, <4>2 DEF CountsCover
    <3> QED  BY <2>5, <3>1, <3>2 DEF CreateBooking, Keep, Insert
  <2>6. ASSUME NEW p \in posts, CountCartOrder(p)  PROVE CountsCover'
    BY <2>2, <2>6 DEF CountCartOrder, consume, CountsCover
  <2>7. ASSUME NEW p \in posts, CreateCartOrder(p)  PROVE CountsCover'
    BY <2>1, <2>7 DEF CreateCartOrder, Insert, Keep, Submissions, BodiesKept
  <2>8. CASE NewWindow
    BY <2>2, <2>8, FS_EmptySet DEF NewWindow, CountsCover
  <2>9. CASE Serve
    BY <2>1, <2>5, <2>6, <2>7, <2>8, <2>9 DEF Serve, createOrdinaryRequest, createPartyRequest, Lose, StaffMoves
  <2>10. CASE InTheTab
    BY <2>1, <2>10, TabSteps DEF Submissions
  <2> QED  BY <2>1, <2>9, <2>10 DEF Next, InTheTab, vars, intake
<1>3. TypeInv /\ CountsCover => QuotaKept
  <2> SUFFICES ASSUME TypeInv, CountsCover  PROVE QuotaKept
    OBVIOUS
  <2>1. IsFiniteSet(made) /\ used["booking"] \in Nat /\ Limit \in Nat
    BY KeysFinite, FS_Subset, IntakeAssumption
       DEF TypeInv, TypeOK, IntakeTypeOK, Scopes, scopeOf, Kinds
  <2>2. Cardinality(made) \in Nat
    BY <2>1, FS_CardinalityType
  <2> QED  BY <2>1, <2>2 DEF CountsCover, QuotaKept
<1> QED  BY <1>1, <1>2, <1>3, TypesKept, MatchingKept, SubmissionsKept, PTL DEF Spec


-----------------------------------------------------------------------------
(* The clock.                                                              *)

LEMMA OffsetValues ==
    ASSUME NEW i \in Int, spring \in BOOLEAN
    PROVE  /\ offsetAt(i) \in {10, 11}
           /\ \A j \in Int : (i < SwitchAt <=> j < SwitchAt) => offsetAt(i) = offsetAt(j)
<1>1. SwitchAt \in Int  BY PageAssumption
<1> QED  BY <1>1 DEF offsetAt, STANDARD

(* The offset of an instant that shows a local hour is among those looked  *)
(* at: it is in force twelve hours before that hour in UTC, or at it.      *)
LEMMA OffsetsFound ==
    ASSUME NEW local \in Int, NEW i \in Int, localDateTime(i) = local, spring \in BOOLEAN
    PROVE  offsetAt(i) \in Offsets(local)
<1>1. SwitchAt \in Int  BY PageAssumption
<1>2. i = local - offsetAt(i) /\ offsetAt(i) \in {10, 11}
  BY OffsetValues DEF localDateTime
<1>3. -2 \in -8 .. 8 /\ 0 \in -8 .. 8 /\ local + 6 * (-2) = local - 12 /\ local + 6 * 0 = local
  OBVIOUS
<1>4. CASE i < SwitchAt
  <2>1. local - 12 \in Int /\ (i < SwitchAt <=> local - 12 < SwitchAt)
    BY <1>1, <1>2, <1>4
  <2>2. offsetAt(i) = offsetAt(local + 6 * (-2))
    BY <1>3, <2>1, OffsetValues
  <2> QED  BY <1>3, <2>2 DEF Offsets
<1>5. CASE ~ (i < SwitchAt)
  <2>1. i < SwitchAt <=> local < SwitchAt
    BY <1>1, <1>2, <1>5
  <2>2. offsetAt(i) = offsetAt(local + 6 * 0)
    BY <1>3, <2>1, OffsetValues
  <2> QED  BY <1>3, <2>2 DEF Offsets
<1> QED  BY <1>4, <1>5

(* matchingInstant is right for every local hour and every change of the   *)
(* clocks: what it returns is the one instant that shows the hour.         *)
LEMMA MatchingIsUnique ==
    ASSUME NEW local \in Int, spring \in BOOLEAN, matchingInstant(local) # NoInstant
    PROVE  /\ matchingInstant(local) \in Int
           /\ matchingInstant(local) <= local
           /\ \A i \in Int : localDateTime(i) = local <=> i = matchingInstant(local)
<1> DEFINE matches == {i \in {local - o : o \in Offsets(local)} : localDateTime(i) = local}
<1>1. Cardinality(matches) = 1 /\ matchingInstant(local) = CHOOSE i \in matches : TRUE
  BY DEF matchingInstant
<1>2. Offsets(local) \subseteq {10, 11}
  <2>1. \A k \in -8 .. 8 : local + 6 * k \in Int  OBVIOUS
  <2> QED  BY <2>1, OffsetValues DEF Offsets
<1>3. matches \subseteq {local - 10, local - 11}
  BY <1>2
<1>4. IsFiniteSet({local - 10, local - 11})
  <2>1. IsFiniteSet({local - 10}) /\ IsFiniteSet({local - 11})
    BY FS_Singleton
  <2> QED  BY <2>1, FS_AddElement
<1>5. IsFiniteSet(matches)
  BY <1>3, <1>4, FS_Subset
<1>6. \A i \in Int : localDateTime(i) = local <=> i \in matches
  <2>1. ASSUME NEW i \in Int, localDateTime(i) = local  PROVE i \in matches
    <3>1. offsetAt(i) \in Offsets(local) /\ i = local - offsetAt(i)
      BY <2>1, OffsetsFound, OffsetValues DEF localDateTime
    <3> QED  BY <2>1, <3>1
  <2> QED  BY <2>1
<1> HIDE DEF matches
<1>7. PICK m : matches = {m}
  BY <1>1, <1>5, FS_Singleton
<1>8. matchingInstant(local) = m
  BY <1>1, <1>7
<1> QED  BY <1>3, <1>6, <1>7, <1>8

(* Three corrections find the instant of every local hour but the one that *)
(* comes twice, if there is one.                                           *)
LEMMA ThreeCorrections ==
    ASSUME NEW local \in Int, NEW i \in Int, localDateTime(i) = local, spring \in BOOLEAN,
           local # SwitchAt + STANDARD
    PROVE  melbourneLocalInstant(local) = i
<1>1. SwitchAt \in Int  BY PageAssumption
<1> DEFINE first == Nearer(local, local)
           second == Nearer(local, first)
<1>2. ASSUME NEW j \in Int  PROVE Nearer(local, j) = local - offsetAt(j) /\ Nearer(local, j) \in Int
  BY OffsetValues DEF Nearer, localDateTime
<1>3. first \in Int /\ first = local - offsetAt(local)
  BY <1>2
<1> HIDE DEF first
<1>4. second \in Int /\ second = local - offsetAt(first)
  BY <1>2, <1>3
<1> HIDE DEF second
<1>5. melbourneLocalInstant(local) = local - offsetAt(second)
  BY <1>2, <1>4 DEF melbourneLocalInstant, first, second
<1>6. i = local - offsetAt(i)
  BY OffsetValues DEF localDateTime
<1> QED  BY <1>1, <1>3, <1>4, <1>5, <1>6 DEF offsetAt, STANDARD

-----------------------------------------------------------------------------
(* The page, the proxy and the API.                                        *)

Wants == {"cancellation_requested", "reschedule_requested"}
Wanted == Wishes \cup {NoInstant}
Request == [id : Nat, at : {"proxy", "api", "done", "refused"}, to : Wants, wish : Wanted,
            checked : Hours]
Recorded == [id : Nat, to : Wants, wish : Wanted, checked : Hours, at : Hours]

PageTypeOK ==
    /\ hour \in Hours /\ spring \in BOOLEAN /\ visitAt \in Visits
    /\ asked \in Seq(Recorded)
    /\ click \in [count : Nat, state : {"idle", "working", "complete", "error"}]
    /\ requests \in SUBSET Request

(* A wish that the proxy let through.                                      *)
Allows(wish, checked) ==
    /\ wish \div 24 - localDateTime(checked) \div 24 \in 0 .. HORIZON
    /\ matchingInstant(wish) # NoInstant /\ matchingInstant(wish) - checked >= LEAD
Passed(r) == r.to = "reschedule_requested" => r.wish \in Wishes /\ Allows(r.wish, r.checked)

(* What is answered is recorded, what is recorded has passed.              *)
PageInv ==
    /\ PageTypeOK
    /\ \A p \in requests :
        /\ p.at \in {"api", "done"} => Passed(p)
        /\ p.to = "reschedule_requested" => p.wish \in Wishes
        /\ p.at = "done" => \E n \in DOMAIN asked : asked[n].id = p.id
    /\ \A n \in DOMAIN asked : Passed(asked[n])
    /\ click.state = "complete" => \E n \in DOMAIN asked : asked[n].id = click.count

LEMMA PageStep ==
    ASSUME PageInv, PageNext
    PROVE  PageInv'
<1> USE DEF PageInv
<1>1. /\ hour \in Hours /\ asked \in Seq(Recorded) /\ requests \in SUBSET Request
      /\ click \in [count : Nat, state : {"idle", "working", "complete", "error"}]
      /\ spring \in BOOLEAN /\ visitAt \in Visits
  BY DEF PageTypeOK
<1>2. UNCHANGED spring => \A r : Passed(r) => Passed(r)'
  BY DEF Passed, Allows, matchingInstant, localDateTime, Offsets, offsetAt
<1>3. CASE OpenPage
  BY <1>1, <1>2, <1>3 DEF OpenPage, PageTypeOK
<1>4. CASE NextHour
  BY <1>1, <1>2, <1>4 DEF NextHour, PageTypeOK
<1>5. ASSUME NEW to \in {"confirmed", "cancelled"}, StaffAnswers(to)  PROVE PageInv'
  BY <1>1, <1>2, <1>5 DEF StaffAnswers, PageTypeOK
<1>6. ASSUME NEW wish \in Wishes \cup {NoInstant}, NEW to \in Wants, Perform(to, wish)  PROVE PageInv'
  <2> DEFINE p == [id |-> click.count + 1, at |-> "proxy", to |-> to, wish |-> wish, checked |-> hour]
  <2>1. /\ click' = [count |-> click.count + 1, state |-> "working"]
        /\ requests' = requests \cup {p} /\ UNCHANGED <<hour, spring, visitAt, asked>>
        /\ to = "reschedule_requested" => wish \in Wishes
    BY <1>6 DEF Perform
  <2>2. p \in Request /\ p.at = "proxy" /\ p.to = to /\ p.wish = wish
    BY <1>1 DEF Request, Wanted
  <2> HIDE DEF p
  <2>3. PageTypeOK'
    BY <1>1, <2>1, <2>2 DEF PageTypeOK
  <2>4. \A q \in requests' : q \in requests \/ q = p
    BY <2>1
  <2> QED  BY <1>2, <2>1, <2>2, <2>3, <2>4
<1>7. ASSUME NEW p \in requests, Receive(p)  PROVE PageInv'
  BY <1>1, <1>2, <1>7 DEF Receive, Current, Completed, PageTypeOK
<1>8. ASSUME NEW p \in requests, Disconnect(p)  PROVE PageInv'
  BY <1>1, <1>2, <1>8 DEF Disconnect, PageTypeOK
<1>9. ASSUME NEW p \in requests, assertValidCustomerReschedule(p)  PROVE PageInv'
  <2> DEFINE ok == ~ (p.to = "reschedule_requested" /\ ~ validateCustomerRescheduleRequest(p.wish))
             new == [p EXCEPT !.checked = hour, !.at = IF ok THEN "api" ELSE "refused"]
  <2>1. requests' = (requests \ {p}) \cup {new} /\ UNCHANGED <<hour, spring, visitAt, asked, click>>
    BY <1>9 DEF assertValidCustomerReschedule
  <2>2. /\ new \in Request /\ new.checked = hour /\ new.to = p.to /\ new.wish = p.wish
        /\ new.at = IF ok THEN "api" ELSE "refused"
    BY <1>1 DEF Request
  <2>3. new.to = "reschedule_requested" => new.wish \in Wishes
    BY <2>2
  <2>4. new.at \in {"api", "done"} => Passed(new)
    BY <2>2, <2>3 DEF Passed, Allows, validateCustomerRescheduleRequest, Today
  <2>5. new.at # "done"
    BY <2>2
  <2> HIDE DEF new, ok
  <2>6. PageTypeOK'
    BY <1>1, <2>1, <2>2 DEF PageTypeOK
  <2>7. \A q \in requests' : q \in requests \/ q = new
    BY <2>1
  <2> QED  BY <1>2, <2>1, <2>3, <2>4, <2>5, <2>6, <2>7
<1>10. ASSUME NEW p \in requests, requestStatusChange(p)  PROVE PageInv'
  <2>1. p.at = "api" /\ UNCHANGED <<hour, spring, visitAt, click>> /\ p \in Request
    BY <1>1, <1>10 DEF requestStatusChange
  <2>2. CASE Advance(p, "refused") /\ UNCHANGED asked
    <3> DEFINE new == [p EXCEPT !.at = "refused"]
    <3>1. new \in Request /\ new.at = "refused" /\ new.to = p.to /\ new.wish = p.wish
      BY <2>1 DEF Request
    <3>2. requests' = (requests \ {p}) \cup {new}
      BY <2>2 DEF Advance
    <3> HIDE DEF new
    <3>3. PageTypeOK'
      BY <1>1, <2>1, <2>2, <3>1, <3>2 DEF PageTypeOK
    <3>4. \A q \in requests' : q \in requests \/ q = new
      BY <3>2
    <3> QED  BY <1>2, <2>1, <2>2, <3>1, <3>3, <3>4
  <2>3. ASSUME status = "confirmed", Advance(p, "done"),
               asked' = Append(asked, [id |-> p.id, to |-> p.to, wish |-> p.wish,
                                       checked |-> p.checked, at |-> hour])
        PROVE  PageInv'
    <3> DEFINE new == [p EXCEPT !.at = "done"]
               entry == [id |-> p.id, to |-> p.to, wish |-> p.wish, checked |-> p.checked, at |-> hour]
    <3>1. /\ new \in Request /\ new.at = "done" /\ new.to = p.to /\ new.wish = p.wish
          /\ new.id = p.id /\ new.checked = p.checked
      BY <2>1 DEF Request
    <3>2. /\ entry \in Recorded /\ entry.id = p.id /\ entry.to = p.to /\ entry.wish = p.wish
          /\ entry.checked = p.checked
      BY <1>1, <2>1 DEF Request, Recorded
    <3>3. requests' = (requests \ {p}) \cup {new} /\ asked' = Append(asked, entry)
      BY <2>3 DEF Advance
    <3>4. Passed(p) /\ Passed(new) /\ Passed(entry)
      BY <2>1, <3>1, <3>2 DEF Passed
    <3> HIDE DEF new, entry
    <3>5. PageTypeOK'
      BY <1>1, <2>1, <3>1, <3>2, <3>3 DEF PageTypeOK
    <3>6. /\ Len(asked') = Len(asked) + 1 /\ DOMAIN asked' = 1 .. Len(asked')
          /\ asked'[Len(asked')] = entry /\ DOMAIN asked = 1 .. Len(asked) /\ Len(asked) \in Nat
          /\ \A n \in DOMAIN asked : n \in DOMAIN asked' /\ asked'[n] = asked[n]
          /\ \A n \in DOMAIN asked' : n \in DOMAIN asked \/ n = Len(asked')
      BY <1>1, <3>2, <3>3
    <3>7. \A n \in DOMAIN asked' : asked'[n] = entry \/ (n \in DOMAIN asked /\ asked'[n] = asked[n])
      BY <3>6
    <3>8. \A id : (\E n \in DOMAIN asked : asked[n].id = id) => \E n \in DOMAIN asked' : asked'[n].id = id
      BY <3>6
    <3>9. \E n \in DOMAIN asked' : asked'[n].id = p.id
      BY <3>2, <3>6
    <3>10. \A q \in requests' : q \in requests \/ q = new
      BY <3>3
    <3>11. \A q \in requests' : (q.at \in {"api", "done"} => Passed(q)')
                /\ (q.to = "reschedule_requested" => q.wish \in Wishes)
                /\ (q.at = "done" => \E n \in DOMAIN asked' : asked'[n].id = q.id)
      BY <1>2, <2>1, <3>1, <3>4, <3>8, <3>9, <3>10
    <3>12. (\A n \in DOMAIN asked : Passed(asked[n]))'
      BY <1>2, <2>1, <3>4, <3>7
    <3>13. (click.state = "complete" => \E n \in DOMAIN asked : asked[n].id = click.count)'
      BY <2>1, <3>8
    <3> QED  BY <3>5, <3>11, <3>12, <3>13
  <2> QED  BY <1>10, <2>2, <2>3 DEF requestStatusChange
<1> QED
  BY <1>3, <1>4, <1>5, <1>6, <1>7, <1>8, <1>9, <1>10 DEF PageNext, Wants

LEMMA PageInvKept == PageSpec => []PageInv
<1>1. PageInit => PageInv
  BY DEF PageInit, PageInv, PageTypeOK
<1>2. PageInv /\ UNCHANGED pageVars => PageInv'
  <2>1. UNCHANGED spring => \A r : Passed(r) => Passed(r)'
    BY DEF Passed, Allows, matchingInstant, localDateTime, Offsets, offsetAt
  <2> QED  BY <2>1 DEF pageVars, PageInv, PageTypeOK
<1> QED  BY <1>1, <1>2, PageStep, PTL DEF PageSpec

(* The page speaks of a request that is recorded, and a time asked for     *)
(* exists, once, and kept its notice in real hours when it passed the      *)
(* proxy, in whichever hour and direction the clocks change.               *)
THEOREM CustomerRequestsKept == PageSpec => []RequestsKept
<1>1. PageInv => RequestsKept
  <2> SUFFICES ASSUME PageInv, NEW n \in DOMAIN asked, asked[n].to = "reschedule_requested"
               PROVE  LET wish == asked[n].wish  checked == asked[n].checked IN
                      /\ wish \div 24 - localDateTime(checked) \div 24 \in 0 .. HORIZON
                      /\ \E i \in Shows(wish) : Shows(wish) = {i} /\ i - checked >= LEAD
    BY DEF PageInv, RequestsKept
  <2> DEFINE wish == asked[n].wish
             checked == asked[n].checked
             i == matchingInstant(wish)
  <2>1. wish \in Wishes /\ Allows(wish, checked) /\ asked[n] \in Recorded
    BY DEF PageInv, Passed, PageTypeOK
  <2>2. wish \in Int /\ checked \in Nat /\ LEAD \in Nat /\ spring \in BOOLEAN
    BY <2>1, PageAssumption DEF Recorded, PageInv, PageTypeOK
  <2>3. /\ i \in Int /\ i <= wish /\ i - checked >= LEAD
        /\ \A j \in Int : localDateTime(j) = wish <=> j = i
    BY <2>1, <2>2, MatchingIsUnique DEF Allows
  <2> HIDE DEF i
  <2>4. i \in 0 .. wish
    BY <2>2, <2>3
  <2>5. Shows(wish) = {i}
    BY <2>2, <2>3, <2>4 DEF Shows
  <2> QED  BY <2>1, <2>3, <2>5 DEF Allows
<1> QED  BY <1>1, PageInvKept, PTL

(* The notice that earns a refund is counted in real hours.                *)
THEOREM RefundsAreFair == PageSpec => []RefundsFair
<1>1. PageInv => RefundsFair
  <2> SUFFICES ASSUME PageInv, NEW n \in DOMAIN asked, NEW i \in Shows(visitAt)
               PROVE  RefundDue(asked[n]) <=> i - asked[n].at >= RefundNotice
    BY DEF RefundsFair
  <2>1. visitAt \in Int /\ visitAt # SwitchAt + STANDARD /\ i \in Int /\ localDateTime(i) = visitAt
          /\ spring \in BOOLEAN
    BY PageAssumption DEF Shows, PageInv, PageTypeOK
  <2>2. melbourneLocalInstant(visitAt) = i
    BY <2>1, ThreeCorrections
  <2> QED  BY <2>2 DEF RefundDue
<1> QED  BY <1>1, PageInvKept, PTL
-----------------------------------------------------------------------------
(* The content of a request.                                               *)

ConsentOK(consent) ==
    consent \in Consent /\ (consent.signed => consent.photo # "declined")

(* A group: a start is one that was listed for it as it is.                *)
GroupDraft(d) ==
    /\ DOMAIN d = {"kind", "step", "picks", "people", "start", "contact", "consent"}
    /\ d.kind = "experience" /\ ConsentOK(d.consent)
    /\ "adults" \in DOMAIN d.people /\ d.people.adults \in Int
    /\ d.start # NoStart =>
        /\ d.start.attendance = attendanceCount(d.people)
        /\ d.start.minutes = Longest(d.picks, offered)

GroupSending ==
    sending # Unsent =>
        /\ DOMAIN sending = {"stage", "draft"}
        /\ sending.stage \in {"checking", "posted", "answered"}
        /\ GroupDraft(sending.draft) /\ sending.draft.start # NoStart
        /\ SchemaAccepts(sending.draft)

(* A party: "not sure yet" stands alone, and there is a cake to cut.       *)
GuestDraft(d) ==
    /\ DOMAIN d = {"kind", "step", "picks", "people", "start", "contact", "extra", "consent"}
    /\ d.kind = "party" /\ ConsentOK(d.consent)
    /\ d.picks \in [Choices -> {0, 1}]
    /\ d.picks[Decide] = 0 \/ \A c \in Offerings : d.picks[c] = 0
    /\ d.people \in [participants : Int, parents : Int, age : Int]
    /\ d.contact \in ContactFields
    /\ d.extra \in [cake : BOOLEAN, cutting : BOOLEAN] /\ (d.extra.cutting => d.extra.cake)

GuestSending ==
    sending # Unsent =>
        /\ DOMAIN sending = {"stage", "draft"}
        /\ sending.stage \in {"schema", "posted", "answered"}
        /\ GuestDraft(sending.draft)
        /\ validatePeople(sending.draft) /\ Picked(sending.draft.picks) # {}
        /\ ConsentGiven(sending.draft.consent)
        /\ sending.stage = "posted" =>
            WholeNumbers(sending.draft.people) /\ sending.draft.contact = "good"

GroupInv == GroupDraft(draft) /\ GroupSending
GuestInv == GuestDraft(draft) /\ GuestSending

(* While a submission is under way there is neither an answer nor a row.   *)
BookingContentInv ==
    /\ offered \in [Offerings -> 1 .. DECIDE_DURATION]
    /\ Underway => verdict = "none" /\ stored = Unsent
    /\ GroupInv \/ GuestInv
    /\ StoredAsShown

LEMMA KindsApart ==
    /\ GroupInv => draft.kind = "experience"
    /\ GuestInv => draft.kind = "party"
BY DEF GroupInv, GuestInv, GroupDraft, GuestDraft

(* Edits around the form.                                                  *)
LEMMA Outside ==
    ASSUME BookingContentInv, EditProject \/ ReplaceTexts
    PROVE  BookingContentInv'
<1>1. /\ stored = Unsent /\ UNCHANGED <<draft, sending, offered, verdict, stored>>
      /\ catalogue = offered \/ catalogue' = catalogue
      /\ outdated => outdated'
  BY DEF EditProject, ReplaceTexts
<1>2. Underway' <=> Underway  BY <1>1 DEF Underway
<1>3. (GroupInv \/ GuestInv)'
  BY <1>1 DEF BookingContentInv, GroupInv, GuestInv, GroupDraft, GuestDraft, GroupSending,
     GuestSending, SchemaAccepts, validatePeople
<1>4. StoredAsShown'
  BY <1>1 DEF BookingContentInv, StoredAsShown, OrdinaryAsShown, PartyAsShown,
     OrdinaryChecksAgree, PartyChecksAgree
<1> QED  BY <1>1, <1>2, <1>3, <1>4 DEF BookingContentInv

(* What every change of the fields does to the submission.                 *)
LEMMA EditingKeeps ==
    ASSUME BookingContentInv, Editing,
           \/ GroupInv /\ GroupDraft(draft')
           \/ GuestInv /\ GuestDraft(draft')
    PROVE  BookingContentInv'
<1>1. /\ stored = Unsent /\ stored' = Unsent /\ UNCHANGED <<offered, catalogue, outdated>>
      /\ verdict' = "none" /\ (sending' = sending \/ sending' = Unsent)
  BY DEF Editing, around, BookingContentInv
<1>2. (GroupInv \/ GuestInv)'
  <2>1. CASE GroupInv /\ GroupDraft(draft')
    <3>1. GroupDraft(draft)'  BY <1>1, <2>1 DEF GroupDraft
    <3>2. GroupSending'
      <4> SUFFICES ASSUME sending' # Unsent
                   PROVE  /\ sending' = sending
                          /\ (sending # Unsent => GroupDraft(sending.draft))'
        BY <1>1, <2>1 DEF GroupInv, GroupSending, SchemaAccepts
      <4> QED  BY <1>1, <2>1 DEF GroupInv, GroupSending, GroupDraft
    <3> QED  BY <3>1, <3>2 DEF GroupInv
  <2>2. CASE GuestInv /\ GuestDraft(draft')
    <3>1. GuestDraft(draft)'  BY <2>2 DEF GuestDraft
    <3>2. GuestSending'
      BY <1>1, <2>2 DEF GuestInv, GuestSending, GuestDraft, validatePeople
    <3> QED  BY <3>1, <3>2 DEF GuestInv
  <2> QED  BY <2>1, <2>2
<1>3. StoredAsShown'
  BY <1>1 DEF StoredAsShown, OrdinaryAsShown, PartyAsShown, OrdinaryChecksAgree, PartyChecksAgree
<1> QED  BY <1>1, <1>2, <1>3 DEF BookingContentInv

LEMMA ConsentChanges ==
    ASSUME ChangeConsent, ConsentOK(draft.consent)
    PROVE  \E consent : ConsentOK(consent) /\ draft' = [draft EXCEPT !.consent = consent]
<1>1. PICK consent \in {[draft.consent EXCEPT !.policy = ~ @],
                        [draft.consent EXCEPT !.signed = ~ @]}
              \cup {Decided(draft.consent, photo) : photo \in Permissions \cup {"declined"}} :
        /\ consent.signed => consent.photo # "declined"
        /\ draft' = [draft EXCEPT !.consent = consent]
  BY DEF ChangeConsent
<1>2. draft.consent \in Consent  BY DEF ConsentOK
<1>3. consent \in Consent
  <2>1. CASE consent = [draft.consent EXCEPT !.policy = ~ @]
    BY <1>2, <2>1 DEF Consent
  <2>2. CASE consent = [draft.consent EXCEPT !.signed = ~ @]
    BY <1>2, <2>2 DEF Consent
  <2>3. ASSUME NEW photo \in Permissions \cup {"declined"},
               consent = Decided(draft.consent, photo)
        PROVE  consent \in Consent
    <3>1. draft.consent.policy \in BOOLEAN /\ draft.consent.signed \in BOOLEAN
      BY <1>2 DEF Consent
    <3> DEFINE signed == draft.consent.signed /\ photo # "declined"
    <3>2. consent = [policy |-> draft.consent.policy, photo |-> photo, signed |-> signed]
      BY <1>2, <2>3 DEF Decided, Consent
    <3>3. signed \in BOOLEAN  OBVIOUS
    <3> HIDE DEF signed
    <3> QED  BY <3>1, <3>2, <3>3 DEF Consent
  <2> QED  BY <1>1, <2>1, <2>2, <2>3
<1> QED  BY <1>1, <1>3 DEF ConsentOK

-----------------------------------------------------------------------------
(* Groups.                                                                 *)

GroupEdits ==
    \/ setQuantity \/ updateAttendance \/ ChooseStart \/ DropStart \/ EnterContact
    \/ ContinueOrdinary \/ BackOrdinary \/ (OnStep(4) /\ Editing /\ ChangeConsent)

(* Whenever people or projects change the start goes.                      *)
LEMMA RequantifyDrops ==
    ASSUME NEW d, GroupDraft(d), NEW picks
    PROVE  /\ GroupDraft(Requantify(d, picks)) /\ Requantify(d, picks).start = NoStart
<1> DEFINE n == Assigned(picks)
           people == IF n \in {0, d.people.participants} THEN d.people
                     ELSE [d.people EXCEPT !.participants = n,
                            !.children = IF d.people.children < n THEN d.people.children ELSE n]
           drop == [d EXCEPT !.start = NoStart]
           pick == [drop EXCEPT !.picks = picks]
           next == [pick EXCEPT !.people = people]
<1>1. Requantify(d, picks) = next  BY DEF Requantify
<1>2. "adults" \in DOMAIN people /\ people.adults \in Int  BY DEF GroupDraft
<1> HIDE DEF people
<1>3. /\ DOMAIN drop = DOMAIN d /\ drop.start = NoStart
      /\ drop.kind = d.kind /\ drop.consent = d.consent
  BY DEF GroupDraft
<1> HIDE DEF drop
<1>4. /\ DOMAIN pick = DOMAIN d /\ pick.start = NoStart
      /\ pick.kind = d.kind /\ pick.consent = d.consent
  BY <1>3 DEF GroupDraft
<1> HIDE DEF pick
<1>5. /\ DOMAIN next = DOMAIN d /\ next.start = NoStart /\ next.people = people
      /\ next.kind = d.kind /\ next.consent = d.consent
  BY <1>4 DEF GroupDraft
<1> HIDE DEF next
<1> QED  BY <1>1, <1>2, <1>5 DEF GroupDraft

LEMMA GroupEditsKeep ==
    ASSUME BookingContentInv, GroupInv, GroupEdits
    PROVE  BookingContentInv'
<1>1. GroupDraft(draft)  BY DEF GroupInv
<1>2. Editing /\ GroupDraft(draft')
  <2>1. CASE setQuantity
    <3>1. \E picks : draft' = Requantify(draft, picks)  BY <2>1 DEF setQuantity
    <3> QED  BY <1>1, <2>1, <3>1, RequantifyDrops DEF setQuantity
  <2>2. CASE updateAttendance
    <3>1. PICK people \in {[draft.people EXCEPT !.participants = n] : n \in PeopleTyped}
                \cup {[draft.people EXCEPT !.children = n] : n \in ChildrenTyped}
                \cup {[draft.people EXCEPT !.adults = n] : n \in AdultsTyped} :
            \E picks : draft' = [draft EXCEPT !.people = people, !.start = NoStart, !.picks = picks]
      BY <2>2 DEF updateAttendance
    <3>2. "adults" \in DOMAIN people /\ people.adults \in Int
      BY <1>1, <3>1, OrdinaryContentAssumption DEF GroupDraft
    <3>3. PICK picks : draft' = [draft EXCEPT !.people = people, !.start = NoStart, !.picks = picks]
      BY <3>1
    <3> DEFINE joined == [draft EXCEPT !.people = people]
               drop == [joined EXCEPT !.start = NoStart]
               next == [drop EXCEPT !.picks = picks]
    <3>4. draft' = next  BY <3>3
    <3>5. /\ DOMAIN joined = DOMAIN draft /\ joined.people = people
          /\ joined.kind = draft.kind /\ joined.consent = draft.consent
      BY <1>1 DEF GroupDraft
    <3> HIDE DEF joined
    <3>6. /\ DOMAIN drop = DOMAIN draft /\ drop.start = NoStart /\ drop.people = people
          /\ drop.kind = draft.kind /\ drop.consent = draft.consent
      BY <1>1, <3>5 DEF GroupDraft
    <3> HIDE DEF drop
    <3>7. /\ DOMAIN next = DOMAIN draft /\ next.start = NoStart /\ next.people = people
          /\ next.kind = draft.kind /\ next.consent = draft.consent
      BY <1>1, <3>6 DEF GroupDraft
    <3> HIDE DEF next
    <3> QED  BY <1>1, <2>2, <3>2, <3>4, <3>7 DEF GroupDraft, updateAttendance
  <2>3. CASE ChooseStart
    <3>1. PICK mode : draft' = [draft EXCEPT !.start =
            [mode |-> mode, attendance |-> attendanceCount(draft.people),
             minutes |-> Longest(draft.picks, offered)]]
      BY <2>3 DEF ChooseStart
    <3>2. /\ DOMAIN draft' = DOMAIN draft
          /\ draft'.start.attendance = attendanceCount(draft.people)
          /\ draft'.start.minutes = Longest(draft.picks, offered)
          /\ draft'.people = draft.people /\ draft'.picks = draft.picks
          /\ draft'.kind = draft.kind /\ draft'.consent = draft.consent
      BY <1>1, <3>1 DEF GroupDraft
    <3> QED  BY <1>1, <2>3, <3>2 DEF GroupDraft, ChooseStart
  <2>4. CASE DropStart
    BY <1>1, <2>4 DEF DropStart, GroupDraft
  <2>5. CASE EnterContact
    BY <1>1, <2>5 DEF EnterContact, GroupDraft
  <2>6. CASE ContinueOrdinary
    BY <1>1, <2>6 DEF ContinueOrdinary, GroupDraft
  <2>7. CASE BackOrdinary
    BY <1>1, <2>7 DEF BackOrdinary, GroupDraft
  <2>8. CASE OnStep(4) /\ Editing /\ ChangeConsent
    <3>1. ConsentOK(draft.consent)  BY <1>1 DEF GroupDraft
    <3>2. PICK consent : ConsentOK(consent) /\ draft' = [draft EXCEPT !.consent = consent]
      BY <2>8, <3>1, ConsentChanges
    <3> QED  BY <1>1, <2>8, <3>2 DEF GroupDraft
  <2> QED
    BY <2>1, <2>2, <2>3, <2>4, <2>5, <2>6, <2>7, <2>8 DEF GroupEdits
<1> QED  BY <1>2, EditingKeeps

(* What the page lets through the schema takes.                            *)
LEMMA PageAsSchema ==
    ASSUME GroupDraft(draft), SubmitContent
    PROVE  SchemaAccepts(draft)
<1>1. /\ ConsentGiven(draft.consent) /\ validateOrdinaryAttendance(draft.people)
      /\ ProjectForEach(draft)
  BY DEF SubmitContent
<1>2. Longest(draft.picks, offered) > 0 /\ Assigned(draft.picks) = draft.people.participants
  BY <1>1 DEF ProjectForEach
<1>3. Picked(draft.picks) # {}
  <2> SUFFICES ASSUME Picked(draft.picks) = {}  PROVE FALSE  OBVIOUS
  <2>1. Longest(draft.picks, offered) = 0  BY DEF Longest
  <2> QED  BY <1>2, <2>1
<1> QED  BY <1>1, <1>2, <1>3 DEF SchemaAccepts

LEMMA GroupSubmits ==
    ASSUME BookingContentInv, GroupInv, SubmitContent
    PROVE  BookingContentInv'
<1>1. /\ sending' = [stage |-> "checking", draft |-> draft] /\ verdict' = "none"
      /\ stored = Unsent /\ UNCHANGED <<draft, stored, offered, catalogue, outdated>>
      /\ draft.start # NoStart
  BY DEF SubmitContent, Click, around
<1>2. /\ DOMAIN sending' = {"stage", "draft"} /\ sending'.stage = "checking"
      /\ sending'.draft = draft
  BY <1>1
<1>3. GroupDraft(draft)' /\ GroupDraft(sending.draft)'
  BY <1>1, <1>2 DEF GroupInv, GroupDraft
<1>4. SchemaAccepts(sending.draft)'
  BY <1>2, PageAsSchema DEF GroupInv, SchemaAccepts
<1>5. GroupInv'  BY <1>1, <1>2, <1>3, <1>4 DEF GroupInv, GroupSending
<1>6. StoredAsShown'
  BY <1>1 DEF StoredAsShown, OrdinaryAsShown, PartyAsShown, OrdinaryChecksAgree, PartyChecksAgree
<1> QED  BY <1>1, <1>5, <1>6 DEF BookingContentInv

(* How far a submission is does not touch what it says.                    *)
LEMMA SubmissionMoves ==
    ASSUME GroupInv, GroupDraft(draft'), UNCHANGED offered, Underway,
           NEW stage \in {"posted", "answered"}, sending' = [sending EXCEPT !.stage = stage]
    PROVE  GroupInv' /\ sending'.draft = sending.draft /\ sending'.stage = stage
<1>1. sending # Unsent  BY DEF Underway
<1>2. /\ DOMAIN sending' = {"stage", "draft"} /\ sending'.stage = stage
      /\ sending'.draft = sending.draft
  BY <1>1 DEF GroupInv, GroupSending
<1>3. GroupDraft(draft)'  BY DEF GroupDraft
<1>4. GroupSending'
  BY <1>1, <1>2 DEF GroupInv, GroupSending, GroupDraft, SchemaAccepts
<1> QED  BY <1>2, <1>3, <1>4 DEF GroupInv

LEMMA StartDropped ==
    ASSUME GroupDraft(draft), UNCHANGED offered,
           \/ draft' = [draft EXCEPT !.start = NoStart]
           \/ draft' = [draft EXCEPT !.start = NoStart, !.step = 3, !.contact = "missing"]
    PROVE  GroupDraft(draft')
<1>1. CASE draft' = [draft EXCEPT !.start = NoStart]
  BY <1>1 DEF GroupDraft
<1>2. CASE draft' = [draft EXCEPT !.start = NoStart, !.step = 3, !.contact = "missing"]
  <2>1. /\ DOMAIN draft' = DOMAIN draft /\ draft'.start = NoStart
        /\ draft'.people = draft.people /\ draft'.kind = draft.kind
        /\ draft'.consent = draft.consent
    BY <1>2 DEF GroupDraft
  <2> QED  BY <2>1 DEF GroupDraft
<1> QED  BY <1>1, <1>2

LEMMA GroupAnswered ==
    ASSUME BookingContentInv, GroupInv, FreshAnswered \/ OrdinaryPosted
    PROVE  BookingContentInv'
<1>1. /\ GroupDraft(draft) /\ draft.kind = "experience" /\ Underway
      /\ verdict = "none" /\ stored = Unsent
  BY DEF GroupInv, GroupDraft, FreshAnswered, OrdinaryPosted, BookingContentInv
<1>2. /\ sending # Unsent /\ GroupDraft(sending.draft) /\ sending.draft.start # NoStart
      /\ SchemaAccepts(sending.draft)
  BY <1>1 DEF GroupInv, GroupSending, Underway
<1>3. UNCHANGED <<offered, catalogue, outdated>>
  BY DEF FreshAnswered, OrdinaryPosted, Conclude, around
<1>4. CASE FreshAnswered
  <2>1. stored' = Unsent  BY <1>1, <1>4 DEF FreshAnswered
  <2>2. CASE /\ sending' = [sending EXCEPT !.stage = "posted"]
             /\ UNCHANGED <<draft, verdict>>
    <3>1. GroupInv'  BY <1>1, <1>3, <2>2, SubmissionMoves
    <3>2. StoredAsShown'
      BY <1>1, <2>1, <2>2, <3>1, KindsApart DEF StoredAsShown, OrdinaryAsShown, PartyAsShown,
         OrdinaryChecksAgree, PartyChecksAgree
    <3> QED  BY <1>1, <1>3, <2>1, <2>2, <3>1, <3>2 DEF BookingContentInv
  <2>3. CASE /\ sending' = [sending EXCEPT !.stage = "answered"]
             /\ \/ verdict' = "incomplete" /\ draft.contact # "good" /\ UNCHANGED draft
                \/ verdict' = "gone" /\ draft' = [draft EXCEPT !.start = NoStart]
    <3>1. GroupDraft(draft')  BY <1>1, <1>3, <2>3, StartDropped
    <3>2. GroupInv' /\ ~ Underway'  BY <1>1, <1>3, <2>3, <3>1, SubmissionMoves DEF Underway
    <3>3. draft'.kind = "experience"  BY <3>1 DEF GroupDraft
    <3>4. StoredAsShown'
      BY <2>1, <2>3, <3>3 DEF StoredAsShown, OrdinaryAsShown, PartyAsShown,
         OrdinaryChecksAgree, PartyChecksAgree
    <3> QED  BY <1>3, <3>2, <3>4 DEF BookingContentInv
  <2> QED  BY <1>2, <1>4, <2>2, <2>3 DEF FreshAnswered, Conclude
<1>5. CASE OrdinaryPosted
  <2> DEFINE d == sending.draft
  <2>1. sending' = [sending EXCEPT !.stage = "answered"]
    BY <1>5 DEF OrdinaryPosted, Conclude
  <2>2. GroupDraft(draft')
    <3>1. \/ UNCHANGED draft
          \/ draft' = [draft EXCEPT !.start = NoStart, !.step = 3, !.contact = "missing"]
      BY <1>5 DEF OrdinaryPosted
    <3> QED  BY <1>1, <1>3, <3>1, StartDropped
  <2>3. GroupInv' /\ sending'.draft = d /\ ~ Underway'
    BY <1>1, <1>3, <2>1, <2>2, SubmissionMoves DEF Underway
  <2>4. draft'.kind = "experience"  BY <2>2 DEF GroupDraft
  <2>5. OrdinaryChecksAgree'
    <3>1. CASE verdict' = "invalid"
      <4>1. ~ Admissible(d)  BY <1>5, <3>1 DEF OrdinaryPosted, Conclude
      <4>2. outdated'  BY <1>2, <1>3, <4>1 DEF Admissible
      <4> QED  BY <3>1, <4>2 DEF OrdinaryChecksAgree
    <3>2. CASE verdict' = "not bookable"
      <4>1. PICK o \in Picked(d.picks) \ {Decide} : catalogue[o] = 0
        BY <1>5, <3>2 DEF OrdinaryPosted, Conclude
      <4>2. o \in Offerings  BY DEF Picked, Choices
      <4>3. offered[o] \in 1 .. DECIDE_DURATION  BY <4>2 DEF BookingContentInv
      <4>4. catalogue' # offered'  BY <1>3, <4>1, <4>3
      <4> QED  BY <3>2, <4>4 DEF OrdinaryChecksAgree
    <3>3. verdict' # "incomplete"  BY <1>5 DEF OrdinaryPosted, Conclude
    <3> QED  BY <3>1, <3>2, <3>3 DEF OrdinaryChecksAgree
  <2>6. OrdinaryAsShown'
    <3> SUFFICES ASSUME stored' # Unsent  PROVE OrdinaryAsShown'  BY DEF OrdinaryAsShown
    <3>1. /\ Admissible(d)
          /\ stored' = [picks |-> d.picks, people |-> d.people, consent |-> d.consent,
                        mode |-> d.start.mode, attendance |-> attendanceCount(d.people),
                        minutes |-> Longest(d.picks, catalogue)]
      BY <1>1, <1>5 DEF OrdinaryPosted
    <3>2. /\ stored'.picks = d.picks /\ stored'.people = d.people
          /\ stored'.consent = d.consent /\ stored'.mode = d.start.mode
          /\ stored'.attendance = d.start.attendance
          /\ stored'.minutes = d.start.minutes \/ catalogue # offered
      BY <1>2, <3>1 DEF GroupDraft
    <3>3. d.consent.signed = (d.consent.photo # "declined")
      <4>1. d.consent.signed \in BOOLEAN /\ (d.consent.signed => d.consent.photo # "declined")
        BY <1>2 DEF GroupDraft, ConsentOK, Consent
      <4>2. d.consent.photo = "declined" \/ d.consent.signed
        BY <1>2 DEF SchemaAccepts, ConsentGiven
      <4> QED  BY <4>1, <4>2
    <3>4. d.people.children > 0 => d.people.adults > 0
      <4>1. /\ d.people.adults \in Int
            /\ d.people.children > 0 => d.people.adults >= 1
        BY <1>2 DEF GroupDraft, SchemaAccepts, validateOrdinaryAttendance
      <4> QED  BY <4>1
    <3> HIDE DEF d
    <3>5. sending'.draft = d  BY <2>3 DEF d
    <3> QED  BY <1>3, <3>2, <3>3, <3>4, <3>5 DEF OrdinaryAsShown
  <2>7. StoredAsShown'
    BY <2>4, <2>5, <2>6 DEF StoredAsShown, PartyAsShown, PartyChecksAgree
  <2> QED  BY <1>3, <2>3, <2>7 DEF BookingContentInv
<1> QED  BY <1>4, <1>5

-----------------------------------------------------------------------------
(* Parties.                                                                *)

GuestEdits == ChangeGuestNumbers \/ ChangePlan \/ ChangeExtras \/ ContinueParty \/ BackParty

LEMMA ToggledAlone ==
    ASSUME NEW picks \in [Choices -> {0, 1}], NEW c \in Choices,
           picks[Decide] = 0 \/ \A o \in Offerings : picks[o] = 0
    PROVE  /\ toggleProject(picks, c) \in [Choices -> {0, 1}]
           /\ \/ toggleProject(picks, c)[Decide] = 0
              \/ \A o \in Offerings : toggleProject(picks, c)[o] = 0
<1>1. /\ Decide \in Choices /\ Offerings \subseteq Choices
      /\ \A o \in Choices : o = Decide \/ o \in Offerings
      /\ Decide \notin Offerings
  BY ContentAssumption DEF Choices
<1>2. \A o \in Choices :
        toggleProject(picks, c)[o] =
            IF o = c THEN 1 - picks[c]
            ELSE IF picks[c] = 0 /\ Decide \in {c, o} THEN 0 ELSE picks[o]
  BY DEF toggleProject
<1>3. toggleProject(picks, c) \in [Choices -> {0, 1}]
  <2>1. ASSUME NEW o \in Choices  PROVE toggleProject(picks, c)[o] \in {0, 1}
    BY <1>2
  <2>2. toggleProject(picks, c) = [o \in Choices |-> toggleProject(picks, c)[o]]
    BY DEF toggleProject
  <2> QED  BY <2>1, <2>2
<1>4. CASE c = Decide
  <2>1. CASE picks[Decide] = 0  BY <1>1, <1>2, <1>3, <1>4, <2>1
  <2>2. CASE picks[Decide] = 1  BY <1>1, <1>2, <1>3, <1>4, <2>2
  <2> QED  BY <1>1, <2>1, <2>2
<1>5. CASE c # Decide
  <2>1. CASE picks[c] = 0  BY <1>1, <1>2, <1>3, <1>5, <2>1
  <2>2. CASE picks[c] = 1  BY <1>1, <1>2, <1>3, <1>5, <2>2
  <2> QED  BY <1>1, <2>1, <2>2
<1> QED  BY <1>4, <1>5

LEMMA GuestEditsKeep ==
    ASSUME BookingContentInv, GuestInv, GuestEdits
    PROVE  BookingContentInv'
<1>1. GuestDraft(draft)  BY DEF GuestInv
<1>2. Editing /\ GuestDraft(draft')
  <2>1. CASE ChangeGuestNumbers
    <3>1. Editing  BY <2>1 DEF ChangeGuestNumbers
    <3>2. CASE \E people \in {[draft.people EXCEPT !.participants = n] : n \in GuestsTyped}
                   \cup {[draft.people EXCEPT !.parents = n] : n \in ParentsTyped}
                   \cup {[draft.people EXCEPT !.age = n] : n \in AgesTyped} :
                draft' = [draft EXCEPT !.people = people]
      <4>1. PICK people \in {[draft.people EXCEPT !.participants = n] : n \in GuestsTyped}
                   \cup {[draft.people EXCEPT !.parents = n] : n \in ParentsTyped}
                   \cup {[draft.people EXCEPT !.age = n] : n \in AgesTyped} :
                draft' = [draft EXCEPT !.people = people]
        BY <3>2
      <4>2. people \in [participants : Int, parents : Int, age : Int]
        BY <1>1, <4>1, PartyContentAssumption DEF GuestDraft
      <4> HIDE <4>1
      <4>3. draft' = [draft EXCEPT !.people = people]  BY <4>1
      <4> QED  BY <1>1, <3>1, <4>2, <4>3 DEF GuestDraft
    <3>3. CASE \E contact \in ContactFields : draft' = [draft EXCEPT !.contact = contact]
      BY <1>1, <3>1, <3>3 DEF GuestDraft
    <3> QED  BY <2>1, <3>2, <3>3 DEF ChangeGuestNumbers
  <2>2. CASE ChangePlan
    <3>1. Editing  BY <2>2 DEF ChangePlan
    <3>2. ASSUME NEW c \in Choices,
                 draft' = [draft EXCEPT !.picks = toggleProject(draft.picks, c)]
          PROVE  GuestDraft(draft')
      <4> DEFINE picks == toggleProject(draft.picks, c)
      <4>1. picks \in [Choices -> {0, 1}]
            /\ (picks[Decide] = 0 \/ \A o \in Offerings : picks[o] = 0)
        BY <1>1, ToggledAlone DEF GuestDraft
      <4>2. draft' = [draft EXCEPT !.picks = picks]  BY <3>2
      <4> HIDE DEF picks
      <4> QED  BY <1>1, <4>1, <4>2 DEF GuestDraft
    <3>3. CASE \E start : draft' = [draft EXCEPT !.start = start]
      BY <1>1, <3>1, <3>3 DEF GuestDraft
    <3> QED  BY <2>2, <3>1, <3>2, <3>3 DEF ChangePlan
  <2>3. CASE ChangeExtras
    <3>1. Editing  BY <2>3 DEF ChangeExtras
    <3>2. CASE ChangeConsent
      <4>1. ConsentOK(draft.consent)  BY <1>1 DEF GuestDraft
      <4>2. PICK consent : ConsentOK(consent) /\ draft' = [draft EXCEPT !.consent = consent]
        BY <3>2, <4>1, ConsentChanges
      <4> QED  BY <1>1, <3>1, <4>2 DEF GuestDraft
    <3>3. ASSUME NEW extra \in [cake : BOOLEAN, cutting : BOOLEAN],
                 extra.cutting => extra.cake, draft' = [draft EXCEPT !.extra = extra]
          PROVE  GuestDraft(draft')
      BY <1>1, <3>3 DEF GuestDraft
    <3>4. CASE draft' = [draft EXCEPT !.extra = [cake |-> ~ @.cake, cutting |-> FALSE]]
      <4> DEFINE extra == [cake |-> ~ draft.extra.cake, cutting |-> FALSE]
      <4>1. extra \in [cake : BOOLEAN, cutting : BOOLEAN] /\ ~ extra.cutting  OBVIOUS
      <4>2. draft' = [draft EXCEPT !.extra = extra]  BY <3>4
      <4> HIDE DEF extra
      <4> QED  BY <3>1, <3>3, <4>1, <4>2
    <3>5. CASE draft.extra.cake /\ draft' = [draft EXCEPT !.extra.cutting = ~ @]
      <4> DEFINE extra == [draft.extra EXCEPT !.cutting = ~ @]
      <4>1. extra \in [cake : BOOLEAN, cutting : BOOLEAN] /\ extra.cake = draft.extra.cake
        BY <1>1 DEF GuestDraft
      <4>2. draft' = [draft EXCEPT !.extra = extra]  BY <3>5
      <4> HIDE DEF extra
      <4> QED  BY <3>1, <3>3, <3>5, <4>1, <4>2
    <3> QED  BY <2>3, <3>1, <3>2, <3>4, <3>5 DEF ChangeExtras
  <2>4. CASE ContinueParty
    BY <1>1, <2>4 DEF ContinueParty, GuestDraft
  <2>5. CASE BackParty
    BY <1>1, <2>5 DEF BackParty, GuestDraft
  <2> QED  BY <2>1, <2>2, <2>3, <2>4, <2>5 DEF GuestEdits
<1> QED  BY <1>2, EditingKeeps

LEMMA GuestSubmits ==
    ASSUME BookingContentInv, GuestInv, SubmitPartyContent
    PROVE  BookingContentInv'
<1>1. GuestDraft(draft) /\ draft.kind # "experience"  BY DEF GuestInv, GuestDraft
<1>2. CASE /\ validatePeople(draft) /\ validatePlan(draft) /\ ConsentGiven(draft.consent)
           /\ Click("schema")
  <2>1. /\ sending' = [stage |-> "schema", draft |-> draft] /\ verdict' = "none"
        /\ stored = Unsent /\ UNCHANGED <<draft, stored, offered, catalogue, outdated>>
    BY <1>2 DEF Click, around
  <2>2. /\ DOMAIN sending' = {"stage", "draft"} /\ sending'.stage = "schema"
        /\ sending'.draft = draft
    BY <2>1
  <2>3. GuestInv'
    BY <1>1, <1>2, <2>1, <2>2 DEF GuestInv, GuestSending, GuestDraft, validatePeople, validatePlan
  <2>4. StoredAsShown'
    BY <2>1 DEF StoredAsShown, OrdinaryAsShown, PartyAsShown, OrdinaryChecksAgree, PartyChecksAgree
  <2> QED  BY <2>1, <2>3, <2>4 DEF BookingContentInv
<1>3. CASE /\ \E step : draft' = [draft EXCEPT !.step = step]
           /\ ~ Underway /\ UNCHANGED <<sending, verdict, stored, offered, catalogue, outdated>>
  <2>1. GuestDraft(draft') /\ draft'.kind # "experience"  BY <1>1, <1>3 DEF GuestDraft
  <2>2. GuestInv'
    BY <1>3, <2>1 DEF GuestInv, GuestSending, GuestDraft, validatePeople
  <2>3. StoredAsShown'
    BY <1>1, <1>3, <2>1 DEF StoredAsShown, OrdinaryAsShown, PartyAsShown, OrdinaryChecksAgree,
       PartyChecksAgree, BookingContentInv, GuestDraft
  <2> QED  BY <1>3, <2>2, <2>3 DEF BookingContentInv, Underway
<1> QED  BY <1>2, <1>3 DEF SubmitPartyContent, around

(* What page and schema let through the API takes, unless the texts were   *)
(* replaced.                                                               *)
LEMMA SchemaAsApi ==
    ASSUME GuestDraft(sending.draft), validatePeople(sending.draft),
           WholeNumbers(sending.draft.people)
    PROVE  PartyWithin(sending.draft.people)
BY DEF GuestDraft, validatePeople, PartyWithin

LEMMA GuestAnswered ==
    ASSUME BookingContentInv, GuestInv, SchemaAnswered \/ PartyPosted
    PROVE  BookingContentInv'
<1> DEFINE d == sending.draft
<1>1. /\ GuestDraft(draft) /\ Underway /\ verdict = "none" /\ stored = Unsent
      /\ sending # Unsent
  BY DEF GuestInv, SchemaAnswered, PartyPosted, BookingContentInv, Underway
<1>2. /\ GuestDraft(d) /\ validatePeople(d) /\ Picked(d.picks) # {} /\ ConsentGiven(d.consent)
      /\ DOMAIN sending = {"stage", "draft"}
  BY <1>1 DEF GuestInv, GuestSending
<1>3. UNCHANGED <<offered, catalogue, outdated>>
  BY DEF SchemaAnswered, PartyPosted, Conclude, around
<1>4. GuestDraft(draft') /\ draft'.kind # "experience"
  BY <1>1 DEF SchemaAnswered, PartyPosted, Conclude, GuestDraft
<1>5. ASSUME NEW stage \in {"posted", "answered"}, sending' = [sending EXCEPT !.stage = stage],
             stage = "posted" => WholeNumbers(d.people) /\ d.contact = "good"
      PROVE  GuestInv' /\ sending'.draft = d /\ sending'.stage = stage
  <2>1. /\ DOMAIN sending' = {"stage", "draft"} /\ sending'.stage = stage
        /\ sending'.draft = d
    BY <1>2, <1>5
  <2> QED
    BY <1>2, <1>4, <1>5, <2>1 DEF GuestInv, GuestSending, GuestDraft, validatePeople
<1>6. CASE SchemaAnswered
  <2>1. stored' = Unsent  BY <1>1, <1>6 DEF SchemaAnswered
  <2>2. CASE WholeNumbers(d.people) /\ d.contact = "good"
    <3>1. sending' = [sending EXCEPT !.stage = "posted"] /\ verdict' = "none"
      BY <1>1, <1>6, <2>2 DEF SchemaAnswered
    <3>2. GuestInv'  BY <1>5, <2>2, <3>1
    <3>3. StoredAsShown'
      BY <2>1, <3>1 DEF StoredAsShown, OrdinaryAsShown, PartyAsShown, OrdinaryChecksAgree,
         PartyChecksAgree
    <3> QED  BY <1>3, <2>1, <3>1, <3>2, <3>3 DEF BookingContentInv
  <2>3. CASE ~ (WholeNumbers(d.people) /\ d.contact = "good")
    <3>1. sending' = [sending EXCEPT !.stage = "answered"] /\ verdict' = "incomplete"
      BY <1>6, <2>3 DEF SchemaAnswered, Conclude
    <3>2. GuestInv' /\ sending'.draft = d /\ ~ Underway'  BY <1>5, <3>1 DEF Underway
    <3>3. ~ WholeNumbers(d.people) \/ d.contact = "odd"
      BY <1>2, <2>3 DEF GuestDraft, ContactFields, validatePeople
    <3> HIDE DEF d
    <3>4. PartyChecksAgree'  BY <3>1, <3>2, <3>3 DEF PartyChecksAgree, WholeNumbers
    <3>5. StoredAsShown'
      BY <1>4, <2>1, <3>4 DEF StoredAsShown, OrdinaryAsShown, PartyAsShown, OrdinaryChecksAgree
    <3> QED  BY <1>3, <3>2, <3>5 DEF BookingContentInv
  <2> QED  BY <2>2, <2>3
<1>7. CASE PartyPosted
  <2>1. sending' = [sending EXCEPT !.stage = "answered"] /\ sending.stage = "posted"
    BY <1>7 DEF PartyPosted, Conclude
  <2>2. WholeNumbers(d.people) /\ d.contact = "good"
    BY <1>1, <2>1 DEF GuestInv, GuestSending
  <2>3. GuestInv' /\ sending'.draft = d /\ ~ Underway'  BY <1>5, <2>1 DEF Underway
  <2>4. PartyWithin(d.people)  BY <1>2, <2>2, SchemaAsApi
  <2>5. PartyChecksAgree'
    <3>1. verdict' = "invalid" => outdated
      BY <1>2, <1>7, <2>4 DEF PartyPosted, Conclude
    <3>2. verdict' # "incomplete"  BY <1>7 DEF PartyPosted, Conclude
    <3> QED  BY <1>3, <3>1, <3>2 DEF PartyChecksAgree
  <2>6. PartyAsShown'
    <3> SUFFICES ASSUME stored' # Unsent  PROVE PartyAsShown'  BY DEF PartyAsShown
    <3>1. stored' = [picks |-> d.picks, people |-> d.people, consent |-> d.consent,
                     extra |-> d.extra]
      BY <1>1, <1>7 DEF PartyPosted
    <3>2. d.extra.cutting => d.extra.cake  BY <1>2 DEF GuestDraft
    <3>3. d.picks[Decide] = 0 \/ Picked(d.picks) = {Decide}
      <4>1. d.picks \in [Choices -> {0, 1}]  BY <1>2 DEF GuestDraft
      <4> SUFFICES ASSUME d.picks[Decide] # 0  PROVE Picked(d.picks) = {Decide}  OBVIOUS
      <4>2. d.picks[Decide] = 1 /\ \A c \in Offerings : d.picks[c] = 0
        BY <1>2, <4>1 DEF GuestDraft, Choices
      <4> QED  BY <4>2 DEF Picked, Choices
    <3>4. d.consent.signed = (d.consent.photo # "declined")
      <4>1. d.consent.signed \in BOOLEAN /\ (d.consent.signed => d.consent.photo # "declined")
        BY <1>2 DEF GuestDraft, ConsentOK, Consent
      <4>2. d.consent.photo = "declined" \/ d.consent.signed  BY <1>2 DEF ConsentGiven
      <4> QED  BY <4>1, <4>2
    <3> HIDE DEF d
    <3>5. /\ stored'.people = d.people /\ stored'.extra = d.extra
          /\ stored'.picks = d.picks /\ stored'.consent = d.consent
      BY <3>1
    <3>6. sending'.draft = d  BY <2>3
    <3>7. WholeNumbers(stored'.people)  BY <2>2, <3>5
    <3> QED  BY <3>1, <3>2, <3>3, <3>4, <3>5, <3>6, <3>7 DEF PartyAsShown, WholeNumbers
  <2>7. StoredAsShown'
    BY <1>4, <2>5, <2>6 DEF StoredAsShown, OrdinaryAsShown, OrdinaryChecksAgree
  <2> QED  BY <1>3, <2>3, <2>7 DEF BookingContentInv
<1> QED  BY <1>6, <1>7

-----------------------------------------------------------------------------
LEMMA FormShownInv == FormShown => BookingContentInv
<1> SUFFICES ASSUME FormShown  PROVE BookingContentInv  OBVIOUS
<1>1. sending = Unsent /\ stored = Unsent /\ verdict = "none" /\ ~ Underway
  BY DEF FormShown, Underway
<1>2. ConsentOK(NoConsent)  BY DEF ConsentOK, Consent, NoConsent
<1>3. CASE OrdinaryContentInit
  <2>1. PICK picks : draft = BlankOrdinary(picks)  BY <1>3 DEF OrdinaryContentInit
  <2>2. GroupDraft(draft)  BY <1>2, <2>1 DEF BlankOrdinary, GroupDraft
  <2> QED
    BY <1>1, <2>2 DEF FormShown, BookingContentInv, GroupInv, GroupSending, StoredAsShown,
       OrdinaryAsShown, PartyAsShown, OrdinaryChecksAgree, PartyChecksAgree
<1>4. CASE PartyContentInit
  <2>1. draft = BlankParty  BY <1>4 DEF PartyContentInit
  <2>2. GuestDraft(draft)
    BY <1>2, <2>1, ContentAssumption DEF BlankParty, GuestDraft, NoExtras, Choices, ContactFields
  <2> QED
    BY <1>1, <2>2 DEF FormShown, BookingContentInv, GuestInv, GuestSending, StoredAsShown,
       OrdinaryAsShown, PartyAsShown, OrdinaryChecksAgree, PartyChecksAgree
<1> QED  BY <1>3, <1>4 DEF FormShown

LEMMA BookingContentStep ==
    BookingContentInv /\ [BookingContentNext]_contentVars => BookingContentInv'
<1> SUFFICES ASSUME BookingContentInv, [BookingContentNext]_contentVars
             PROVE  BookingContentInv'
  OBVIOUS
<1>1. CASE UNCHANGED contentVars
  <2>1. UNCHANGED <<draft, sending, offered, catalogue, outdated, verdict, stored>>
    BY <1>1 DEF contentVars
  <2>2. \A d : GroupDraft(d)' <=> GroupDraft(d)  BY <2>1 DEF GroupDraft
  <2>3. (GroupInv \/ GuestInv)'
    BY <2>1, <2>2 DEF BookingContentInv, GroupInv, GuestInv, GuestDraft, GroupSending,
       GuestSending, SchemaAccepts, validatePeople
  <2>4. StoredAsShown'
    BY <2>1 DEF BookingContentInv, StoredAsShown, OrdinaryAsShown, PartyAsShown,
       OrdinaryChecksAgree, PartyChecksAgree
  <2> QED  BY <2>1, <2>3, <2>4 DEF BookingContentInv, Underway
<1>2. CASE EditProject \/ ReplaceTexts  BY <1>2, Outside
<1>3. CASE OrdinaryContentNext
  <2>1. GroupInv
    <3> SUFFICES ASSUME GuestInv  PROVE FALSE  BY DEF BookingContentInv
    <3>1. draft.kind = "party"  BY DEF GuestInv, GuestDraft
    <3>2. /\ Underway => sending.stage # "checking"
          /\ Underway => sending.draft.kind = "party"
      BY DEF GuestInv, GuestSending, GuestDraft, Underway
    <3> QED
      BY <1>3, <3>1, <3>2 DEF OrdinaryContentNext, OnStep, setQuantity, updateAttendance,
         ChooseStart, DropStart, EnterContact, ContinueOrdinary, BackOrdinary, SubmitContent,
         FreshAnswered, OrdinaryPosted
  <2> QED
    BY <1>3, <2>1, GroupEditsKeep, GroupSubmits, GroupAnswered DEF OrdinaryContentNext, GroupEdits
<1>4. CASE PartyContentNext
  <2>1. GuestInv
    <3> SUFFICES ASSUME GroupInv  PROVE FALSE  BY DEF BookingContentInv
    <3>1. draft.kind = "experience"  BY DEF GroupInv, GroupDraft
    <3>2. /\ Underway => sending.stage # "schema"
          /\ Underway => sending.draft.kind = "experience"
      BY DEF GroupInv, GroupSending, GroupDraft, Underway
    <3> QED
      BY <1>4, <3>1, <3>2 DEF PartyContentNext, OnPartyStep, ChangeGuestNumbers, ChangePlan,
         ChangeExtras, ContinueParty, BackParty, SubmitPartyContent, SchemaAnswered, PartyPosted
  <2> QED
    BY <1>4, <2>1, GuestEditsKeep, GuestSubmits, GuestAnswered DEF PartyContentNext, GuestEdits
<1> QED  BY <1>1, <1>2, <1>3, <1>4 DEF BookingContentNext

(* A stored booking or party is the one the customer saw when clicking;    *)
(* page, schema and API refuse nothing that another of them let through,   *)
(* but for what changed meanwhile.                                         *)
THEOREM RequestsAreAsShown == BookingContentSpec => []StoredAsShown
<1>1. BookingContentInv => StoredAsShown  BY DEF BookingContentInv
<1> QED  BY <1>1, FormShownInv, BookingContentStep, PTL DEF BookingContentSpec
=============================================================================
