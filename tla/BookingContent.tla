---------------------------- MODULE BookingContent ----------------------------
(***************************************************************************)
(* A visit to one of the two forms, while staff edit projects and releases *)
(* replace the texts a customer agrees to.                                 *)
(***************************************************************************)
EXTENDS OrdinaryContent, PartyContent

(* The pages offer the projects that can be booked and take half an hour or*)
(* an hour; everything else starts empty.                                  *)
FormShown ==
    /\ OrdinaryContentInit \/ PartyContentInit
    /\ offered \in [Offerings -> 1 .. DECIDE_DURATION] /\ catalogue = offered
    /\ sending = Unsent /\ late = 0 /\ outdated = FALSE
    /\ verdict = "none" /\ stored = Unsent

BookingContentNext ==
    OrdinaryContentNext \/ PartyContentNext \/ EditProject \/ ReplaceTexts

BookingContentSpec == FormShown /\ [][BookingContentNext]_contentVars

-----------------------------------------------------------------------------
(* What is stored of either kind of request is what the customer saw, and  *)
(* page, schema and API agree on what can be stored.                       *)
StoredAsShown == OrdinaryAsShown /\ PartyAsShown /\ OrdinaryChecksAgree /\ PartyChecksAgree
=============================================================================
