----------------------------- MODULE Transitions -----------------------------
(***************************************************************************)
(* The status changes the API accepts, as pairs <<from, to>>: of ordinary  *)
(* bookings, of parties without a dedicated operation, and of cart orders  *)
(* and bookings of the earlier form.                                       *)
(***************************************************************************)

ORDINARY_TRANSITIONS ==
    ({"pending_review"} \X {"confirmed", "waitlisted", "rejected", "cancelled"})
    \cup ({"waitlisted"} \X {"confirmed", "rejected", "cancelled"})
    \cup ({"confirmed"} \X {"reschedule_requested", "cancellation_requested",
                            "cancelled", "no_show", "completed"})
    \cup ({"reschedule_requested", "cancellation_requested"} \X {"confirmed", "cancelled"})

PARTY_TRANSITIONS ==
    ({"pending_review"} \X {"rejected", "cancelled"})
    \cup ({"time_proposed", "awaiting_in_store_payment", "cancellation_requested"}
            \X {"cancelled"})
    \cup ({"confirmed_paid"} \X {"cancellation_requested", "no_show", "completed"})

VALID_TRANSITIONS ==
    ({"new"} \X {"contacted", "confirmed", "cancelled"})
    \cup ({"contacted"} \X {"confirmed", "cancelled"}) \cup {<<"confirmed", "cancelled">>}
=============================================================================
