----------------------------- MODULE Maintenance -----------------------------
(***************************************************************************)
(* The maintenance worker of each process of the API: once a minute it     *)
(* expires the holds that are overdue and then enqueues the reminders of   *)
(* visits a day ahead, while staff and customers change both.              *)
(*                                                                         *)
(* What a run lists, it lists once; each candidate is then a transaction   *)
(* of its own.  The first that fails ends the run.                         *)
(***************************************************************************)
EXTENDS Integers

CONSTANTS
    Visits,         \* bookings with an e-mail address
    Processes,
    Starts,         \* minutes at which visits may start
    Deadlines,      \* minutes at which holds may end
    Notice,         \* the 24 hours
    Slack,          \* the 5 minutes around them
    LastMinute,     \* bound
    MaxErrors,      \* bound: no crash after so many errors
    Nothing         \* no row is locked

ASSUME MaintenanceAssumption ==
    /\ Notice \in Nat /\ Slack \in Nat /\ Starts \cup Deadlines \subseteq Int
    /\ Processes # {} /\ Nothing \notin Visits \X Int

VARIABLES
    minute,
    visit,          \* status, times, and when it was confirmed last
    expired,        \* operations of the worker: a hold and its deadline
    reminders,      \* dedupe keys in the outbox: a visit and its start
    run,            \* activeRun of each process
    polled,         \* whether the timer fired this minute
    errors          \* runs that failed, up to Slack

maintenanceVars == <<minute, visit, expired, reminders, run, polled, errors>>
jobs == <<expired, reminders, run, polled, errors>>

IdleRun == [stage |-> "idle", holds |-> {}, todo |-> {}, row |-> Nothing]

MaintenanceInit ==
    /\ minute = 0
    /\ visit = [v \in Visits |-> [status |-> "requested", start |-> 0, due |-> 0, confirmed |-> 0]]
    /\ expired = {} /\ reminders = {} /\ errors = 0
    /\ run = [p \in Processes |-> IdleRun]
    /\ polled = [p \in Processes |-> FALSE]

-----------------------------------------------------------------------------
(* Staff and customers.                                                    *)

(* A plausible bug: the row is read, not locked.                           *)
UnlockedAlways(v) == TRUE

(* FOR UPDATE keeps other transactions off the row.                        *)
Unlocked(v) ==
    \A p \in Processes : run[p].row # Nothing => run[p].row[1] # v

Change(v, row) ==
    /\ Unlocked(v)
    /\ visit' = [visit EXCEPT ![v] = row]
    /\ UNCHANGED <<minute, jobs>>

(* A confirmation, or one more after a request to move the visit.          *)
ConfirmVisit(v, start) ==
    /\ visit[v].status \in {"requested", "confirmed"} /\ start > minute
    /\ Change(v, [status |-> "confirmed", start |-> start, due |-> 0, confirmed |-> minute])

HoldVisit(v, start, due) ==
    /\ visit[v].status = "requested" /\ start > due /\ due > minute
    /\ Change(v, [status |-> "held", start |-> start, due |-> due, confirmed |-> 0])

PayVisit(v) ==
    /\ visit[v].status = "held" /\ visit[v].due > minute
    /\ Change(v, [visit[v] EXCEPT !.status = "confirmed", !.confirmed = minute])

(* Cancelled, or a hold that staff lets expire.                            *)
EndVisit(v) ==
    /\ visit[v].status \in {"held", "confirmed"}
    /\ Change(v, [visit[v] EXCEPT !.status = "over"])

-----------------------------------------------------------------------------
(* A run.                                                                  *)

Overdue == {v \in Visits : visit[v].status = "held" /\ visit[v].due <= minute}

(* A plausible bug: only the minutes before the 24 hours count.            *)
InWindowEarly(start) == start - minute \in Notice + 1 .. Notice + Slack

InWindow(start) == start - minute \in Notice - Slack .. Notice + Slack

(* reminderEligibility; the run's instant is the minute it began in.       *)
Eligible(v) ==
    /\ visit[v].status = "confirmed" /\ InWindow(visit[v].start)
    /\ visit[v].confirmed <= visit[v].start - Notice

Key(v) == <<v, visit[v].start>>

Poll(p) ==
    /\ run[p].stage = "idle" /\ ~ polled[p]
    /\ polled' = [polled EXCEPT ![p] = TRUE]
    /\ run' = [run EXCEPT ![p].stage = "holds", ![p].holds = {<<v, visit[v].due>> : v \in Overdue}]
    /\ UNCHANGED <<minute, visit, expired, reminders, errors>>

(* The hold with the earliest deadline first.  The operation id names hold *)
(* and deadline, so that another process repeats what was done.            *)
ExpireHold(p, hold) ==
    LET v == hold[1] IN
    /\ run[p].stage = "holds" /\ hold \in run[p].holds
    /\ \A other \in run[p].holds : hold[2] <= other[2]
    /\ Unlocked(v)
    /\ \/ hold \in expired /\ UNCHANGED <<visit, expired>>
       \/ /\ hold \notin expired /\ v \in Overdue
          /\ visit' = [visit EXCEPT ![v].status = "over"]
          /\ expired' = expired \cup {hold}
    /\ run' = [run EXCEPT ![p].holds = @ \ {hold}]
    /\ UNCHANGED <<minute, reminders, polled, errors>>

CountError == errors' = IF errors < Slack THEN errors + 1 ELSE errors

(* Staff was faster: STATUS_CONFLICT ends the run; finally clears activeRun*)
(* and the next poll starts another.                                       *)
ConflictEndsRun(p, hold) ==
    /\ run[p].stage = "holds" /\ hold \in run[p].holds
    /\ \A other \in run[p].holds : hold[2] <= other[2]
    /\ hold \notin expired /\ hold[1] \notin Overdue
    /\ run' = [run EXCEPT ![p] = IdleRun]
    /\ CountError
    /\ UNCHANGED <<minute, visit, expired, reminders, polled>>

(* The process dies, or the database fails; a restart polls at once.       *)
CrashRun(p) ==
    /\ run[p].stage # "idle" /\ errors < MaxErrors
    /\ run' = [run EXCEPT ![p] = IdleRun]
    /\ polled' \in {polled, [polled EXCEPT ![p] = FALSE]}
    /\ CountError
    /\ UNCHANGED <<minute, visit, expired, reminders>>

ListReminders(p) ==
    /\ run[p].stage = "holds" /\ run[p].holds = {}
    /\ run' = [run EXCEPT ![p].stage = "reminders",
                          ![p].todo = {Key(v) : v \in {v \in Visits : Eligible(v)}} \ reminders]
    /\ UNCHANGED <<minute, visit, expired, reminders, polled, errors>>

(* markReminderEnqueued: the row is locked, then what was listed is checked*)
(* again.                                                                  *)
LockVisit(p, key) ==
    /\ run[p].stage = "reminders" /\ run[p].row = Nothing /\ key \in run[p].todo
    /\ \A other \in run[p].todo : key[2] <= other[2]
    /\ Unlocked(key[1])
    /\ run' = [run EXCEPT ![p].todo = @ \ {key},
            ![p].row = IF Eligible(key[1]) /\ Key(key[1]) = key /\ key \notin reminders
                       THEN key ELSE Nothing]
    /\ UNCHANGED <<minute, visit, expired, reminders, polled, errors>>

(* A link and the e-mail, and COMMIT.                                      *)
EnqueueReminder(p) ==
    /\ run[p].row # Nothing
    /\ reminders' = reminders \cup {run[p].row}
    /\ run' = [run EXCEPT ![p].row = Nothing]
    /\ UNCHANGED <<minute, visit, expired, polled, errors>>

EndRun(p) ==
    /\ run[p].stage = "reminders" /\ run[p].todo = {} /\ run[p].row = Nothing
    /\ run' = [run EXCEPT ![p] = IdleRun]
    /\ UNCHANGED <<minute, visit, expired, reminders, polled, errors>>

(* A run takes less than a minute; a poll that finds one active joins it.  *)
NextMinute ==
    /\ minute < LastMinute
    /\ \A p \in Processes : run[p].stage = "idle" /\ polled[p]
    /\ minute' = minute + 1
    /\ polled' = [p \in Processes |-> FALSE]
    /\ UNCHANGED <<visit, expired, reminders, run, errors>>

-----------------------------------------------------------------------------
ChangeVisit(v) ==
    \/ \E start \in Starts :
        \/ ConfirmVisit(v, start)
        \/ \E due \in Deadlines : HoldVisit(v, start, due)
    \/ PayVisit(v) \/ EndVisit(v)

RunStep(p) ==
    \/ Poll(p) \/ CrashRun(p) \/ ListReminders(p) \/ EnqueueReminder(p) \/ EndRun(p)
    \/ \E hold \in run[p].holds : ExpireHold(p, hold) \/ ConflictEndsRun(p, hold)
    \/ \E key \in run[p].todo : LockVisit(p, key)

MaintenanceNext ==
    \/ \E v \in Visits : ChangeVisit(v)
    \/ \E p \in Processes : RunStep(p)
    \/ NextMinute

MaintenanceSpec == MaintenanceInit /\ [][MaintenanceNext]_maintenanceVars

-----------------------------------------------------------------------------
(* A visit that was confirmed a day ahead, and keeps its time, is reminded *)
(* of when its window is over, although holds that cannot be expired and   *)
(* crashes ended as many runs as the window leaves room for.               *)
RemindersSent ==
    \A v \in Visits :
        (/\ visit[v].status = "confirmed"
         /\ visit[v].confirmed <= visit[v].start - Notice
         /\ minute > visit[v].start - Notice + Slack
         /\ errors < Slack)
            => Key(v) \in reminders

(* A reminder is true when it is committed: the visit is confirmed for the *)
(* time it names, a day ahead, also if it was moved or cancelled after it  *)
(* was listed.                                                             *)
RemindersTrue ==
    [][\A key \in reminders' \ reminders :
        /\ Key(key[1]) = key /\ visit[key[1]].status = "confirmed"
        /\ key[2] - minute \in Notice - Slack .. Notice + Slack]_maintenanceVars
=============================================================================
