---------------------------- MODULE WorkersProofs ----------------------------
(***************************************************************************)
(* Maintenance for any number of visits and processes and any times: a     *)
(* reminder is true when it is committed, however late its turn came, and  *)
(* it is sent.  Notifications for any requests, days and lifetimes: the    *)
(* outbox takes every e-mail, none claims what is not so, and links last.  *)
(***************************************************************************)
EXTENDS Maintenance, Notifications, TLAPS

VisitRow == [status : {"requested", "held", "confirmed", "over"},
          start : Int, due : Int, confirmed : Int]
Pairs == Visits \X Int
Run == [stage : {"idle", "holds", "reminders"}, holds : SUBSET Pairs, todo : SUBSET Pairs,
        row : Pairs \cup {Nothing}]

TypeOK ==
    /\ minute \in Int
    /\ visit \in [Visits -> VisitRow]
    /\ run \in [Processes -> Run]

(* The row a run has locked: it is what was checked under the lock.        *)
TrueRow(p) ==
    run[p].row # Nothing =>
        LET v == run[p].row[1] IN
        run[p].stage = "reminders" /\ Eligible(v) /\ Key(v) = run[p].row

IInv == TypeOK /\ \A p \in Processes : TrueRow(p)

(* The reminders a step commits are true.                                  *)
Truthful ==
    \A key \in reminders' \ reminders :
        /\ Key(key[1]) = key /\ visit[key[1]].status = "confirmed"
        /\ key[2] - minute \in Notice - Slack .. Notice + Slack

-----------------------------------------------------------------------------
LEMMA InitInv == MaintenanceInit => IInv
BY DEF MaintenanceInit, IInv, TypeOK, VisitRow, Run, Pairs, IdleRun, TrueRow

(* A visit that changes is not locked by any run.                          *)
LEMMA VisitChanges ==
    ASSUME IInv, NEW v \in Visits, Unlocked(v), NEW row \in VisitRow,
           visit' = [visit EXCEPT ![v] = row], minute' = minute,
           NEW p \in Processes, run[p].row # Nothing
    PROVE  TrueRow(p)' \/ run' # run
<1> SUFFICES ASSUME run' = run  PROVE TrueRow(p)'  OBVIOUS
<1>1. run[p].row \in Pairs /\ run[p].row[1] # v
  BY DEF IInv, TypeOK, Run, Unlocked
<1>2. visit'[run[p].row[1]] = visit[run[p].row[1]]
  BY <1>1 DEF IInv, TypeOK, Pairs
<1> QED  BY <1>1, <1>2 DEF IInv, TrueRow, Eligible, InWindow, Key

(* A run that goes on: the visits it and others have locked stay as they   *)
(* are.                                                                    *)
LEMMA RunGoesOn ==
    ASSUME IInv, NEW p \in Processes, NEW new \in Run, run' = [run EXCEPT ![p] = new],
           UNCHANGED <<minute, visit>>,
           new.row # Nothing =>
               new.stage = "reminders" /\ Eligible(new.row[1]) /\ Key(new.row[1]) = new.row
    PROVE  IInv'
<1>1. TypeOK'  BY DEF IInv, TypeOK
<1>2. ASSUME NEW q \in Processes  PROVE TrueRow(q)'
  <2>1. run'[q] = IF q = p THEN new ELSE run[q]  BY DEF IInv, TypeOK
  <2> QED  BY <2>1 DEF IInv, TrueRow, Eligible, InWindow, Key
<1> QED  BY <1>1, <1>2 DEF IInv

LEMMA ChangeInv ==
    ASSUME IInv, NEW v \in Visits, ChangeVisit(v)
    PROVE  IInv' /\ reminders' = reminders
<1>1. PICK row \in VisitRow : Change(v, row)
  <2>1. visit[v] \in VisitRow /\ minute \in Int /\ Starts \subseteq Int /\ Deadlines \subseteq Int
    BY MaintenanceAssumption DEF IInv, TypeOK
  <2>2. CASE \E start \in Starts : ConfirmVisit(v, start)
    <3>1. PICK start \in Starts : ConfirmVisit(v, start)  BY <2>2
    <3>2. [status |-> "confirmed", start |-> start, due |-> 0, confirmed |-> minute] \in VisitRow
      BY <2>1 DEF VisitRow
    <3> QED  BY <3>1, <3>2 DEF ConfirmVisit
  <2>3. CASE \E start \in Starts, due \in Deadlines : HoldVisit(v, start, due)
    <3>1. PICK start \in Starts, due \in Deadlines : HoldVisit(v, start, due)  BY <2>3
    <3>2. [status |-> "held", start |-> start, due |-> due, confirmed |-> 0] \in VisitRow
      BY <2>1 DEF VisitRow
    <3> QED  BY <3>1, <3>2 DEF HoldVisit
  <2>4. CASE PayVisit(v)
    <3>1. [visit[v] EXCEPT !.status = "confirmed", !.confirmed = minute] \in VisitRow
      BY <2>1 DEF VisitRow
    <3> QED  BY <2>4, <3>1 DEF PayVisit
  <2>5. CASE EndVisit(v)
    <3>1. [visit[v] EXCEPT !.status = "over"] \in VisitRow  BY <2>1 DEF VisitRow
    <3> QED  BY <2>5, <3>1 DEF EndVisit
  <2> QED  BY <2>2, <2>3, <2>4, <2>5 DEF ChangeVisit
<1>2. /\ Unlocked(v) /\ visit' = [visit EXCEPT ![v] = row]
      /\ UNCHANGED <<minute, run, reminders>>
  BY <1>1 DEF Change, jobs
<1>3. TypeOK'  BY <1>2 DEF IInv, TypeOK
<1>4. ASSUME NEW p \in Processes  PROVE TrueRow(p)'
  <2>1. CASE run[p].row = Nothing  BY <2>1, <1>2 DEF TrueRow
  <2>2. CASE run[p].row # Nothing  BY <2>2, <1>2, VisitChanges
  <2> QED  BY <2>1, <2>2
<1> QED  BY <1>2, <1>3, <1>4 DEF IInv

LEMMA IdleRunType == IdleRun \in Run /\ IdleRun.row = Nothing
BY DEF IdleRun, Run, Pairs

(* Each step of a run.                                                     *)
LEMMA RunInv ==
    ASSUME IInv, NEW p \in Processes, RunStep(p)
    PROVE  IInv' /\ Truthful
<1>1. /\ run \in [Processes -> Run] /\ run[p] \in Run /\ TrueRow(p)
      /\ \A v \in Visits : visit[v].start \in Int /\ visit[v].due \in Int
  BY DEF IInv, TypeOK, VisitRow
<1>2. CASE Poll(p)
  <2> DEFINE holds == {<<v, visit[v].due>> : v \in Overdue}
             new == [run[p] EXCEPT !.stage = "holds", !.holds = holds]
  <2>1. holds \subseteq Pairs  BY <1>1 DEF Pairs, Overdue
  <2>2. /\ run[p].stage = "idle" /\ run' = [run EXCEPT ![p] = new]
        /\ UNCHANGED <<minute, visit, reminders>>
    BY <1>2 DEF Poll
  <2>3. new \in Run /\ run[p].row = Nothing /\ new.row = Nothing
    BY <1>1, <2>1, <2>2 DEF Run, TrueRow
  <2> HIDE DEF new, holds
  <2> QED  BY <2>2, <2>3, RunGoesOn DEF Truthful
<1>3. CASE CrashRun(p) \/ EndRun(p) \/ \E hold \in run[p].holds : ConflictEndsRun(p, hold)
  <2>1. run' = [run EXCEPT ![p] = IdleRun] /\ UNCHANGED <<minute, visit, reminders>>
    BY <1>3 DEF CrashRun, EndRun, ConflictEndsRun
  <2> QED  BY <2>1, IdleRunType, RunGoesOn DEF Truthful
<1>4. CASE ListReminders(p)
  <2> DEFINE todo == {Key(v) : v \in {v \in Visits : Eligible(v)}} \ reminders
             new == [run[p] EXCEPT !.stage = "reminders", !.todo = todo]
  <2>1. todo \subseteq Pairs  BY <1>1 DEF Pairs, Key
  <2>2. /\ run[p].stage = "holds" /\ run' = [run EXCEPT ![p] = new]
        /\ UNCHANGED <<minute, visit, reminders>>
    BY <1>4 DEF ListReminders
  <2>3. new \in Run /\ run[p].row = Nothing /\ new.row = Nothing
    BY <1>1, <2>1, <2>2 DEF Run, TrueRow
  <2> HIDE DEF new, todo
  <2> QED  BY <2>2, <2>3, RunGoesOn DEF Truthful
<1>5. ASSUME NEW hold \in run[p].holds, ExpireHold(p, hold)  PROVE IInv' /\ Truthful
  <2> DEFINE v == hold[1]
             new == [run[p] EXCEPT !.holds = @ \ {hold}]
  <2>1. /\ run[p].stage = "holds" /\ Unlocked(v) /\ run' = [run EXCEPT ![p] = new]
        /\ visit' = visit \/ visit' = [visit EXCEPT ![v].status = "over"]
        /\ UNCHANGED <<minute, reminders>>
    BY <1>5 DEF ExpireHold
  <2>2. v \in Visits /\ new \in Run /\ new.row = Nothing
    BY <1>1, <2>1 DEF Run, Pairs, TrueRow
  <2>3. visit' \in [Visits -> VisitRow] /\ \A u \in Visits \ {v} : visit'[u] = visit[u]
    BY <2>1, <2>2 DEF IInv, TypeOK, VisitRow
  <2>4. TypeOK'  BY <1>1, <2>1, <2>2, <2>3 DEF IInv, TypeOK
  <2>5. ASSUME NEW q \in Processes  PROVE TrueRow(q)'
    <3>1. run'[q] = IF q = p THEN new ELSE run[q]  BY <1>1, <2>1
    <3>2. CASE q = p \/ run[q].row = Nothing  BY <3>1, <3>2, <2>2 DEF TrueRow
    <3>3. CASE q # p /\ run[q].row # Nothing
      <4>1. run[q].row \in Pairs /\ run[q].row[1] # v /\ run'[q] = run[q]
        BY <3>1, <3>3, <1>1, <2>1 DEF Run, Unlocked
      <4>2. visit'[run[q].row[1]] = visit[run[q].row[1]]  BY <4>1, <2>3 DEF Pairs
      <4> QED  BY <4>1, <4>2, <2>1 DEF IInv, TrueRow, Eligible, InWindow, Key
    <3> QED  BY <3>2, <3>3
  <2> QED  BY <2>1, <2>4, <2>5 DEF IInv, Truthful
<1>6. ASSUME NEW key \in run[p].todo, LockVisit(p, key)  PROVE IInv' /\ Truthful
  <2> DEFINE found == Eligible(key[1]) /\ Key(key[1]) = key /\ key \notin reminders
             new == [run[p] EXCEPT !.todo = @ \ {key}, !.row = IF found THEN key ELSE Nothing]
  <2>1. /\ run[p].stage = "reminders" /\ run' = [run EXCEPT ![p] = new]
        /\ UNCHANGED <<minute, visit, reminders>>
    BY <1>6 DEF LockVisit
  <2>2. /\ new \in Run /\ new.stage = "reminders"
        /\ new.row # Nothing => new.row = key /\ found
    BY <1>1, <2>1 DEF Run
  <2> HIDE DEF new
  <2> QED  BY <2>1, <2>2, RunGoesOn DEF Truthful
<1>7. CASE EnqueueReminder(p)
  <2> DEFINE new == [run[p] EXCEPT !.row = Nothing]
  <2>1. /\ run[p].row # Nothing /\ run' = [run EXCEPT ![p] = new]
        /\ reminders' = reminders \cup {run[p].row} /\ UNCHANGED <<minute, visit>>
    BY <1>7 DEF EnqueueReminder
  <2>2. new \in Run /\ new.row = Nothing  BY <1>1 DEF Run
  <2>3. Truthful
    <3>1. Eligible(run[p].row[1]) /\ Key(run[p].row[1]) = run[p].row
      BY <1>1, <2>1 DEF TrueRow
    <3> QED  BY <2>1, <3>1 DEF Truthful, Eligible, InWindow, Key
  <2> HIDE DEF new
  <2> QED  BY <2>1, <2>2, <2>3, RunGoesOn
<1> QED  BY <1>2, <1>3, <1>4, <1>5, <1>6, <1>7 DEF RunStep

LEMMA NextInv ==
    ASSUME IInv, [MaintenanceNext]_maintenanceVars
    PROVE  IInv' /\ Truthful
<1>1. CASE UNCHANGED maintenanceVars
  BY <1>1 DEF maintenanceVars, IInv, TypeOK, TrueRow, Eligible, InWindow, Key, Truthful
<1>2. ASSUME NextMinute  PROVE IInv' /\ Truthful
  <2>1. /\ \A p \in Processes : run[p].stage = "idle"
        /\ minute' = minute + 1 /\ UNCHANGED <<visit, run, reminders>>
    BY <1>2 DEF NextMinute
  <2>2. TypeOK'  BY <2>1 DEF IInv, TypeOK
  <2>3. \A p \in Processes : run[p].row = Nothing  BY <2>1 DEF IInv, TrueRow
  <2> QED  BY <2>1, <2>2, <2>3 DEF IInv, TrueRow, Truthful
<1>3. ASSUME NEW v \in Visits, ChangeVisit(v)  PROVE IInv' /\ Truthful
  BY <1>3, ChangeInv DEF Truthful
<1> QED  BY <1>1, <1>2, <1>3, RunInv DEF MaintenanceNext

(* A reminder names the time the visit is confirmed for at the instant the *)
(* reminder commits, however many processes list, lock and crash, and      *)
(* whoever moves or cancels the visit meanwhile.                           *)
THEOREM RemindersAreTrue == MaintenanceSpec => RemindersTrue
<1>1. (IInv /\ Truthful) => \A key \in reminders' \ reminders :
        /\ Key(key[1]) = key /\ visit[key[1]].status = "confirmed"
        /\ key[2] - minute \in Notice - Slack .. Notice + Slack
  BY DEF Truthful
<1>2. IInv /\ [MaintenanceNext]_maintenanceVars =>
        IInv' /\ [\A key \in reminders' \ reminders :
                    /\ Key(key[1]) = key /\ visit[key[1]].status = "confirmed"
                    /\ key[2] - minute \in Notice - Slack .. Notice + Slack]_maintenanceVars
  BY <1>1, NextInv
<1> QED  BY <1>2, InitInv, PTL DEF MaintenanceSpec, RemindersTrue

-----------------------------------------------------------------------------
(* Every reminder is sent: a run that ends without one is an error.        *)

(* A visit that is owed a reminder and has none yet.                       *)
Owed(v) ==
    /\ visit[v].status = "confirmed" /\ visit[v].confirmed <= visit[v].start - Notice
    /\ Key(v) \notin reminders /\ errors < Slack

(* The first minute all of whose runs can see the visit.                   *)
FirstMinute(v) ==
    LET opens == visit[v].start - Notice - Slack IN
    IF visit[v].confirmed + 1 >= opens THEN visit[v].confirmed + 1 ELSE opens

(* This minute's run of the process is still to come to the visit.         *)
OnCourse(p, v) ==
    \/ run[p].stage = "idle" /\ ~ polled[p]
    \/ run[p].stage = "holds"
    \/ run[p].stage = "reminders" /\ (Key(v) \in run[p].todo \/ run[p].row = Key(v))

(* Each minute that passed has cost the runs of every process an error.    *)
Counted(v) ==
    Owed(v) /\ FirstMinute(v) <= minute =>
        /\ minute <= visit[v].start - Notice + Slack
        /\ minute - FirstMinute(v) <= errors
        /\ \A p \in Processes : OnCourse(p, v) \/ minute + 1 - FirstMinute(v) <= errors

SentInv ==
    /\ IInv /\ polled \in [Processes -> BOOLEAN] /\ errors \in Nat
    /\ \A v \in Visits : Counted(v)

-----------------------------------------------------------------------------
LEMMA InitSent == MaintenanceInit => SentInv
<1> SUFFICES ASSUME MaintenanceInit  PROVE SentInv  OBVIOUS
<1>1. \A v \in Visits : visit[v].status = "requested"  BY DEF MaintenanceInit
<1>2. polled \in [Processes -> BOOLEAN] /\ errors \in Nat  BY DEF MaintenanceInit
<1> QED  BY <1>1, <1>2, InitInv DEF SentInv, Counted, Owed

LEMMA FirstMinuteFact ==
    ASSUME SentInv, NEW v \in Visits
    PROVE  /\ FirstMinute(v) \in Int /\ minute \in Int /\ visit[v].start \in Int
           /\ FirstMinute(v) > visit[v].confirmed
           /\ FirstMinute(v) >= visit[v].start - Notice - Slack
           /\ Owed(v) => FirstMinute(v) <= visit[v].start - Notice + 1
  BY MaintenanceAssumption DEF SentInv, IInv, TypeOK, VisitRow, FirstMinute, Owed

(* A step that changes the visit leaves it no whole minute.                *)
LEMMA ChangeSent ==
    ASSUME SentInv, NEW v \in Visits, ChangeVisit(v)
    PROVE  SentInv'
<1>1. PICK row \in VisitRow : /\ Change(v, row)
                              /\ row.status = "confirmed" => row.confirmed = minute
  <2>1. visit[v] \in VisitRow /\ minute \in Int /\ Starts \subseteq Int /\ Deadlines \subseteq Int
    BY MaintenanceAssumption DEF SentInv, IInv, TypeOK
  <2>2. CASE \E start \in Starts : ConfirmVisit(v, start)
    <3>1. PICK start \in Starts : ConfirmVisit(v, start)  BY <2>2
    <3>2. [status |-> "confirmed", start |-> start, due |-> 0, confirmed |-> minute] \in VisitRow
      BY <2>1 DEF VisitRow
    <3> QED  BY <3>1, <3>2 DEF ConfirmVisit
  <2>3. CASE \E start \in Starts, due \in Deadlines : HoldVisit(v, start, due)
    <3>1. PICK start \in Starts, due \in Deadlines : HoldVisit(v, start, due)  BY <2>3
    <3>2. [status |-> "held", start |-> start, due |-> due, confirmed |-> 0] \in VisitRow
      BY <2>1 DEF VisitRow
    <3> QED  BY <3>1, <3>2 DEF HoldVisit
  <2>4. CASE PayVisit(v)
    <3>1. [visit[v] EXCEPT !.status = "confirmed", !.confirmed = minute] \in VisitRow
      BY <2>1 DEF VisitRow
    <3>2. [visit[v] EXCEPT !.status = "confirmed", !.confirmed = minute].confirmed = minute
      BY <2>1 DEF VisitRow
    <3> QED  BY <2>4, <3>1, <3>2 DEF PayVisit
  <2>5. CASE EndVisit(v)
    <3>1. [visit[v] EXCEPT !.status = "over"] \in VisitRow  BY <2>1 DEF VisitRow
    <3>2. [visit[v] EXCEPT !.status = "over"].status = "over"  BY <2>1 DEF VisitRow
    <3> QED  BY <2>5, <3>1, <3>2 DEF EndVisit
  <2> QED  BY <2>2, <2>3, <2>4, <2>5 DEF ChangeVisit
<1>2. /\ visit' = [visit EXCEPT ![v] = row] /\ visit \in [Visits -> VisitRow]
      /\ UNCHANGED <<minute, reminders, run, polled, errors>>
  BY <1>1 DEF Change, jobs, SentInv, IInv, TypeOK
<1>3. IInv'  BY ChangeInv DEF SentInv
<1>4. ASSUME NEW u \in Visits  PROVE Counted(u)'
  <2>1. CASE u # v
    <3>1. visit'[u] = visit[u]  BY <1>2, <2>1
    <3>2. Counted(u)  BY DEF SentInv
    <3> QED  BY <1>2, <3>1, <3>2 DEF Counted, Owed, FirstMinute, OnCourse, Key
  <2>2. CASE u = v
    <3>1. visit'[u] = row /\ row.start \in Int /\ row.confirmed \in Int /\ minute \in Int
      BY <1>2, <2>2 DEF VisitRow, SentInv, IInv, TypeOK
    <3>2. row.status = "confirmed" => ~(FirstMinute(u)' <= minute)
      BY <1>1, <3>1, MaintenanceAssumption DEF FirstMinute
    <3> QED  BY <1>2, <3>1, <3>2 DEF Counted, Owed
  <2> QED  BY <2>1, <2>2
<1> QED  BY <1>2, <1>3, <1>4 DEF SentInv

(* A step of one process's run: it stays on course to a visit that is owed *)
(* a reminder, or it costs an error.                                       *)
LEMMA RunSent ==
    ASSUME SentInv, IInv', NEW p \in Processes, minute' = minute,
           polled' \in [Processes -> BOOLEAN], errors' \in Nat, reminders \subseteq reminders',
           \A q \in Processes \ {p} : run'[q] = run[q] /\ polled'[q] = polled[q],
           \A v \in Visits : visit'[v] = visit[v] \/ visit'[v].status # "confirmed",
           errors' = errors \/ errors' = errors + 1 \/ errors' >= Slack,
           \A v \in Visits :
               /\ Owed(v) /\ Key(v) \notin reminders' /\ visit'[v] = visit[v]
               /\ FirstMinute(v) <= minute /\ minute <= visit[v].start - Notice + Slack
               /\ OnCourse(p, v) /\ errors' = errors
               => OnCourse(p, v)'
    PROVE  SentInv'
<1> SUFFICES ASSUME NEW v \in Visits  PROVE Counted(v)'  BY DEF SentInv
<1> SUFFICES ASSUME Owed(v)', (FirstMinute(v) <= minute)'
             PROVE  /\ minute <= (visit[v].start - Notice + Slack)'
                    /\ minute - FirstMinute(v)' <= errors'
                    /\ \A q \in Processes : OnCourse(q, v)' \/ minute + 1 - FirstMinute(v)' <= errors'
  BY DEF Counted
<1>1. visit'[v] = visit[v]  BY DEF Owed
<1>2. /\ FirstMinute(v)' = FirstMinute(v) /\ Key(v)' = Key(v)
      /\ (visit[v].start - Notice + Slack)' = visit[v].start - Notice + Slack
  BY <1>1 DEF FirstMinute, Key
<1>3. errors \in Nat /\ Slack \in Nat /\ errors' < Slack /\ (errors' = errors \/ errors' = errors + 1)
  BY MaintenanceAssumption DEF SentInv, Owed
<1>4. Owed(v) /\ Key(v) \notin reminders'  BY <1>1, <1>2, <1>3 DEF Owed
<1>5. /\ FirstMinute(v) <= minute /\ minute <= visit[v].start - Notice + Slack
      /\ minute - FirstMinute(v) <= errors
      /\ \A q \in Processes : OnCourse(q, v) \/ minute + 1 - FirstMinute(v) <= errors
  BY <1>2, <1>4 DEF SentInv, Counted
<1>6. FirstMinute(v) \in Int /\ minute \in Int  BY FirstMinuteFact
<1>7. ASSUME NEW q \in Processes
      PROVE  OnCourse(q, v)' \/ minute + 1 - FirstMinute(v) <= errors'
  <2>1. CASE errors' = errors + 1  BY <1>3, <1>5, <1>6, <2>1
  <2>2. CASE errors' = errors /\ q = p  BY <1>1, <1>4, <1>5, <2>2
  <2>3. CASE errors' = errors /\ q # p
    <3>1. OnCourse(q, v) => OnCourse(q, v)'  BY <1>2, <2>3 DEF OnCourse
    <3> QED  BY <1>5, <2>3, <3>1
  <2> QED  BY <1>3, <2>1, <2>2, <2>3
<1>8. minute - FirstMinute(v) <= errors'  BY <1>3, <1>5, <1>6
<1> QED  BY <1>2, <1>5, <1>7, <1>8

LEMMA RunStepSent ==
    ASSUME SentInv, NEW p \in Processes, RunStep(p)
    PROVE  SentInv'
<1>1. /\ IInv' /\ run \in [Processes -> Run] /\ run[p] \in Run
      /\ polled \in [Processes -> BOOLEAN] /\ errors \in Nat /\ Slack \in Nat
  BY RunInv, MaintenanceAssumption DEF SentInv, IInv, TypeOK
<1>2. ASSUME NEW v \in Visits  PROVE Key(v) # Nothing
  <2>1. visit[v].start \in Int  BY DEF SentInv, IInv, TypeOK, VisitRow
  <2>2. Key(v) \in Visits \X Int  BY <2>1 DEF Key
  <2> QED  BY <2>2, MaintenanceAssumption
<1>3. CASE Poll(p)
  <2>1. /\ polled' = [polled EXCEPT ![p] = TRUE] /\ run'[p].stage = "holds"
        /\ \A q \in Processes \ {p} : run'[q] = run[q]
        /\ UNCHANGED <<minute, visit, reminders, errors>>
    BY <1>1, <1>3 DEF Poll, Run
  <2> QED  BY <1>1, <2>1, RunSent DEF OnCourse
<1>4. CASE CrashRun(p) \/ \E hold \in run[p].holds : ConflictEndsRun(p, hold)
  <2>1. /\ run' = [run EXCEPT ![p] = IdleRun] /\ UNCHANGED <<minute, visit, reminders>>
        /\ errors' = IF errors < Slack THEN errors + 1 ELSE errors
        /\ polled' = polled \/ polled' = [polled EXCEPT ![p] = FALSE]
    BY <1>4 DEF CrashRun, ConflictEndsRun, CountError
  <2>2. /\ \A q \in Processes \ {p} : run'[q] = run[q] /\ polled'[q] = polled[q]
        /\ polled' \in [Processes -> BOOLEAN]
    BY <1>1, <2>1
  <2>3. errors' \in Nat /\ (errors' = errors + 1 \/ errors' >= Slack)  BY <1>1, <2>1
  <2>4. errors' = errors => errors >= Slack  BY <1>1, <2>1
  <2>5. \A v \in Visits : ~ (Owed(v) /\ errors' = errors)  BY <1>1, <2>4 DEF Owed
  <2>6. minute' = minute /\ reminders \subseteq reminders' /\ \A v \in Visits : visit'[v] = visit[v]
    BY <2>1
  <2> QED  BY <1>1, <2>2, <2>3, <2>5, <2>6, RunSent
<1>5. CASE ListReminders(p)
  <2> DEFINE todo == {Key(v) : v \in {v \in Visits : Eligible(v)}} \ reminders
  <2>1. /\ run'[p].stage = "reminders" /\ run'[p].todo = todo
        /\ \A q \in Processes \ {p} : run'[q] = run[q]
        /\ UNCHANGED <<minute, visit, reminders, errors, polled>>
    BY <1>1, <1>5 DEF ListReminders, Run
  <2>2. ASSUME NEW v \in Visits, Owed(v), FirstMinute(v) <= minute,
               minute <= visit[v].start - Notice + Slack
        PROVE  OnCourse(p, v)'
    <3>1. InWindow(visit[v].start)
      BY <2>2, FirstMinuteFact, MaintenanceAssumption DEF InWindow
    <3>2. Key(v) \in todo  BY <2>2, <3>1 DEF Owed, Eligible
    <3>3. Key(v)' = Key(v)  BY <2>1 DEF Key
    <3> QED  BY <2>1, <3>2, <3>3 DEF OnCourse
  <2> HIDE DEF todo
  <2> QED  BY <1>1, <2>1, <2>2, RunSent
<1>6. ASSUME NEW hold \in run[p].holds, ExpireHold(p, hold)  PROVE SentInv'
  <2>1. /\ run'[p].stage = "holds"
        /\ \A q \in Processes \ {p} : run'[q] = run[q]
        /\ UNCHANGED <<minute, reminders, errors, polled>>
        /\ visit' = visit \/ visit' = [visit EXCEPT ![hold[1]].status = "over"]
    BY <1>1, <1>6 DEF ExpireHold, Run
  <2>2. \A v \in Visits : visit'[v] = visit[v] \/ visit'[v].status # "confirmed"
    BY <2>1 DEF SentInv, IInv, TypeOK, VisitRow
  <2> QED  BY <1>1, <2>1, <2>2, RunSent DEF OnCourse
<1>7. ASSUME NEW key \in run[p].todo, LockVisit(p, key)  PROVE SentInv'
  <2> DEFINE row == IF Eligible(key[1]) /\ Key(key[1]) = key /\ key \notin reminders
                    THEN key ELSE Nothing
  <2>1. /\ run[p].stage = "reminders" /\ run[p].row = Nothing
        /\ run'[p].stage = "reminders" /\ run'[p].todo = run[p].todo \ {key} /\ run'[p].row = row
        /\ \A q \in Processes \ {p} : run'[q] = run[q]
        /\ UNCHANGED <<minute, visit, reminders, errors, polled>>
    BY <1>1, <1>7 DEF LockVisit, Run
  <2>2. ASSUME NEW v \in Visits, Owed(v), FirstMinute(v) <= minute,
               minute <= visit[v].start - Notice + Slack, OnCourse(p, v)
        PROVE  OnCourse(p, v)'
    <3>1. Key(v) \in run[p].todo /\ Key(v)' = Key(v)
      BY <1>2, <2>1, <2>2 DEF OnCourse, Key
    <3>2. CASE key # Key(v)  BY <2>1, <3>1, <3>2 DEF OnCourse
    <3>3. CASE key = Key(v)
      <4>1. InWindow(visit[v].start)
        BY <2>2, FirstMinuteFact, MaintenanceAssumption DEF InWindow
      <4>2. key[1] = v  BY <3>3 DEF Key
      <4>3. row = key  BY <2>2, <3>3, <4>1, <4>2 DEF Owed, Eligible
      <4> QED  BY <2>1, <3>1, <3>3, <4>3 DEF OnCourse
    <3> QED  BY <3>2, <3>3
  <2> HIDE DEF row
  <2> QED  BY <1>1, <2>1, <2>2, RunSent
<1>8. CASE EnqueueReminder(p)
  <2>1. /\ run'[p].stage = run[p].stage /\ run'[p].todo = run[p].todo
        /\ \A q \in Processes \ {p} : run'[q] = run[q]
        /\ reminders' = reminders \cup {run[p].row}
        /\ UNCHANGED <<minute, visit, errors, polled>>
    BY <1>1, <1>8 DEF EnqueueReminder, Run
  <2>2. ASSUME NEW v \in Visits, Key(v) \notin reminders', OnCourse(p, v)
        PROVE  OnCourse(p, v)'
    <3>1. Key(v)' = Key(v) /\ run[p].row # Key(v)  BY <2>1, <2>2 DEF Key
    <3> QED  BY <2>1, <2>2, <3>1 DEF OnCourse
  <2> QED  BY <1>1, <2>1, <2>2, RunSent
<1>9. CASE EndRun(p)
  <2>1. /\ run[p].stage = "reminders" /\ run[p].todo = {} /\ run[p].row = Nothing
        /\ \A q \in Processes \ {p} : run'[q] = run[q]
        /\ UNCHANGED <<minute, visit, reminders, errors, polled>>
    BY <1>1, <1>9 DEF EndRun
  <2>2. \A v \in Visits : ~ OnCourse(p, v)  BY <1>2, <2>1 DEF OnCourse
  <2> QED  BY <1>1, <2>1, <2>2, RunSent
<1> QED  BY <1>3, <1>4, <1>5, <1>6, <1>7, <1>8, <1>9 DEF RunStep

LEMMA NextMinuteSent ==
    ASSUME SentInv, NextMinute
    PROVE  SentInv'
<1>1. /\ \A p \in Processes : run[p].stage = "idle" /\ polled[p]
      /\ minute' = minute + 1 /\ polled' = [p \in Processes |-> FALSE]
      /\ UNCHANGED <<visit, reminders, run, errors>>
  BY DEF NextMinute
<1>2. IInv' /\ polled' \in [Processes -> BOOLEAN] /\ errors' \in Nat
  BY <1>1, NextInv DEF SentInv, MaintenanceNext
<1>3. ASSUME NEW v \in Visits  PROVE Counted(v)'
  <2>1. /\ Owed(v)' = Owed(v) /\ FirstMinute(v)' = FirstMinute(v)
        /\ (visit[v].start - Notice + Slack)' = visit[v].start - Notice + Slack
    BY <1>1 DEF Owed, FirstMinute, Key
  <2> SUFFICES ASSUME Owed(v)', (FirstMinute(v) <= minute)'
               PROVE  /\ (minute <= visit[v].start - Notice + Slack)'
                      /\ minute' - FirstMinute(v)' <= errors'
                      /\ \A p \in Processes : OnCourse(p, v)'
    BY DEF Counted
  <2>2. Owed(v) /\ FirstMinute(v) <= minute + 1  BY <1>1, <2>1
  <2>3. /\ FirstMinute(v) \in Int /\ minute \in Int /\ visit[v].start \in Int
        /\ FirstMinute(v) <= visit[v].start - Notice + 1
        /\ errors \in Nat /\ errors < Slack /\ Slack \in Nat /\ Notice \in Nat
    BY <2>2, FirstMinuteFact, MaintenanceAssumption DEF SentInv, Owed
  <2>4. minute + 1 - FirstMinute(v) <= errors
    <3>1. CASE FirstMinute(v) = minute + 1  BY <2>3, <3>1
    <3>2. CASE FirstMinute(v) <= minute
      <4>1. PICK p \in Processes : TRUE  BY MaintenanceAssumption
      <4>2. ~ OnCourse(p, v)  BY <1>1 DEF OnCourse
      <4>3. \A q \in Processes : OnCourse(q, v) \/ minute + 1 - FirstMinute(v) <= errors
        BY <2>2, <3>2 DEF SentInv, Counted
      <4> QED  BY <4>2, <4>3
    <3> QED  BY <2>3, <2>2, <3>1, <3>2
  <2>5. minute + 1 <= visit[v].start - Notice + Slack  BY <2>3, <2>4
  <2>6. \A p \in Processes : OnCourse(p, v)'  BY <1>1 DEF OnCourse
  <2>7. (minute <= visit[v].start - Notice + Slack)'  BY <1>1, <2>1, <2>5
  <2>8. minute' - FirstMinute(v)' <= errors'  BY <1>1, <2>1, <2>3, <2>4
  <2> QED  BY <2>6, <2>7, <2>8
<1> QED  BY <1>2, <1>3 DEF SentInv

LEMMA NextSent ==
    ASSUME SentInv, [MaintenanceNext]_maintenanceVars
    PROVE  SentInv'
<1>1. CASE UNCHANGED maintenanceVars
  <2>1. IInv'  BY <1>1, NextInv DEF SentInv
  <2> QED  BY <1>1, <2>1
      DEF maintenanceVars, SentInv, Counted, Owed, FirstMinute, OnCourse, Key
<1>2. CASE NextMinute  BY <1>2, NextMinuteSent
<1> QED  BY <1>1, <1>2, ChangeSent, RunStepSent DEF MaintenanceNext

(* A visit that was confirmed a day ahead and keeps its time has its       *)
(* reminder when its window is over, unless as many runs failed as the     *)
(* window has minutes after the day ahead began.                           *)
THEOREM RemindersAreSent == MaintenanceSpec => []RemindersSent
<1>1. SentInv => RemindersSent
  <2> SUFFICES ASSUME SentInv, NEW v \in Visits, Owed(v),
                      minute > visit[v].start - Notice + Slack
               PROVE  FALSE
    BY DEF RemindersSent, Owed
  <2>1. /\ FirstMinute(v) \in Int /\ minute \in Int /\ visit[v].start \in Int
        /\ FirstMinute(v) <= visit[v].start - Notice + 1
        /\ errors \in Nat /\ errors < Slack /\ Slack \in Nat /\ Notice \in Nat
    BY FirstMinuteFact, MaintenanceAssumption DEF SentInv, Owed
  <2>2. FirstMinute(v) <= minute  BY <2>1
  <2> QED  BY <2>1, <2>2 DEF SentInv, Counted
<1> QED  BY <1>1, InitSent, NextSent, PTL DEF MaintenanceSpec

-----------------------------------------------------------------------------
(* The e-mails of requests, decisions and answers.                         *)

OrdinaryStatuses ==
    {"absent", "pending_review", "waitlisted", "confirmed", "rejected", "cancelled",
     "reschedule_requested", "cancellation_requested", "no_show", "completed"}
PartyStatuses ==
    {"absent", "pending_review", "rejected", "cancelled", "time_proposed",
     "awaiting_in_store_payment", "confirmed_paid", "payment_expired",
     "reschedule_requested", "cancellation_requested", "no_show", "completed"}
OrderStatuses == {"absent", "new", "contacted", "confirmed", "cancelled"}

Statuses == OrdinaryStatuses \cup PartyStatuses \cup OrderStatuses \cup {"none"}
Templates ==
    Receipts \cup {"booking_confirmed", "booking_rejected", "booking_waitlisted",
        "party_time_proposed", "party_payment_due", "party_payment_recorded",
        "party_payment_expired", "party_rejected", "party_cancelled", "cancellation_request",
        "reschedule_request", "booking_status", "booking_reminder", "staff_notification"}
Fields == {"manageUrl", "paymentDeadline", "amountCents", "customerContact"}

BookingRow == [status : Statuses, wanted : Int, final : Int \cup {None}, due : Int]
Texts == {"given", "address", "contact"}
Mail == [template : Templates, status : Statuses, event : Nat, has : SUBSET Fields,
         unfit : SUBSET Texts, when : Int, ends : Int]
Read == [status : Statuses, wanted : Int]

MailTypeOK ==
    /\ day \in Int
    /\ booking \in [Customers -> BookingRow]
    /\ history \in [Customers -> Seq(Statuses)]
    /\ reads \in [Experiences -> SUBSET Read]
    /\ told \in [Customers -> SUBSET Mail]
    /\ misfit \in SUBSET Texts

(* A request only has the statuses of its kind.                            *)
OwnStatus(r, row) ==
    /\ r \in Experiences => row.status \in OrdinaryStatuses
    /\ r \in Festivities => row.status \in PartyStatuses
    /\ r \in CartOrders => row.status \in OrderStatuses

(* A party whose time was proposed has one, no further ahead than bookings *)
(* reach.                                                                  *)
Fixed == {"time_proposed", "awaiting_in_store_payment", "confirmed_paid"}
FinalSet(r, row) ==
    r \in Festivities /\ row.status \in Fixed => row.final \in Int /\ row.final <= day + HORIZON

(* The day of the visit that a row is about.                               *)
VisitOf(r, row) == IF r \in Festivities THEN row.final ELSE row.wanted

(* Among these e-mails of a certain visit is a link that outlasts it.      *)
LinkHeld(r, row, mails) ==
    r \in Experiences \cup Festivities /\ row.status \in Booked =>
        \E m \in mails : m.ends > VisitOf(r, row) /\ m.template # "party_time_proposed"

(* An ordinary booking's day is no further ahead than bookings reach, and  *)
(* until one is confirmed, whatever was read of it is the day it has.      *)
WasConfirmed(log) == \E e \in DOMAIN log : log[e] = "confirmed"
ReadsAgree(r, row, log) ==
    r \in Experiences =>
        /\ row.wanted <= day + HORIZON
        /\ row.status = "absent" => reads[r] = {}
        /\ \A read \in reads[r] :
            /\ read.wanted <= day + HORIZON
            /\ WasConfirmed(log) \/ read.wanted = row.wanted

(* The e-mails whose texts may be blank or too long.                       *)
MayMisfit(m) ==
    \/ m.template \in Receipts \cup {"booking_status"}
    \/ /\ m.template \in {"booking_confirmed", "booking_rejected", "booking_waitlisted",
                          "staff_notification"}
       /\ m.unfit = {"given"}

MailInv ==
    /\ MailTypeOK /\ \A m \in refused : m.unfit # {} /\ MayMisfit(m)
    /\ \A r \in Customers :
        /\ OwnStatus(r, booking[r]) /\ FinalSet(r, booking[r])
        /\ LinkHeld(r, booking[r], told[r]) /\ ReadsAgree(r, booking[r], history[r])

(* What an e-mail that is written with a row claims is so.                 *)
ClaimTrue(r, row, m) ==
    renderOutboxMessage(m) =>
        row.status \in Booked /\ (m.when = VisitOf(r, row) \/ ConfirmedAgain(r, m))

TellsTruth ==
    \A r \in Customers : \A m \in told'[r] \ told[r] : renderOutboxMessage(m) =>
        /\ booking'[r].status \in Booked
        /\ \/ m.when = IF r \in Festivities THEN booking'[r].final ELSE booking'[r].wanted
           \/ ConfirmedAgain(r, m)

(* Nothing but its texts can be wrong with an e-mail.                      *)
Accepted(m, log) ==
    /\ m.unfit = {} => validateEmailOutboxEnvelope(m) /\ assertStatusEventIntegrity(m, log)
    /\ m.unfit # {} => MayMisfit(m)

-----------------------------------------------------------------------------
LEMMA MailInitInv == NotificationsInit => MailInv
<1> SUFFICES ASSUME NotificationsInit  PROVE MailInv  OBVIOUS
<1> DEFINE row == [status |-> "absent", wanted |-> 0, final |-> None, due |-> 0]
<1>1. row \in BookingRow  BY DEF BookingRow, Statuses, OrderStatuses
<1>2. /\ day = 0 /\ booking = [r \in Customers |-> row] /\ history = [r \in Customers |-> << >>]
      /\ told = [r \in Customers |-> {}] /\ reads = [r \in Experiences |-> {}]
      /\ misfit = {} /\ refused = {}
  BY DEF NotificationsInit
<1>3. << >> \in Seq(Statuses) /\ {} \in SUBSET Mail  OBVIOUS
<1>4. MailTypeOK  BY <1>1, <1>2, <1>3 DEF MailTypeOK
<1>5. ASSUME NEW r \in Customers
      PROVE  /\ OwnStatus(r, booking[r]) /\ FinalSet(r, booking[r])
             /\ LinkHeld(r, booking[r], told[r]) /\ ReadsAgree(r, booking[r], history[r])
  <2>1. booking[r].status = "absent" /\ booking[r].wanted = 0  BY <1>2
  <2>2. ReadsAgree(r, booking[r], history[r])
    BY <1>2, <2>1, NotificationsAssumption DEF ReadsAgree
  <2> QED  BY <2>1, <2>2 DEF OwnStatus, OrdinaryStatuses, PartyStatuses, OrderStatuses, FinalSet,
                       Fixed, LinkHeld, Booked
<1> QED  BY <1>2, <1>4, <1>5 DEF MailInv

(* A transaction keeps the invariant when its row and its e-mails do.      *)
LEMMA WriteKeeps ==
    ASSUME MailInv, NEW r \in Customers, NEW row \in BookingRow, NEW log \in Seq(Statuses),
           NEW mails \in SUBSET Mail, Write(r, row, log, mails),
           \A m \in mails : Accepted(m, log) /\ ClaimTrue(r, row, m),
           OwnStatus(r, row), FinalSet(r, row), LinkHeld(r, row, told[r] \cup mails),
           ReadsAgree(r, row, log)
    PROVE  MailInv' /\ TellsTruth
<1> DEFINE bad == {m \in mails :
                   ~ (validateEmailOutboxEnvelope(m) /\ assertStatusEventIntegrity(m, log))}
<1>1. /\ refused' = {[template |-> m.template, unfit |-> m.unfit] : m \in bad}
      /\ day' = day /\ reads' = reads /\ misfit' = misfit
  BY DEF Write
<1>2. /\ MailTypeOK
      /\ \A c \in Customers : /\ OwnStatus(c, booking[c]) /\ FinalSet(c, booking[c])
                              /\ LinkHeld(c, booking[c], told[c])
                              /\ ReadsAgree(c, booking[c], history[c])
  BY DEF MailInv
<1>3. \A m \in refused' : m.unfit # {} /\ MayMisfit(m)
  <2> SUFFICES ASSUME NEW m \in bad
               PROVE  LET n == [template |-> m.template, unfit |-> m.unfit] IN
                      n.unfit # {} /\ MayMisfit(n)
    BY <1>1
  <2>1. m.unfit # {} /\ MayMisfit(m)  BY DEF Accepted
  <2> QED  BY <2>1 DEF MayMisfit
<1>4. CASE bad = {}
  <2>1. /\ booking' = [booking EXCEPT ![r] = row] /\ history' = [history EXCEPT ![r] = log]
        /\ told' = [told EXCEPT ![r] = @ \cup mails]
    BY <1>4 DEF Write
  <2>2. MailTypeOK'
    <3>1. told[r] \cup mails \in SUBSET Mail  BY <1>2 DEF MailTypeOK
    <3> QED  BY <1>1, <1>2, <2>1, <3>1 DEF MailTypeOK
  <2>3. ASSUME NEW c \in Customers
        PROVE  /\ booking'[c] = (IF c = r THEN row ELSE booking[c])
               /\ history'[c] = (IF c = r THEN log ELSE history[c])
               /\ told'[c] = (IF c = r THEN told[r] \cup mails ELSE told[c])
    BY <1>2, <2>1 DEF MailTypeOK
  <2>4. ASSUME NEW c \in Customers
        PROVE  /\ OwnStatus(c, booking'[c]) /\ FinalSet(c, booking'[c])
               /\ LinkHeld(c, booking'[c], told'[c]) /\ ReadsAgree(c, booking'[c], history'[c])
    <3>1. CASE c = r  BY <2>3, <3>1
    <3>2. CASE c # r  BY <1>2, <2>3, <3>2
    <3> QED  BY <3>1, <3>2
  <2>5. \A c \in Customers : FinalSet(c, booking'[c]) => FinalSet(c, booking[c])'
    BY <1>1 DEF FinalSet
  <2>6. \A c \in Customers : OwnStatus(c, booking'[c]) => OwnStatus(c, booking[c])'
    BY DEF OwnStatus
  <2>7. \A c \in Customers : LinkHeld(c, booking'[c], told'[c]) => LinkHeld(c, booking[c], told[c])'
    BY DEF LinkHeld, VisitOf
  <2>8. \A c \in Customers :
            ReadsAgree(c, booking'[c], history'[c]) => ReadsAgree(c, booking[c], history[c])'
    BY <1>1 DEF ReadsAgree, WasConfirmed
  <2>9. MailInv'  BY <1>3, <2>2, <2>4, <2>5, <2>6, <2>7, <2>8 DEF MailInv
  <2>10. TellsTruth
    <3> SUFFICES ASSUME NEW c \in Customers, NEW m \in told'[c] \ told[c], renderOutboxMessage(m)
                 PROVE  /\ booking'[c].status \in Booked
                        /\ \/ m.when = IF c \in Festivities THEN booking'[c].final
                                       ELSE booking'[c].wanted
                           \/ ConfirmedAgain(c, m)
      BY DEF TellsTruth
    <3>1. c = r /\ m \in mails /\ booking'[c] = row  BY <2>3
    <3>2. ClaimTrue(r, row, m)  BY <3>1
    <3> QED  BY <3>1, <3>2 DEF ClaimTrue, VisitOf
  <2> QED  BY <2>9, <2>10
<1>5. CASE bad # {}
  <2>1. UNCHANGED <<booking, history, told>>  BY <1>5 DEF Write
  <2>2. MailTypeOK'  BY <1>1, <1>2, <2>1 DEF MailTypeOK
  <2>3. ASSUME NEW c \in Customers
        PROVE  (/\ OwnStatus(c, booking[c]) /\ FinalSet(c, booking[c])
                /\ LinkHeld(c, booking[c], told[c]) /\ ReadsAgree(c, booking[c], history[c]))'
    BY <1>1, <1>2, <2>1 DEF OwnStatus, FinalSet, LinkHeld, VisitOf, ReadsAgree, WasConfirmed
  <2> QED  BY <1>3, <2>1, <2>2, <2>3 DEF MailInv, TellsTruth
<1> QED  BY <1>4, <1>5

-----------------------------------------------------------------------------
(* What the outbox accepts of each kind of e-mail.                         *)
LEMMA LifecycleAccepted ==
    ASSUME NEW m \in Mail, NEW log \in Seq(Statuses),
           m.template \in DOMAIN LIFECYCLE_TEMPLATE_STATUS,
           m.event # 0, m.event \in DOMAIN log,
           log[m.event] = LIFECYCLE_TEMPLATE_STATUS[m.template],
           "manageUrl" \in m.has <=> m.template \notin {"party_rejected", "party_cancelled"},
           m.template \in {"party_time_proposed", "party_payment_due"}
                => "paymentDeadline" \in m.has,
           m.template \in {"party_payment_due", "party_payment_recorded", "party_payment_expired"}
                => "amountCents" \in m.has,
           m.unfit = {}
    PROVE  Accepted(m, log)
<1>1. m.when # None  BY NotificationsAssumption DEF Mail
<1>2. m.template \in DOMAIN LIFECYCLE_TEMPLATE_STATUS
        => /\ m.template \notin Receipts \cup {"booking_status", "staff_notification"}
  BY DEF LIFECYCLE_TEMPLATE_STATUS, Receipts
<1>3. bookingNotification(m)  BY <1>1, <1>2 DEF bookingNotification
<1>4. validatePayloadForMessage(m)  BY <1>2, <1>3 DEF validatePayloadForMessage, stringValue
<1>5. validateEmailOutboxEnvelope(m)  BY <1>2, <1>4 DEF validateEmailOutboxEnvelope
<1>6. assertStatusEventIntegrity(m, log)  BY <1>2 DEF assertStatusEventIntegrity
<1> QED  BY <1>5, <1>6 DEF Accepted

LEMMA StatusAccepted ==
    ASSUME NEW m \in Mail, NEW log \in Seq(Statuses), m.template = "booking_status",
           m.status \in BookingStatusTemplate,
           m.event # 0, m.event \in DOMAIN log, log[m.event] = m.status, m.unfit = {}
    PROVE  Accepted(m, log)
<1>1. m.template \notin Receipts \cup DOMAIN LIFECYCLE_TEMPLATE_STATUS
  BY DEF LIFECYCLE_TEMPLATE_STATUS, Receipts
<1>2. validatePayloadForMessage(m)  BY <1>1 DEF validatePayloadForMessage, stringValue
<1>3. validateEmailOutboxEnvelope(m)  BY <1>1, <1>2 DEF validateEmailOutboxEnvelope
<1>4. assertStatusEventIntegrity(m, log)  BY <1>1 DEF assertStatusEventIntegrity
<1> QED  BY <1>3, <1>4 DEF Accepted

LEMMA ReceiptAccepted ==
    ASSUME NEW m \in Mail, NEW log \in Seq(Statuses), m.template \in Receipts, m.event = 0,
           m.unfit = {}
    PROVE  Accepted(m, log) /\ ~ renderOutboxMessage(m)
<1>1. m.template \notin DOMAIN LIFECYCLE_TEMPLATE_STATUS \cup {"booking_status"}
  BY DEF LIFECYCLE_TEMPLATE_STATUS, Receipts
<1>2. validateEmailOutboxEnvelope(m)
  BY <1>1 DEF validateEmailOutboxEnvelope, validatePayloadForMessage, stringValue
<1>3. ~ renderOutboxMessage(m)
  BY <1>1 DEF renderOutboxMessage, renderBookingNotification, Receipts
<1> QED  BY <1>2, <1>3 DEF Accepted, assertStatusEventIntegrity

LEMMA NoticeAccepted ==
    ASSUME NEW m \in Mail, NEW log \in Seq(Statuses),
           m.template \in {"staff_notification", "booking_reminder"}, "manageUrl" \in m.has,
           m.template = "staff_notification" => "customerContact" \in m.has,
           m.event # 0 => m.event \in DOMAIN log, m.unfit = {}
    PROVE  Accepted(m, log)
<1>1. m.when # None  BY NotificationsAssumption DEF Mail
<1>2. m.template \notin DOMAIN LIFECYCLE_TEMPLATE_STATUS \cup Receipts \cup {"booking_status"}
  BY DEF LIFECYCLE_TEMPLATE_STATUS, Receipts
<1>3. bookingNotification(m)  BY <1>1 DEF bookingNotification
<1>4. validateEmailOutboxEnvelope(m)
  BY <1>2, <1>3 DEF validateEmailOutboxEnvelope, validatePayloadForMessage, stringValue
<1> QED  BY <1>2, <1>4 DEF Accepted, assertStatusEventIntegrity

(* An e-mail that is accepted stays one that only its texts can take down. *)
LEMMA TextsAccepted ==
    ASSUME NEW m \in Mail, NEW log, Accepted(m, log), m.unfit = {}, NEW unfit \in SUBSET Texts,
           unfit # {} => \/ m.template \in Receipts \cup {"booking_status"}
                         \/ /\ m.template \in {"booking_confirmed", "booking_rejected",
                                               "booking_waitlisted"}
                            /\ unfit = {"given"}
    PROVE  LET q == [m EXCEPT !.unfit = unfit] IN
           /\ q \in Mail /\ Accepted(q, log)
           /\ q.template = m.template /\ q.status = m.status /\ q.when = m.when /\ q.ends = m.ends
           /\ renderOutboxMessage(q) <=> renderOutboxMessage(m)
<1> DEFINE q == [m EXCEPT !.unfit = unfit]
<1>1. /\ q \in Mail /\ q.unfit = unfit
      /\ q.template = m.template /\ q.status = m.status /\ q.when = m.when /\ q.ends = m.ends
  BY DEF Mail
<1>2. unfit = {} => q = m  BY DEF Mail
<1> HIDE DEF q
<1>3. Accepted(q, log)
  <2>1. CASE unfit = {}  BY <1>2, <2>1
  <2>2. CASE unfit # {}  BY <1>1, <2>2 DEF Accepted, MayMisfit
  <2> QED  BY <2>1, <2>2
<1>4. renderOutboxMessage(q) <=> renderOutboxMessage(m)
  BY <1>1 DEF renderOutboxMessage, renderBookingNotification, renderBookingStatusEmail
<1> QED  BY <1>1, <1>3, <1>4 DEF q

LEMMA LinkedFields ==
    ASSUME NEW template, NEW event, NEW has, NEW when, NEW ends
    PROVE  LinkedUntil(template, event, has, when, ends)
             = [template |-> template, status |-> "none", event |-> event,
                has |-> has \cup {"manageUrl"}, unfit |-> {}, when |-> when, ends |-> ends]
<1> DEFINE new == has \cup {"manageUrl"}
           plain == [template |-> template, status |-> "none", event |-> event, has |-> {},
                     unfit |-> {}, when |-> when, ends |-> 0]
           managed == [template |-> template, status |-> "none", event |-> event, has |-> new,
                       unfit |-> {}, when |-> when, ends |-> 0]
<1>1. LinkedUntil(template, event, has, when, ends) = [plain EXCEPT !.has = new, !.ends = ends]
  BY DEF LinkedUntil, Plain
<1> HIDE DEF new
<1>2. [plain EXCEPT !.has = new] = managed  OBVIOUS
<1>3. [managed EXCEPT !.ends = ends]
        = [template |-> template, status |-> "none", event |-> event, has |-> new,
           unfit |-> {}, when |-> when, ends |-> ends]
  OBVIOUS
<1>4. [plain EXCEPT !.has = new, !.ends = ends] = [[plain EXCEPT !.has = new] EXCEPT !.ends = ends]
  OBVIOUS
<1> HIDE DEF managed, plain
<1> QED  BY <1>1, <1>2, <1>3, <1>4 DEF new

(* The e-mails that the services make.                                     *)
LEMMA PlainShape ==
    ASSUME NEW template \in Templates, NEW status \in Statuses, NEW event \in Nat, NEW when \in Int
    PROVE  LET m == Plain(template, status, event, when) IN
           /\ m \in Mail /\ m.template = template /\ m.status = status
           /\ m.event = event /\ m.when = when /\ m.unfit = {}
  BY DEF Plain, Mail

LEMMA UntilShape ==
    ASSUME NEW template \in Templates, NEW event \in Nat,
           NEW has \in SUBSET Fields, NEW when \in Int, NEW ends \in Int
    PROVE  LET m == LinkedUntil(template, event, has, when, ends) IN
           /\ m \in Mail /\ m.template = template /\ m.event = event /\ m.when = when
           /\ m.has = has \cup {"manageUrl"} /\ m.ends = ends /\ m.unfit = {}
<1>1. LinkedUntil(template, event, has, when, ends)
        = [template |-> template, status |-> "none", event |-> event,
           has |-> has \cup {"manageUrl"}, unfit |-> {}, when |-> when, ends |-> ends]
  BY LinkedFields
<1>2. has \cup {"manageUrl"} \in SUBSET Fields /\ "none" \in Statuses  BY DEF Fields, Statuses
<1>3. LinkedUntil(template, event, has, when, ends) \in Mail  BY <1>1, <1>2 DEF Mail
<1> QED  BY <1>1, <1>3

LEMMA LinkedShape ==
    ASSUME MailTypeOK, NEW template \in Templates, NEW event \in Nat,
           NEW has \in SUBSET Fields, NEW when \in Int
    PROVE  LET m == Linked(template, event, has, when) IN
           /\ m \in Mail /\ m.template = template /\ m.event = event /\ m.when = when
           /\ m.has = has \cup {"manageUrl"} /\ m.ends = day + LIFETIME
           /\ m.unfit = {}
<1> DEFINE last == day + LIFETIME
<1>1. last \in Int  BY NotificationsAssumption DEF MailTypeOK
<1> HIDE DEF last
<1>2. LET m == LinkedUntil(template, event, has, when, last) IN
      /\ m \in Mail /\ m.template = template /\ m.event = event /\ m.when = when
      /\ m.has = has \cup {"manageUrl"} /\ m.ends = last
      /\ m.unfit = {}
  BY <1>1, UntilShape
<1>3. Linked(template, event, has, when) = LinkedUntil(template, event, has, when, last)
  BY DEF Linked, LinkEnds, last
<1> QED  BY <1>2, <1>3 DEF last

LEMMA NoticeShape ==
    ASSUME NEW event \in Nat, NEW when \in Int
    PROVE  LET m == StaffNotice(event, when) IN
           /\ m \in Mail /\ m.template = "staff_notification" /\ m.event = event
           /\ {"customerContact", "manageUrl"} \subseteq m.has /\ m.unfit = {}
<1> DEFINE contact == {"customerContact"}
           template == "staff_notification"
           never == 0
<1>1. contact \in SUBSET Fields /\ template \in Templates /\ never \in Int
      /\ {"customerContact", "manageUrl"} \subseteq contact \cup {"manageUrl"}
  BY DEF Fields, Templates
<1> HIDE DEF contact, template, never
<1>2. LET m == LinkedUntil(template, event, contact, when, never) IN
      /\ m \in Mail /\ m.template = template /\ m.event = event /\ m.when = when
      /\ m.has = contact \cup {"manageUrl"} /\ m.ends = never /\ m.unfit = {}
  BY <1>1, UntilShape
<1> QED  BY <1>1, <1>2 DEF StaffNotice, contact, template, never

(* A decision appends its status to the history of the request.            *)
LEMMA DecidedLog ==
    ASSUME MailTypeOK, NEW r \in Customers, NEW to \in Statuses
    PROVE  /\ Decided(r, to) \in Seq(Statuses) /\ EventOf(r) \in Nat \ {0}
           /\ EventOf(r) \in DOMAIN Decided(r, to) /\ Decided(r, to)[EventOf(r)] = to
<1>1. history[r] \in Seq(Statuses)  BY DEF MailTypeOK
<1>2. Decided(r, to) = Append(history[r], to) /\ EventOf(r) = Len(history[r]) + 1
  BY DEF Decided, EventOf
<1>3. Append(history[r], to) \in Seq(Statuses)  BY <1>1
<1>4. Len(Append(history[r], to)) = Len(history[r]) + 1 /\ Len(history[r]) \in Nat  BY <1>1
<1>5. Append(history[r], to)[Len(history[r]) + 1] = to  BY <1>1
<1>6. DOMAIN Append(history[r], to) = 1 .. Len(history[r]) + 1  BY <1>3, <1>4
<1> QED  BY <1>2, <1>3, <1>4, <1>5, <1>6
-----------------------------------------------------------------------------
(* One lemma for each action.                                              *)
LEMMA CreateKeeps ==
    ASSUME MailInv, NEW r \in Customers, NEW when \in Int,
           NEW status \in {"new", "pending_review", "waitlisted"}, NEW text,
           CreateRequest(r, when, status, text)
    PROVE  MailInv' /\ TellsTruth
<1> DEFINE row == [booking[r] EXCEPT !.status = status, !.wanted = when]
<1>1. MailTypeOK /\ booking[r] \in BookingRow  BY DEF MailInv, MailTypeOK
<1>2. row \in BookingRow /\ row.status = status
  BY <1>1 DEF BookingRow, Statuses, OrdinaryStatuses, OrderStatuses
<1>3. status \notin Booked /\ status \notin Fixed  BY DEF Booked, Fixed
<1>4. FinalSet(r, row) /\ (\A mails : LinkHeld(r, row, mails)) /\ (\A log : ReadsAgree(r, row, log))
  <2>1. r \in Experiences => reads[r] = {}  BY DEF MailInv, ReadsAgree, CreateRequest
  <2>2. row.wanted = when /\ when <= day + HORIZON
    BY <1>1, NotificationsAssumption DEF CreateRequest, BookingRow, MailTypeOK
  <2> QED  BY <1>2, <1>3, <2>1, <2>2 DEF FinalSet, LinkHeld, ReadsAgree
<1>5. << >> \in Seq(Statuses) /\ <<"waitlisted">> \in Seq(Statuses)
  BY DEF Statuses, OrdinaryStatuses
<1>6. ASSUME NEW template \in Receipts
      PROVE  LET m == Plain(template, "none", 0, when) IN
             /\ Quoting(m, text) \in Mail /\ Accepted(Quoting(m, text), << >>)
             /\ ~ renderOutboxMessage(Quoting(m, text))
             /\ WithContact(m, text) \in Mail /\ Accepted(WithContact(m, text), << >>)
             /\ ~ renderOutboxMessage(WithContact(m, text))
  <2> DEFINE m == Plain(template, "none", 0, when)
  <2>1. template \in Templates /\ "none" \in Statuses  BY DEF Templates, Statuses
  <2>2. m \in Mail /\ m.template = template /\ m.event = 0 /\ m.unfit = {}
    BY <2>1, PlainShape
  <2> HIDE DEF m
  <2>3. Accepted(m, << >>) /\ ~ renderOutboxMessage(m)  BY <1>5, <2>2, ReceiptAccepted
  <2>4. Given(text) \in SUBSET Texts /\ Given(text) \cup (misfit \cap {"contact"}) \in SUBSET Texts
    BY DEF Given, Texts
  <2>5. \A unfit \in SUBSET Texts :
            LET q == [m EXCEPT !.unfit = unfit] IN
            q \in Mail /\ Accepted(q, << >>) /\ ~ renderOutboxMessage(q)
    BY <2>2, <2>3, TextsAccepted
  <2> QED  BY <2>4, <2>5 DEF Quoting, WithContact, m
<1>7. ASSUME NEW log \in Seq(Statuses)
      PROVE  LET m == StaffNotice(0, when)
                 q == Quoting(m, text) IN
             /\ m \in Mail /\ Accepted(m, log) /\ ~ renderOutboxMessage(m)
             /\ q \in Mail /\ Accepted(q, log) /\ ~ renderOutboxMessage(q)
  <2>1. /\ StaffNotice(0, when) \in Mail /\ StaffNotice(0, when).event = 0
        /\ StaffNotice(0, when).unfit = {}
        /\ StaffNotice(0, when).template = "staff_notification"
        /\ {"customerContact", "manageUrl"} \subseteq StaffNotice(0, when).has
    BY NoticeShape
  <2>2. ~ renderOutboxMessage(StaffNotice(0, when))
    BY <2>1 DEF renderOutboxMessage, renderBookingNotification
  <2>3. Accepted(StaffNotice(0, when), log)  BY <2>1, NoticeAccepted
  <2> DEFINE m == StaffNotice(0, when)
             q == [m EXCEPT !.unfit = Given(text)]
  <2> HIDE DEF m
  <2>4. Given(text) \in SUBSET Texts /\ (Given(text) # {} => Given(text) = {"given"})
    BY DEF Given, Texts
  <2>5. m \in Mail /\ Accepted(m, log) /\ m.unfit = {} /\ m.template = "staff_notification"
    BY <2>1, <2>3 DEF m
  <2>6. /\ q \in Mail /\ q.unfit = Given(text) /\ q.template = "staff_notification"
        /\ Given(text) = {} => q = m
    BY <2>4, <2>5 DEF Mail
  <2>7. Accepted(q, log)
    <3>1. CASE Given(text) = {}  BY <2>5, <2>6, <3>1
    <3>2. CASE Given(text) # {}  BY <2>4, <2>6, <3>2 DEF Accepted, MayMisfit
    <3> QED  BY <3>1, <3>2
  <2>8. ~ renderOutboxMessage(q)  BY <2>6 DEF renderOutboxMessage, renderBookingNotification
  <2> QED  BY <2>1, <2>2, <2>3, <2>6, <2>7, <2>8 DEF Quoting, m
<1> HIDE DEF row
<1>8. CASE r \in CartOrders
  <2> DEFINE mails == {Quoting(Plain("owner_request", "none", 0, when), text)} \cup
                      (IF r \in Unreachable THEN {}
                       ELSE {WithContact(Plain("cart_order_received", "none", 0, when), text)})
  <2>1. status = "new" /\ Write(r, row, << >>, mails)  BY <1>8, NotificationsAssumption DEF CreateRequest, row
  <2>2. \A m \in mails : m \in Mail /\ Accepted(m, << >>) /\ ~ renderOutboxMessage(m)
    BY <1>6 DEF Receipts
  <2>3. OwnStatus(r, row)
    BY <1>2, <1>8, <2>1, NotificationsAssumption DEF OwnStatus, OrderStatuses
  <2> HIDE DEF mails
  <2> QED  BY <1>2, <1>4, <1>5, <2>1, <2>2, <2>3, WriteKeeps DEF ClaimTrue
<1>9. CASE r \notin CartOrders /\ status = "pending_review"
  <2> DEFINE mails == {WithContact(Plain("booking_received", "none", 0, when), text),
                       IF r \in Festivities THEN Quoting(StaffNotice(0, when), text)
                       ELSE StaffNotice(0, when)}
  <2>1. Write(r, row, << >>, mails)  BY <1>9 DEF CreateRequest, row
  <2>2. \A m \in mails : m \in Mail /\ Accepted(m, << >>) /\ ~ renderOutboxMessage(m)
    BY <1>5, <1>6, <1>7 DEF Receipts
  <2>3. OwnStatus(r, row)
    BY <1>2, <1>9 DEF OwnStatus, OrdinaryStatuses, PartyStatuses
  <2> HIDE DEF mails
  <2> QED  BY <1>2, <1>4, <1>5, <2>1, <2>2, <2>3, WriteKeeps DEF ClaimTrue
<1>10. CASE r \in Experiences /\ status = "waitlisted"
  <2> DEFINE offer == Linked("booking_waitlisted", 1, {}, when)
             mails == {offer, StaffNotice(0, when)}
             log == <<"waitlisted">>
  <2>1. r \notin CartOrders /\ r \notin Festivities  BY <1>10, NotificationsAssumption
  <2>2. Write(r, row, <<status>>, mails)  BY <1>10, <2>1 DEF CreateRequest, row
  <2>3. /\ offer \in Mail /\ offer.template = "booking_waitlisted" /\ offer.event = 1
        /\ "manageUrl" \in offer.has /\ offer.unfit = {}
    <3> DEFINE template == "booking_waitlisted"
               none == {}
               first == 1
    <3>1. template \in Templates /\ none \in SUBSET Fields /\ first \in Nat
      BY DEF Templates
    <3> HIDE DEF template, none, first
    <3>2. LET m == Linked(template, first, none, when) IN
          /\ m \in Mail /\ m.template = template /\ m.event = first /\ m.when = when
          /\ m.has = none \cup {"manageUrl"} /\ m.ends = day + LIFETIME
          /\ m.unfit = {}
      BY <1>1, <3>1, LinkedShape
    <3> QED  BY <3>2 DEF template, none, first
  <2>4. Accepted(offer, <<"waitlisted">>)
    <3>1. 1 \in DOMAIN <<"waitlisted">> /\ <<"waitlisted">>[1] = "waitlisted"  OBVIOUS
    <3>2. "booking_waitlisted" \in DOMAIN LIFECYCLE_TEMPLATE_STATUS
          /\ LIFECYCLE_TEMPLATE_STATUS["booking_waitlisted"] = "waitlisted"
      BY DEF LIFECYCLE_TEMPLATE_STATUS
    <3> HIDE DEF offer, log
    <3>3. log \in Seq(Statuses) /\ 1 \in DOMAIN log /\ log[1] = "waitlisted"
      BY <1>5, <3>1 DEF log
    <3>4. Accepted(offer, log)  BY <2>3, <3>2, <3>3, LifecycleAccepted
    <3> QED  BY <3>4 DEF log, offer
  <2>5. ~ renderOutboxMessage(offer)
    BY <2>3 DEF renderOutboxMessage, renderBookingNotification
  <2>6. \A m \in mails : m \in Mail /\ Accepted(m, <<status>>) /\ ~ renderOutboxMessage(m)
    BY <1>5, <1>7, <1>10, <2>3, <2>4, <2>5
  <2>7. OwnStatus(r, row)  BY <1>2, <1>10, <2>1 DEF OwnStatus, OrdinaryStatuses
  <2> HIDE DEF mails, offer
  <2> QED  BY <1>2, <1>4, <1>5, <1>10, <2>2, <2>6, <2>7, WriteKeeps DEF ClaimTrue
<1>11. r \in CartOrders \/ status = "pending_review" \/ (r \in Experiences /\ status = "waitlisted")
  BY DEF CreateRequest
<1> QED  BY <1>8, <1>9, <1>10, <1>11

(* A decision whose row keeps what the invariant says needs one e-mail for *)
(* it.                                                                     *)
LEMMA DecideKeeps ==
    ASSUME MailInv, NEW r \in Customers, NEW to \in Statuses, NEW row \in BookingRow,
           NEW mails \in SUBSET Mail, Write(r, row, Decided(r, to), mails),
           OwnStatus(r, row), FinalSet(r, row), LinkHeld(r, row, told[r] \cup mails),
           r \in Experiences =>
                /\ row.status # "absent"
                /\ \/ row.wanted = booking[r].wanted
                   \/ to = "confirmed" /\ row.wanted <= day + HORIZON,
           \A m \in mails : Accepted(m, Decided(r, to)) /\ ClaimTrue(r, row, m)
    PROVE  MailInv' /\ TellsTruth
<1> DEFINE log == Decided(r, to)
<1>1. /\ log \in Seq(Statuses) /\ EventOf(r) \in DOMAIN log /\ log[EventOf(r)] = to
      /\ \A e \in DOMAIN history[r] : e \in DOMAIN log /\ log[e] = history[r][e]
  <2>1. history[r] \in Seq(Statuses) /\ log = Append(history[r], to)
    BY DEF MailInv, MailTypeOK, Decided
  <2>2. \A e \in DOMAIN history[r] : e \in DOMAIN log /\ log[e] = history[r][e]  BY <2>1
  <2> QED  BY <2>2, DecidedLog DEF MailInv
<1> HIDE DEF log
<1>2. ReadsAgree(r, row, log)
  <2>1. ReadsAgree(r, booking[r], history[r])  BY DEF MailInv
  <2>2. to = "confirmed" \/ WasConfirmed(history[r]) => WasConfirmed(log)
    BY <1>1 DEF WasConfirmed
  <2> QED  BY <2>1, <2>2 DEF ReadsAgree
<1> QED  BY <1>1, <1>2, WriteKeeps DEF log

(* A link that is made with a decision.                                    *)
LEMMA LinkedDecision ==
    ASSUME MailTypeOK, NEW r \in Customers, NEW to \in Statuses,
           NEW template \in DOMAIN LIFECYCLE_TEMPLATE_STATUS \ {"party_rejected", "party_cancelled"},
           LIFECYCLE_TEMPLATE_STATUS[template] = to,
           NEW has \in SUBSET Fields, NEW when \in Int, NEW ends \in Int,
           template \in {"party_time_proposed", "party_payment_due"} => "paymentDeadline" \in has,
           template \in {"party_payment_due", "party_payment_recorded", "party_payment_expired"}
                => "amountCents" \in has
    PROVE  LET m == LinkedUntil(template, EventOf(r), has, when, ends) IN
           /\ m \in Mail /\ Accepted(m, Decided(r, to))
           /\ m.template = template /\ m.when = when /\ m.ends = ends /\ m.unfit = {}
<1> DEFINE event == EventOf(r)
           m == LinkedUntil(template, event, has, when, ends)
<1>1. template \in Templates  BY DEF LIFECYCLE_TEMPLATE_STATUS, Templates
<1>2. /\ Decided(r, to) \in Seq(Statuses) /\ event \in Nat /\ event # 0
      /\ event \in DOMAIN Decided(r, to) /\ Decided(r, to)[event] = to
  BY DecidedLog
<1> HIDE DEF event
<1>3. /\ m \in Mail /\ m.template = template /\ m.event = event /\ m.when = when
      /\ m.has = has \cup {"manageUrl"} /\ m.ends = ends /\ m.unfit = {}
  <2>1. m = [template |-> template, status |-> "none", event |-> event,
             has |-> has \cup {"manageUrl"}, unfit |-> {}, when |-> when, ends |-> ends]
    BY LinkedFields
  <2>2. has \cup {"manageUrl"} \in SUBSET Fields /\ "none" \in Statuses  BY DEF Fields, Statuses
  <2>3. m \in Mail  BY <1>1, <1>2, <2>1, <2>2 DEF Mail
  <2> QED  BY <2>1, <2>3
<1> HIDE DEF m
<1>4. Accepted(m, Decided(r, to))  BY <1>2, <1>3, LifecycleAccepted
<1> QED  BY <1>3, <1>4 DEF m, event

LEMMA StatusDecision ==
    ASSUME MailTypeOK, NEW r \in Customers, NEW to \in Statuses, to \in BookingStatusTemplate,
           NEW when \in Int
    PROVE  LET m == Plain("booking_status", to, EventOf(r), when) IN
           /\ m \in Mail /\ Accepted(m, Decided(r, to))
           /\ m.template = "booking_status" /\ m.status = to /\ m.when = when /\ m.unfit = {}
<1> DEFINE event == EventOf(r)
           m == Plain("booking_status", to, event, when)
<1>1. "booking_status" \in Templates  BY DEF Templates
<1>2. /\ Decided(r, to) \in Seq(Statuses) /\ event \in Nat /\ event # 0
      /\ event \in DOMAIN Decided(r, to) /\ Decided(r, to)[event] = to
  BY DecidedLog
<1> HIDE DEF event
<1>3. /\ m \in Mail /\ m.template = "booking_status" /\ m.status = to /\ m.event = event
      /\ m.when = when /\ m.unfit = {}
  BY <1>1, <1>2, PlainShape
<1> HIDE DEF m
<1>4. Accepted(m, Decided(r, to))  BY <1>2, <1>3, StatusAccepted
<1> QED  BY <1>3, <1>4 DEF m, event

(* The e-mail of such a decision with a note of staff and the texts of the *)
(* studio.                                                                 *)
LEMMA StatusQuoting ==
    ASSUME MailTypeOK, NEW r \in Customers, NEW to \in Statuses, to \in BookingStatusTemplate,
           NEW when \in Int, NEW text
    PROVE  LET m == WithStore(Plain("booking_status", to, EventOf(r), when), text) IN
           /\ m \in Mail /\ Accepted(m, Decided(r, to))
           /\ m.template = "booking_status" /\ m.status = to /\ m.when = when
<1> DEFINE plain == Plain("booking_status", to, EventOf(r), when)
           unfit == Given(text) \cup misfit
<1>1. /\ plain \in Mail /\ Accepted(plain, Decided(r, to)) /\ plain.unfit = {}
      /\ plain.template = "booking_status" /\ plain.status = to /\ plain.when = when
  BY StatusDecision
<1>2. unfit \in SUBSET Texts  BY DEF MailTypeOK, Given, Texts
<1>3. WithStore(plain, text) = [plain EXCEPT !.unfit = unfit]  BY DEF WithStore
<1> HIDE DEF plain, unfit
<1>4. LET q == [plain EXCEPT !.unfit = unfit] IN
      /\ q \in Mail /\ Accepted(q, Decided(r, to))
      /\ q.template = plain.template /\ q.status = plain.status /\ q.when = plain.when
  BY <1>1, <1>2, TextsAccepted
<1> QED  BY <1>1, <1>3, <1>4 DEF plain

LEMMA ReadKeeps ==
    ASSUME MailInv, NEW r \in Experiences, ReadOrdinary(r)
    PROVE  MailInv' /\ TellsTruth
<1> DEFINE read == [status |-> booking[r].status, wanted |-> booking[r].wanted]
<1>1. /\ reads' = [reads EXCEPT ![r] = @ \cup {read}] /\ booking[r].status # "absent"
      /\ refused' = {} /\ UNCHANGED <<day, booking, history, told, misfit>>
  BY DEF ReadOrdinary
<1>2. MailTypeOK /\ r \in Customers /\ booking[r] \in BookingRow
  BY DEF MailInv, MailTypeOK, Customers
<1>3. read \in Read /\ read.wanted = booking[r].wanted  BY <1>2 DEF BookingRow, Read
<1> HIDE DEF read
<1>4. MailTypeOK'
  <2>1. reads[r] \cup {read} \in SUBSET Read  BY <1>2, <1>3 DEF MailTypeOK
  <2> QED  BY <1>1, <1>2, <2>1 DEF MailTypeOK
<1>5. ASSUME NEW c \in Customers
      PROVE  (/\ OwnStatus(c, booking[c]) /\ FinalSet(c, booking[c])
              /\ LinkHeld(c, booking[c], told[c]) /\ ReadsAgree(c, booking[c], history[c]))'
  <2>1. /\ OwnStatus(c, booking[c]) /\ FinalSet(c, booking[c])
        /\ LinkHeld(c, booking[c], told[c]) /\ ReadsAgree(c, booking[c], history[c])
    BY DEF MailInv
  <2>2. c \in Experiences => reads'[c] = IF c = r THEN reads[c] \cup {read} ELSE reads[c]
    BY <1>1, <1>2 DEF MailTypeOK
  <2>3. ReadsAgree(c, booking[c], history[c])'
    BY <1>1, <1>3, <2>1, <2>2 DEF ReadsAgree, WasConfirmed
  <2> QED  BY <1>1, <2>1, <2>3 DEF OwnStatus, FinalSet, LinkHeld, VisitOf
<1> QED  BY <1>1, <1>4, <1>5 DEF MailInv, TellsTruth

LEMMA OrdinaryKeeps ==
    ASSUME MailInv, NEW r \in Experiences, NEW read \in reads[r], NEW to, NEW when \in Int,
           NEW text, DecideOrdinary(r, read, to, when, text)
    PROVE  MailInv' /\ TellsTruth
<1> DEFINE day0 == booking[r].wanted
           stored == IF when = read.wanted THEN day0 ELSE when
           row == [booking[r] EXCEPT !.status = to, !.wanted = stored]
           m == OrdinaryMail(r, to, when, text)
           ends == day + LIFETIME
<1>1. /\ MailTypeOK /\ booking[r] \in BookingRow /\ day \in Int /\ r \in Customers
      /\ read \in Read /\ day0 \in Int /\ ReadsAgree(r, booking[r], history[r])
  BY DEF MailInv, MailTypeOK, Customers, BookingRow
<1>2. /\ r \notin Festivities /\ r \notin CartOrders
      /\ Write(r, row, Decided(r, to), {m})
      /\ IF to = "confirmed" THEN when \in day .. day + HORIZON ELSE when = read.wanted
  BY NotificationsAssumption DEF DecideOrdinary
<1>3. to \in {"confirmed", "waitlisted", "rejected", "cancelled", "reschedule_requested",
              "cancellation_requested", "no_show", "completed"}
  BY DEF DecideOrdinary, ORDINARY_TRANSITIONS
<1>4. to \in Statuses /\ to \in OrdinaryStatuses /\ to # "absent"
  BY <1>3 DEF Statuses, OrdinaryStatuses
<1>5. row \in BookingRow /\ row.status = to /\ row.wanted = stored
  BY <1>1, <1>4 DEF BookingRow
<1>6. /\ stored = day0 \/ to = "confirmed"
      /\ stored <= day + HORIZON /\ ends > stored /\ stored \in Int /\ ends \in Int
  BY <1>1, <1>2, NotificationsAssumption DEF ReadsAgree, Read
<1>7. stored = when \/ WasConfirmed(history[r])  BY <1>1 DEF ReadsAgree
<1> HIDE DEF stored
<1>8. CASE to \in DOMAIN ORDINARY_LIFECYCLE_TEMPLATES
  <2> DEFINE template == ORDINARY_LIFECYCLE_TEMPLATES[to]
             none == {}
             plain == LinkedUntil(template, EventOf(r), none, when, ends)
             unfit == Given(text)
  <2>1. /\ template \in DOMAIN LIFECYCLE_TEMPLATE_STATUS \ {"party_rejected", "party_cancelled"}
        /\ LIFECYCLE_TEMPLATE_STATUS[template] = to
        /\ template \in {"booking_confirmed", "booking_rejected", "booking_waitlisted"}
        /\ template = "booking_confirmed" => to = "confirmed"
    BY <1>8 DEF LIFECYCLE_TEMPLATE_STATUS, ORDINARY_LIFECYCLE_TEMPLATES
  <2>2. m = [plain EXCEPT !.unfit = unfit]
    BY <1>8 DEF OrdinaryMail, Linked, LinkEnds, Quoting
  <2> HIDE DEF template, none, ends
  <2>3. none \in SUBSET Fields /\ unfit \in SUBSET Texts /\ (unfit # {} => unfit = {"given"})
    BY DEF none, Given, Texts
  <2>4. /\ plain \in Mail /\ Accepted(plain, Decided(r, to)) /\ plain.unfit = {}
        /\ plain.template = template /\ plain.when = when /\ plain.ends = ends
    BY <1>1, <1>4, <1>6, <2>1, <2>3, LinkedDecision
  <2> HIDE DEF m, row, plain, unfit
  <2>5. /\ m \in Mail /\ Accepted(m, Decided(r, to))
        /\ m.template = template /\ m.when = when /\ m.ends = ends
    <3>1. LET q == [plain EXCEPT !.unfit = unfit] IN
          /\ q \in Mail /\ Accepted(q, Decided(r, to))
          /\ q.template = plain.template /\ q.when = plain.when /\ q.ends = plain.ends
      BY <2>1, <2>3, <2>4, TextsAccepted
    <3> QED  BY <2>2, <2>4, <3>1
  <2>6. ClaimTrue(r, row, m)
    <3>1. WasConfirmed(history[r]) /\ template = "booking_confirmed" => ConfirmedAgain(r, m)
      BY <2>5 DEF WasConfirmed, ConfirmedAgain
    <3> QED  BY <1>2, <1>5, <1>7, <2>1, <2>5, <3>1
             DEF ClaimTrue, VisitOf, Booked, renderOutboxMessage, renderBookingNotification
  <2>7. LinkHeld(r, row, told[r] \cup {m})
    BY <1>2, <1>5, <1>6, <2>1, <2>5 DEF LinkHeld, VisitOf
  <2>8. OwnStatus(r, row) /\ FinalSet(r, row)  BY <1>2, <1>4, <1>5 DEF OwnStatus, FinalSet
  <2> QED  BY <1>1, <1>2, <1>4, <1>5, <1>6, <2>5, <2>6, <2>7, <2>8, DecideKeeps
<1>9. CASE to \notin DOMAIN ORDINARY_LIFECYCLE_TEMPLATES
  <2>1. to \notin Booked /\ to # "confirmed" /\ to \in BookingStatusTemplate
    BY <1>3, <1>9 DEF Booked, BookingStatusTemplate, ORDINARY_LIFECYCLE_TEMPLATES
  <2>2. m = WithStore(Plain("booking_status", to, EventOf(r), when), text)
    BY <1>9 DEF OrdinaryMail
  <2>3. /\ m \in Mail /\ Accepted(m, Decided(r, to))
        /\ m.template = "booking_status" /\ m.status = to
    BY <1>1, <1>4, <2>1, <2>2, StatusQuoting
  <2> HIDE DEF m, row
  <2>4. ClaimTrue(r, row, m)
    BY <2>1, <2>3 DEF ClaimTrue, renderOutboxMessage, renderBookingStatusEmail
  <2>5. LinkHeld(r, row, told[r] \cup {m})  BY <1>5, <2>1 DEF LinkHeld
  <2>6. OwnStatus(r, row) /\ FinalSet(r, row)  BY <1>2, <1>4, <1>5 DEF OwnStatus, FinalSet
  <2> QED  BY <1>1, <1>2, <1>4, <1>5, <1>6, <2>3, <2>4, <2>5, <2>6, DecideKeeps
<1> QED  BY <1>8, <1>9

LEMMA OrderKeeps ==
    ASSUME MailInv, NEW r \in Customers, NEW to, NEW text, DecideOrder(r, to, text)
    PROVE  MailInv' /\ TellsTruth
<1> DEFINE row == [booking[r] EXCEPT !.status = to]
           when == booking[r].wanted
           m == WithStore(Plain("booking_status", to, EventOf(r), when), text)
           mails == IF r \in Unreachable THEN {} ELSE {m}
<1>1. MailTypeOK /\ booking[r] \in BookingRow  BY DEF MailInv, MailTypeOK
<1>2. /\ r \in CartOrders /\ r \notin Festivities /\ r \notin Experiences
      /\ Write(r, row, Decided(r, to), mails)
  BY NotificationsAssumption DEF DecideOrder
<1>3. to \in {"contacted", "confirmed", "cancelled"}  BY DEF DecideOrder, VALID_TRANSITIONS
<1>4. to \in Statuses /\ to \in OrderStatuses /\ to \in BookingStatusTemplate
  BY <1>3 DEF Statuses, OrderStatuses, BookingStatusTemplate
<1>5. row \in BookingRow /\ row.status = to /\ row.wanted = when /\ when \in Int
  BY <1>1, <1>4 DEF BookingRow
<1> HIDE DEF when
<1>6. /\ m \in Mail /\ Accepted(m, Decided(r, to))
      /\ m.template = "booking_status" /\ m.status = to /\ m.when = when
  BY <1>1, <1>4, <1>5, StatusQuoting
<1> HIDE DEF m, row
<1>7. ClaimTrue(r, row, m)
  BY <1>2, <1>5, <1>6
  DEF ClaimTrue, VisitOf, Booked, renderOutboxMessage, renderBookingStatusEmail
<1>8. OwnStatus(r, row) /\ FinalSet(r, row) /\ LinkHeld(r, row, told[r] \cup mails)
  BY <1>2, <1>4, <1>5 DEF OwnStatus, FinalSet, LinkHeld
<1>9. mails \in SUBSET Mail /\ \A n \in mails : n = m  BY <1>6
<1> HIDE DEF mails
<1> QED  BY <1>2, <1>4, <1>5, <1>6, <1>7, <1>8, <1>9, DecideKeeps

LEMMA ProposeKeeps ==
    ASSUME MailInv, NEW r \in Customers, NEW when \in Int, NEW due \in Int,
           ProposeTime(r, when, due)
    PROVE  MailInv' /\ TellsTruth
<1> DEFINE to == IF when = booking[r].wanted THEN "awaiting_in_store_payment" ELSE "time_proposed"
           row == [[booking[r] EXCEPT !.final = when, !.due = due] EXCEPT !.status = to]
           template == IF when = booking[r].wanted THEN "party_payment_due"
                       ELSE "party_time_proposed"
           has == {"paymentDeadline", "amountCents"}
           ends == IF when = booking[r].wanted THEN day + LIFETIME ELSE due
           m == LinkedUntil(template, EventOf(r), has, when, ends)
<1>1. MailTypeOK /\ booking[r] \in BookingRow /\ day \in Int  BY DEF MailInv, MailTypeOK
<1>2. /\ r \in Festivities /\ r \notin Experiences /\ r \notin CartOrders
      /\ when \in day .. day + HORIZON
  BY NotificationsAssumption DEF ProposeTime
<1>3. Write(r, row, Decided(r, to), {m})
  <2>1. CASE when = booking[r].wanted  BY <2>1 DEF ProposeTime, Linked, LinkEnds
  <2>2. CASE when # booking[r].wanted  BY <2>2 DEF ProposeTime
  <2> QED  BY <2>1, <2>2
<1>4. to \in Statuses /\ to \in PartyStatuses /\ to \notin Booked
  BY DEF Statuses, PartyStatuses, Booked
<1>5. row \in BookingRow /\ row.status = to /\ row.final = when
  BY <1>1, <1>4 DEF BookingRow
<1>6. /\ template \in DOMAIN LIFECYCLE_TEMPLATE_STATUS \ {"party_rejected", "party_cancelled"}
      /\ LIFECYCLE_TEMPLATE_STATUS[template] = to
      /\ template \in {"party_payment_due", "party_time_proposed"}
      /\ has \in SUBSET Fields /\ "paymentDeadline" \in has /\ "amountCents" \in has
  BY DEF LIFECYCLE_TEMPLATE_STATUS, Fields
<1>7. ends \in Int  BY <1>1, NotificationsAssumption
<1> HIDE DEF template, has, ends, to
<1>8. m \in Mail /\ Accepted(m, Decided(r, to)) /\ m.template = template
  BY <1>1, <1>4, <1>6, <1>7, LinkedDecision
<1> HIDE DEF m, row
<1>9. ClaimTrue(r, row, m)
  BY <1>6, <1>8 DEF ClaimTrue, renderOutboxMessage, renderBookingNotification
<1>10. OwnStatus(r, row) /\ FinalSet(r, row) /\ LinkHeld(r, row, told[r] \cup {m})
  BY <1>1, <1>2, <1>4, <1>5, NotificationsAssumption DEF OwnStatus, FinalSet, LinkHeld
<1> QED  BY <1>2, <1>3, <1>4, <1>5, <1>8, <1>9, <1>10, DecideKeeps

LEMMA MoveKeeps ==
    ASSUME MailInv, NEW r \in Customers, NEW to, NEW template, MoveParty(r, to, template)
    PROVE  MailInv' /\ TellsTruth
<1> DEFINE row == [booking[r] EXCEPT !.status = to]
           when == booking[r].final
           has == {"paymentDeadline", "amountCents"}
           ends == day + LIFETIME
           m == LinkedUntil(template, EventOf(r), has, when, ends)
<1>1. /\ MailTypeOK /\ booking[r] \in BookingRow /\ day \in Int /\ FinalSet(r, booking[r])
  BY DEF MailInv, MailTypeOK
<1>2. /\ r \in Festivities /\ r \notin Experiences /\ r \notin CartOrders
      /\ Write(r, row, Decided(r, to), {m})
  BY NotificationsAssumption DEF MoveParty, Linked, LinkEnds
<1>3. booking[r].status \in {"time_proposed", "awaiting_in_store_payment"}  BY DEF MoveParty
<1>4. \/ to = "awaiting_in_store_payment" /\ template = "party_payment_due"
      \/ to = "confirmed_paid" /\ template = "party_payment_recorded"
      \/ to = "payment_expired" /\ template = "party_payment_expired"
  BY DEF MoveParty
<1>5. when \in Int /\ when <= day + HORIZON
  BY <1>1, <1>2, <1>3 DEF FinalSet, Fixed
<1>6. ends \in Int /\ ends > when /\ day + HORIZON \in Int
  BY <1>1, <1>5, NotificationsAssumption
<1>7. to \in Statuses /\ to \in PartyStatuses  BY <1>4 DEF Statuses, PartyStatuses
<1>8. row \in BookingRow /\ row.status = to /\ row.final = when
  BY <1>1, <1>7 DEF BookingRow
<1>9. /\ template \in DOMAIN LIFECYCLE_TEMPLATE_STATUS \ {"party_rejected", "party_cancelled"}
      /\ LIFECYCLE_TEMPLATE_STATUS[template] = to
  BY <1>4 DEF LIFECYCLE_TEMPLATE_STATUS
<1>10. has \in SUBSET Fields /\ "paymentDeadline" \in has /\ "amountCents" \in has
  BY DEF Fields
<1> HIDE DEF has, ends, when
<1>11. /\ m \in Mail /\ Accepted(m, Decided(r, to))
       /\ m.template = template /\ m.when = when /\ m.ends = ends
  BY <1>1, <1>5, <1>6, <1>7, <1>9, <1>10, LinkedDecision
<1> HIDE DEF m, row
<1>12. ClaimTrue(r, row, m)
  BY <1>2, <1>4, <1>8, <1>11
  DEF ClaimTrue, VisitOf, Booked, renderOutboxMessage, renderBookingNotification
<1>13. OwnStatus(r, row) /\ FinalSet(r, row)
  BY <1>2, <1>5, <1>7, <1>8 DEF OwnStatus, FinalSet
<1>14. LinkHeld(r, row, told[r] \cup {m})
  BY <1>2, <1>4, <1>6, <1>8, <1>11 DEF LinkHeld, VisitOf
<1> QED  BY <1>2, <1>7, <1>8, <1>11, <1>12, <1>13, <1>14, DecideKeeps

LEMMA PartyEndKeeps ==
    ASSUME MailInv, NEW r \in Customers, NEW to, DecideParty(r, to)
    PROVE  MailInv' /\ TellsTruth
<1> DEFINE row == [booking[r] EXCEPT !.status = to]
           when == PartyDay(r)
           event == EventOf(r)
           template == PartyEndTemplate[to]
           m == Plain(template, "none", event, when)
           mails == IF to \in DOMAIN PartyEndTemplate THEN {m} ELSE {}
<1>1. /\ MailTypeOK /\ booking[r] \in BookingRow  BY DEF MailInv, MailTypeOK
<1>2. /\ r \in Festivities /\ r \notin Experiences /\ r \notin CartOrders
      /\ Write(r, row, Decided(r, to), mails)
  BY NotificationsAssumption DEF DecideParty
<1>3. to \in {"rejected", "cancelled", "cancellation_requested", "no_show", "completed"}
  BY DEF DecideParty, PARTY_TRANSITIONS
<1>4. to \in Statuses /\ to \in PartyStatuses /\ to \notin Booked /\ to \notin Fixed
  BY <1>3 DEF Statuses, PartyStatuses, Booked, Fixed
<1>5. row \in BookingRow /\ row.status = to  BY <1>1, <1>4 DEF BookingRow
<1>6. when \in Int  BY <1>1 DEF BookingRow, PartyDay
<1>7. /\ Decided(r, to) \in Seq(Statuses) /\ event \in Nat /\ event # 0
      /\ event \in DOMAIN Decided(r, to) /\ Decided(r, to)[event] = to
  BY <1>1, <1>4, DecidedLog
<1> HIDE DEF when, event
<1>8. ASSUME to \in DOMAIN PartyEndTemplate
      PROVE  /\ m \in Mail /\ Accepted(m, Decided(r, to)) /\ ~ renderOutboxMessage(m)
  <2>1. /\ template \in Templates /\ template \in {"party_rejected", "party_cancelled"}
        /\ template \in DOMAIN LIFECYCLE_TEMPLATE_STATUS
        /\ LIFECYCLE_TEMPLATE_STATUS[template] = to
    BY <1>8 DEF Templates, LIFECYCLE_TEMPLATE_STATUS, PartyEndTemplate
  <2> HIDE DEF template
  <2>2. m \in Mail /\ m.template = template /\ m.event = event /\ m.has = {} /\ m.unfit = {}
    <3>1. "none" \in Statuses  BY DEF Statuses
    <3>2. m.has = {} /\ m.unfit = {}  BY DEF Plain
    <3>3. template \in Templates /\ event \in Nat /\ when \in Int  BY <1>6, <1>7, <2>1
    <3>4. m \in Mail /\ m.template = template /\ m.event = event
      BY <3>1, <3>3, PlainShape
    <3> QED  BY <3>2, <3>4
  <2> HIDE DEF m
  <2>3. Accepted(m, Decided(r, to))  BY <1>7, <2>1, <2>2, LifecycleAccepted
  <2> QED  BY <2>1, <2>2, <2>3 DEF renderOutboxMessage, renderBookingNotification
<1> HIDE DEF m, row
<1>9. /\ mails \in SUBSET Mail
      /\ \A n \in mails : Accepted(n, Decided(r, to)) /\ ~ renderOutboxMessage(n)
  BY <1>8
<1>10. OwnStatus(r, row) /\ FinalSet(r, row) /\ LinkHeld(r, row, told[r] \cup mails)
  BY <1>2, <1>4, <1>5 DEF OwnStatus, FinalSet, LinkHeld
<1> HIDE DEF mails
<1> QED  BY <1>2, <1>4, <1>5, <1>9, <1>10, DecideKeeps DEF ClaimTrue

(* A certain visit has a day.                                              *)
LEMMA VisitKnown ==
    ASSUME MailInv, NEW r \in Experiences \cup Festivities, booking[r].status \in Booked
    PROVE  Visit(r) \in Int /\ Visit(r) = VisitOf(r, booking[r])
<1>1. r \in Customers /\ booking[r] \in BookingRow
  BY DEF MailInv, MailTypeOK, Customers
<1>2. OwnStatus(r, booking[r]) /\ FinalSet(r, booking[r])  BY <1>1 DEF MailInv
<1>3. CASE r \in Festivities
  <2>1. booking[r].status = "confirmed_paid"
    BY <1>2, <1>3 DEF OwnStatus, PartyStatuses, Booked
  <2> QED  BY <1>2, <1>3, <2>1 DEF FinalSet, Fixed, Visit, VisitOf
<1>4. CASE r \notin Festivities  BY <1>1, <1>4 DEF BookingRow, Visit, VisitOf
<1> QED  BY <1>3, <1>4

LEMMA AskKeeps ==
    ASSUME MailInv, NEW r \in Customers, NEW to, NEW template, NEW m \in told[r],
           AskForChange(r, m, to, template)
    PROVE  MailInv' /\ TellsTruth
<1> DEFINE row == [booking[r] EXCEPT !.status = to]
           when == Visit(r)
           event == EventOf(r)
           none == {}
           ends == m.ends
           answer == LinkedUntil(template, event, none, when, ends)
           notice == StaffNotice(event, when)
           mails == {answer, notice}
<1>1. /\ MailTypeOK /\ booking[r] \in BookingRow /\ m \in Mail  BY DEF MailInv, MailTypeOK
<1>2. /\ r \in Experiences \cup Festivities /\ r \notin CartOrders
      /\ booking[r].status \in Booked /\ Write(r, row, Decided(r, to), mails)
  BY NotificationsAssumption DEF AskForChange
<1>3. /\ to \in {"cancellation_requested", "reschedule_requested"}
      /\ template \in {"cancellation_request", "reschedule_request"}
      /\ template \in DOMAIN LIFECYCLE_TEMPLATE_STATUS \ {"party_rejected", "party_cancelled"}
      /\ LIFECYCLE_TEMPLATE_STATUS[template] = to
      /\ template \notin {"party_time_proposed", "party_payment_due"}
      /\ template \notin {"party_payment_due", "party_payment_recorded", "party_payment_expired"}
  BY DEF AskForChange, LIFECYCLE_TEMPLATE_STATUS
<1>4. /\ to \in Statuses /\ to \in PartyStatuses /\ to \in OrdinaryStatuses
      /\ to \notin Booked /\ to \notin Fixed
  BY <1>3 DEF Statuses, PartyStatuses, OrdinaryStatuses, Booked, Fixed
<1>5. /\ row \in BookingRow /\ row.status = to /\ row.status # "absent"
      /\ row.wanted = booking[r].wanted
  BY <1>1, <1>3, <1>4 DEF BookingRow
<1>6. when \in Int /\ ends \in Int /\ none \in SUBSET Fields
  BY <1>1, <1>2, VisitKnown DEF Mail
<1>7. /\ Decided(r, to) \in Seq(Statuses) /\ event \in Nat /\ event \in DOMAIN Decided(r, to)
  BY <1>1, <1>4, DecidedLog
<1> HIDE DEF when, none, ends
<1>8. answer \in Mail /\ Accepted(answer, Decided(r, to)) /\ answer.template = template
  <2>1. LET a == LinkedUntil(template, EventOf(r), none, when, ends) IN
        a \in Mail /\ Accepted(a, Decided(r, to)) /\ a.template = template
    <3>1. /\ template \in DOMAIN LIFECYCLE_TEMPLATE_STATUS \ {"party_rejected", "party_cancelled"}
          /\ LIFECYCLE_TEMPLATE_STATUS[template] = to
          /\ template \in {"party_time_proposed", "party_payment_due"} => "paymentDeadline" \in none
          /\ template \in {"party_payment_due", "party_payment_recorded", "party_payment_expired"}
                => "amountCents" \in none
      BY <1>3
    <3>2. MailTypeOK /\ to \in Statuses  BY <1>1, <1>4
    <3> QED  BY <1>6, <3>1, <3>2, LinkedDecision
  <2> QED  BY <2>1
<1> HIDE DEF answer, event
<1>9. /\ notice \in Mail /\ notice.template = "staff_notification" /\ notice.event = event
      /\ {"customerContact", "manageUrl"} \subseteq notice.has /\ notice.unfit = {}
  BY <1>6, <1>7, NoticeShape
<1> HIDE DEF notice, row
<1>10. Accepted(notice, Decided(r, to))  BY <1>7, <1>9, NoticeAccepted
<1>11. ClaimTrue(r, row, answer) /\ ClaimTrue(r, row, notice)
  BY <1>3, <1>8, <1>9 DEF ClaimTrue, renderOutboxMessage, renderBookingNotification
<1>12. OwnStatus(r, row) /\ FinalSet(r, row) /\ LinkHeld(r, row, told[r] \cup mails)
  BY <1>2, <1>4, <1>5 DEF OwnStatus, FinalSet, LinkHeld
<1>13. /\ mails \in SUBSET Mail
       /\ \A n \in mails : Accepted(n, Decided(r, to)) /\ ClaimTrue(r, row, n)
  BY <1>8, <1>9, <1>10, <1>11
<1> HIDE DEF mails
<1> QED  BY <1>2, <1>4, <1>5, <1>12, <1>13, DecideKeeps

LEMMA RemindKeeps ==
    ASSUME MailInv, NEW r \in Customers, Remind(r)
    PROVE  MailInv' /\ TellsTruth
<1> DEFINE row == booking[r]
           log == history[r]
           when == Visit(r)
           none == {}
           template == "booking_reminder"
           never == 0
           m == Linked(template, never, none, when)
<1>1. /\ MailTypeOK /\ row \in BookingRow /\ log \in Seq(Statuses)
      /\ OwnStatus(r, row) /\ FinalSet(r, row) /\ LinkHeld(r, row, told[r])
      /\ ReadsAgree(r, row, log)
  BY DEF MailInv, MailTypeOK
<1>2. /\ r \in Experiences \cup Festivities /\ row.status \in Booked /\ Write(r, row, log, {m})
  BY DEF Remind
<1>3. when \in Int /\ when = VisitOf(r, row)  BY <1>2, VisitKnown
<1>4. template \in Templates /\ none \in SUBSET Fields /\ never \in Nat  BY DEF Templates
<1> HIDE DEF row, log, when, template, none, never
<1>5. /\ m \in Mail /\ m.template = template /\ m.event = never /\ m.when = when
      /\ m.has = none \cup {"manageUrl"} /\ m.unfit = {}
  <2>1. m = [template |-> template, status |-> "none", event |-> never,
             has |-> none \cup {"manageUrl"}, unfit |-> {}, when |-> when, ends |-> LinkEnds]
    BY LinkedFields DEF Linked
  <2>2. none \cup {"manageUrl"} \in SUBSET Fields /\ "none" \in Statuses
    BY DEF Fields, Statuses, none
  <2>3. LinkEnds \in Int  BY <1>1, NotificationsAssumption DEF MailTypeOK, LinkEnds
  <2>4. m \in Mail  BY <1>3, <1>4, <2>1, <2>2, <2>3 DEF Mail
  <2> QED  BY <2>1, <2>4
<1> HIDE DEF m
<1>6. Accepted(m, log)  BY <1>1, <1>5, NoticeAccepted DEF template, never
<1>7. ClaimTrue(r, row, m)  BY <1>2, <1>3, <1>5 DEF ClaimTrue
<1>8. LinkHeld(r, row, told[r] \cup {m})  BY <1>1 DEF LinkHeld
<1> QED  BY <1>1, <1>2, <1>5, <1>6, <1>7, <1>8, WriteKeeps

LEMMA NextDayKeeps ==
    ASSUME MailInv, NextDay
    PROVE  MailInv' /\ TellsTruth
<1>1. /\ MailTypeOK /\ refused' = {} /\ day' = day + 1 /\ day \in Int
      /\ UNCHANGED <<booking, history, reads, told, misfit>>
  BY DEF MailInv, MailTypeOK, NextDay
<1>2. MailTypeOK'  BY <1>1 DEF MailTypeOK
<1>3. ASSUME NEW r \in Customers
      PROVE  (/\ OwnStatus(r, booking[r]) /\ FinalSet(r, booking[r])
              /\ LinkHeld(r, booking[r], told[r]) /\ ReadsAgree(r, booking[r], history[r]))'
  <2>1. /\ OwnStatus(r, booking[r]) /\ FinalSet(r, booking[r])
        /\ LinkHeld(r, booking[r], told[r]) /\ ReadsAgree(r, booking[r], history[r])
    BY DEF MailInv
  <2>2. FinalSet(r, booking[r])'  BY <1>1, <2>1, NotificationsAssumption DEF FinalSet
  <2>3. ReadsAgree(r, booking[r], history[r])'
    <3>1. r \in Experiences =>
            booking[r].wanted \in Int /\ \A read \in reads[r] : read.wanted \in Int
      BY <1>1 DEF MailTypeOK, Customers, BookingRow, Read
    <3> QED  BY <1>1, <2>1, <3>1, NotificationsAssumption DEF ReadsAgree, WasConfirmed
  <2> QED  BY <1>1, <2>1, <2>2, <2>3 DEF OwnStatus, LinkHeld, VisitOf
<1> QED  BY <1>1, <1>2, <1>3 DEF MailInv, TellsTruth

LEMMA SaveKeeps ==
    ASSUME MailInv, NEW blank \in SUBSET {"address", "contact"}, SaveSettings(blank)
    PROVE  MailInv' /\ TellsTruth
<1>1. /\ misfit' = blank /\ refused' = {} /\ UNCHANGED <<day, booking, history, reads, told>>
  BY DEF SaveSettings
<1>2. MailTypeOK'  BY <1>1 DEF MailInv, MailTypeOK, Texts
<1> QED  BY <1>1, <1>2 DEF MailInv, OwnStatus, FinalSet, LinkHeld, VisitOf, ReadsAgree,
                           WasConfirmed, TellsTruth

LEMMA MailNextInv ==
    ASSUME MailInv, [NotificationsNext]_notificationVars
    PROVE  MailInv' /\ TellsTruth
<1>1. CASE UNCHANGED notificationVars
  BY <1>1 DEF notificationVars, MailInv, MailTypeOK, OwnStatus, FinalSet, LinkHeld, VisitOf,
              ReadsAgree, WasConfirmed, TellsTruth
<1>2. CASE NextDay  BY <1>2, NextDayKeeps
<1>11. ASSUME NEW blank \in SUBSET {"address", "contact"}, SaveSettings(blank)
       PROVE  MailInv' /\ TellsTruth
  BY <1>11, SaveKeeps
<1>12. ASSUME NEW r \in Experiences, ReadOrdinary(r)
       PROVE  MailInv' /\ TellsTruth
  BY <1>12, ReadKeeps
<1>3. ASSUME NEW r \in Customers, NEW text,
             NEW when \in 0 .. LastDay + HORIZON, NEW s \in {"new", "pending_review", "waitlisted"},
             CreateRequest(r, when, s, text)
      PROVE  MailInv' /\ TellsTruth
  BY <1>3, CreateKeeps
<1>4. ASSUME NEW r \in Experiences, NEW read \in reads[r], NEW text,
             NEW t \in ORDINARY_TRANSITIONS, NEW when \in 0 .. LastDay + HORIZON,
             DecideOrdinary(r, read, t[2], when, text)
      PROVE  MailInv' /\ TellsTruth
  BY <1>4, OrdinaryKeeps
<1>5. ASSUME NEW r \in Customers, NEW t \in VALID_TRANSITIONS, NEW text,
             DecideOrder(r, t[2], text)
      PROVE  MailInv' /\ TellsTruth
  BY <1>5, OrderKeeps
<1>6. ASSUME NEW r \in Customers, NEW when \in 0 .. LastDay + HORIZON, NEW due \in 1 .. LastDay,
             ProposeTime(r, when, due)
      PROVE  MailInv' /\ TellsTruth
  BY <1>6, ProposeKeeps
<1>7. ASSUME NEW r \in Customers, NEW template, NEW to, MoveParty(r, to, template)
      PROVE  MailInv' /\ TellsTruth
  BY <1>7, MoveKeeps
<1>8. ASSUME NEW r \in Customers, NEW template, NEW to, NEW m \in told[r],
             AskForChange(r, m, to, template)
      PROVE  MailInv' /\ TellsTruth
  BY <1>8, AskKeeps
<1>9. ASSUME NEW r \in Customers, NEW t \in PARTY_TRANSITIONS, DecideParty(r, t[2])
      PROVE  MailInv' /\ TellsTruth
  BY <1>9, PartyEndKeeps
<1>10. ASSUME NEW r \in Customers, Remind(r)
       PROVE  MailInv' /\ TellsTruth
  BY <1>10, RemindKeeps
<1> QED
  BY <1>1, <1>2, <1>3, <1>4, <1>5, <1>6, <1>7, <1>8, <1>9, <1>10, <1>11, <1>12
  DEF NotificationsNext

-----------------------------------------------------------------------------
(* A transaction of a request, a decision, a customer's answer or a        *)
(* reminder is taken down by its e-mails only if a text that was given     *)
(* with it or a setting of the studio is blank or too long.                *)
THEOREM OnlyTextsRefuseMail == NotificationsSpec => []OnlyTextsRefuse
<1>1. MailInv => OnlyTextsRefuse  BY DEF MailInv, MayMisfit, OnlyTextsRefuse
<1> QED  BY <1>1, MailInitInv, MailNextInv, PTL DEF NotificationsSpec

(* An e-mail that says a visit is certain is written in the transaction    *)
(* that makes it so, and names the day it is on, unless it confirms an     *)
(* ordinary booking that was confirmed before.                             *)
THEOREM ClaimsAreTrue == NotificationsSpec => NoFalseClaim
<1>1. MailInv /\ [NotificationsNext]_notificationVars =>
        MailInv' /\ [\A r \in Customers : \A m \in told'[r] \ told[r] : renderOutboxMessage(m) =>
            /\ booking'[r].status \in Booked
            /\ \/ m.when = IF r \in Festivities THEN booking'[r].final ELSE booking'[r].wanted
               \/ ConfirmedAgain(r, m)
          ]_notificationVars
  BY MailNextInv DEF TellsTruth
<1> QED  BY <1>1, MailInitInv, PTL DEF NotificationsSpec, NoFalseClaim

(* However bookings move and links are reused, a customer whose visit is   *)
(* certain and ahead holds a link to cancel or to move it.                 *)
THEOREM LinksOutlastVisits == NotificationsSpec => []LinksLast
<1>1. MailInv => LinksLast
  <2> SUFFICES ASSUME MailInv, NEW r \in Experiences \cup Festivities,
                      booking[r].status \in Booked, day <= Visit(r)
               PROVE  \E m \in told[r] : Permits(m)
    BY DEF LinksLast
  <2>1. r \in Customers /\ MailTypeOK  BY DEF MailInv, Customers
  <2>2. PICK m \in told[r] : m.ends > VisitOf(r, booking[r]) /\ m.template # "party_time_proposed"
    BY <2>1 DEF MailInv, LinkHeld
  <2>3. m \in Mail /\ day \in Int /\ m.ends \in Int  BY <2>1, <2>2 DEF MailTypeOK, Mail
  <2>4. Visit(r) \in Int /\ Visit(r) = VisitOf(r, booking[r])  BY VisitKnown
  <2>5. m.ends > day  BY <2>2, <2>3, <2>4
  <2> QED  BY <2>2, <2>5 DEF Permits
<1> QED  BY <1>1, MailInitInv, MailNextInv, PTL DEF NotificationsSpec
=============================================================================
