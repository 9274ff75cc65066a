--------------------------- MODULE BackOfficeProofs ---------------------------
(***************************************************************************)
(* Accounts for any number of accounts, links and concurrent requests; and *)
(* the tabs of staff for any number of tabs, requests, dialogs, answers    *)
(* under way and changes from elsewhere.                                   *)
(***************************************************************************)
EXTENDS Accounts, StaffDesk, TLAPS

-----------------------------------------------------------------------------
(* Accounts.                                                               *)

Busy(s) == task[s] # NoTask

(* What was decided under the lock of the owners still stands.             *)
DecisionStands ==
    \A s \in Requests : owners = s =>
        /\ Exists(task[s].user)
        /\ (task[s].op = "remove" \/ task[s].role # users[task[s].user].role)
            => ~ SoleOwner(task[s].user)

(* No account returns to a version that a session of it has seen.          *)
SessionsBehind ==
    \A u \in Users : session[u] # NoSession =>
        /\ session[u].version <= users[u].version
        /\ session[u].version = users[u].version => session[u].password = users[u].password

(* A link that works is newer than every other link of its user.           *)
ActiveIsNewest ==
    \A k, l \in Links :
        (links[l].state = "active" /\ links[k].state # "unissued"
            /\ links[k].user = links[l].user /\ k # l)
                => links[k].serial < links[l].serial

LinksBelong ==
    \A l \in Links : links[l].state # "unissued" =>
        links[l].serial < clock /\ users[links[l].user].role # "absent"

(* A row that is locked is still open, and locked once.                    *)
HeldOpen ==
    /\ \A s \in Requests : Busy(s) =>
        \A l \in task[s].held : links[l].state \in {"active", "expired"}
    /\ \A r, s \in Requests : (Busy(r) /\ Busy(s) /\ r # s)
        => task[r].held \cap task[s].held = {}

(* Links are issued for accounts that there are, or were.                  *)
IssuersKnown ==
    \A s \in Requests : Busy(s) /\ task[s].op = "issue" => users[task[s].user].role # "absent"

(* Whoever is about to issue a link is alone and holds all that still work.*)
IssueCovers ==
    \A s \in Requests : Busy(s) /\ task[s].op = "issue" /\ task[s].stage = "holding" =>
        /\ \A l \in Links : (links[l].state = "active" /\ links[l].user = task[s].user)
            => l \in task[s].held
        /\ \A r \in Requests : Issuing(r, task[s].user) => r = s

AccountInv == DecisionStands /\ SessionsBehind /\ OwnerRemains
LinkInv == ActiveIsNewest /\ LinksBelong /\ HeldOpen /\ IssuersKnown /\ IssueCovers
IInv == TypeOK /\ AccountInv /\ LinkInv

-----------------------------------------------------------------------------
LEMMA InitInv == Init => IInv
<1> SUFFICES ASSUME Init  PROVE IInv  OBVIOUS
<1> USE AccountsAssumption DEF Init
<1>1. TypeOK  BY DEF TypeOK, Account, Link, Roles
<1>2. AccountInv  BY DEF AccountInv, DecisionStands, SessionsBehind, OwnerRemains
<1>3. LinkInv  BY DEF LinkInv, ActiveIsNewest, LinksBelong, HeldOpen, IssuersKnown, IssueCovers,
         Busy, Issuing
<1> QED  BY <1>1, <1>2, <1>3 DEF IInv

(* What a request holds, others do not.                                    *)
LEMMA OthersHold ==
    ASSUME NEW s \in Requests, NEW r \in Requests, r # s, Busy(r)
    PROVE  task[r].held \subseteq HeldByOthers(s)
BY DEF HeldByOthers, Busy

(* A request ends: the others go on as they were.                          *)
LEMMA EndFacts ==
    ASSUME TypeOK, NEW s \in Requests, End(s)
    PROVE  /\ task' \in [Requests -> Task \cup {NoTask}]
           /\ owners' \in Requests \cup {Free}
           /\ task'[s] = NoTask
           /\ \A r \in Requests \ {s} : task'[r] = task[r]
           /\ \A r \in Requests : owners' = r => r # s /\ owners = r
           /\ \A r \in Requests :
                (owners' = r) <=> /\ task'[r] # NoTask /\ task'[r].op \in {"role", "remove"}
                                 /\ task'[r].stage = "holding"
<1>1. task' = [task EXCEPT ![s] = NoTask]  BY DEF End
<1>2. /\ task'[s] = NoTask
      /\ \A r \in Requests \ {s} : task'[r] = task[r]
      /\ task' \in [Requests -> Task \cup {NoTask}]
  BY <1>1 DEF TypeOK
<1>3. owners' = IF owners = s THEN Free ELSE owners  BY DEF End
<1>4. \A r \in Requests : owners' = r => r # s /\ owners = r
  BY <1>3, AccountsAssumption
<1>5. \A r \in Requests \ {s} : owners = r => owners' = r
  BY <1>3
<1> QED  BY <1>2, <1>3, <1>4, <1>5, AccountsAssumption DEF TypeOK

(* When a request ends, it may have closed links that nobody else holds.   *)
LEMMA CloseKeepsLinks ==
    ASSUME IInv, NEW s \in Requests, End(s), UNCHANGED clock,
           \A l \in Links :
                /\ links'[l].user = links[l].user /\ links'[l].serial = links[l].serial
                /\ \/ links'[l].state = links[l].state
                   \/ /\ links'[l].state \in {"used", "revoked"}
                      /\ links[l].state # "unissued" /\ l \notin HeldByOthers(s),
           \A u \in Users : users[u].role # "absent" => users'[u].role # "absent"
    PROVE  LinkInv'
<1> USE EndFacts DEF IInv, LinkInv
<1>1. ActiveIsNewest'  BY DEF ActiveIsNewest
<1>2. LinksBelong'  BY DEF LinksBelong, TypeOK, Link
<1>3. \A r \in Requests : Busy(r)' => r # s /\ Busy(r) /\ task'[r] = task[r]
  BY DEF Busy
<1>4. HeldOpen'
  <2>1. \A r \in Requests : Busy(r)' =>
            \A l \in task'[r].held : links'[l].state \in {"active", "expired"}
    <3> SUFFICES ASSUME NEW r \in Requests, Busy(r)', NEW l \in task'[r].held
                 PROVE  links'[l].state \in {"active", "expired"}
      OBVIOUS
    <3>1. r # s /\ Busy(r) /\ l \in task[r].held  BY <1>3
    <3>2. l \in Links  BY <3>1 DEF TypeOK, Task, Busy
    <3>3. l \in HeldByOthers(s)  BY <3>1, OthersHold
    <3>4. links[l].state \in {"active", "expired"}  BY <3>1 DEF HeldOpen
    <3> QED  BY <3>2, <3>3, <3>4
  <2>2. \A q, r \in Requests : (Busy(q)' /\ Busy(r)' /\ q # r)
            => task'[q].held \cap task'[r].held = {}
    BY <1>3 DEF HeldOpen
  <2> QED  BY <2>1, <2>2 DEF HeldOpen
<1>5. \A r \in Requests, v \in Users : Issuing(r, v)' => Issuing(r, v)
  BY <1>3 DEF Issuing, Busy
<1>6. \A r \in Requests : Busy(r) => task[r].user \in Users
  BY DEF TypeOK, Task, Busy
<1>7. IssuersKnown'  BY <1>3, <1>6 DEF IssuersKnown
<1>8. IssueCovers'
  <2> SUFFICES ASSUME NEW r \in Requests, Busy(r)', task'[r].op = "issue",
                      task'[r].stage = "holding"
               PROVE  /\ \A l \in Links :
                            (links'[l].state = "active" /\ links'[l].user = task'[r].user)
                                => l \in task'[r].held
                      /\ \A q \in Requests : Issuing(q, task[r].user)' => q = r
    BY <1>3 DEF IssueCovers
  <2>1. task'[r] = task[r] /\ task[r].user \in Users /\ Busy(r)  BY <1>3, <1>6
  <2>2. /\ \A l \in Links : (links[l].state = "active" /\ links[l].user = task[r].user)
            => l \in task[r].held
        /\ \A q \in Requests : Issuing(q, task[r].user) => q = r
    BY <2>1 DEF IssueCovers
  <2> QED  BY <2>1, <2>2, <1>5
<1> QED  BY <1>1, <1>2, <1>4, <1>7, <1>8

(* The same, and then a link is issued: for an account that has none that  *)
(* works, and for which nobody else issues one.                            *)
LEMMA InsertKeepsLinks ==
    ASSUME IInv, NEW s \in Requests, End(s), NEW l \in Links, NEW u \in Users,
           NEW table \in [Links -> Link], Insert(l, u, table),
           \A k \in Links :
                /\ table[k].user = links[k].user /\ table[k].serial = links[k].serial
                /\ \/ table[k].state = links[k].state
                   \/ /\ table[k].state = "revoked"
                      /\ links[k].state # "unissued" /\ k \notin HeldByOthers(s),
           \A k \in Links : table[k].user = u => table[k].state # "active",
           \A r \in Requests \ {s} : ~ Issuing(r, u),
           users'[u].role # "absent",
           \A v \in Users : users[v].role # "absent" => users'[v].role # "absent"
    PROVE  LinkInv' /\ links' \in [Links -> Link] /\ clock' \in Nat
<1> USE EndFacts DEF IInv, LinkInv
<1>1. /\ links[l].state = "unissued" /\ clock' = clock + 1 /\ clock \in Nat
      /\ links' \in [Links -> Link]
      /\ links'[l].user = u /\ links'[l].serial = clock /\ links'[l].state = "active"
      /\ \A k \in Links \ {l} : links'[k] = table[k]
  <2>1. clock \in Nat  BY DEF TypeOK
  <2>2. [user |-> u, serial |-> clock, state |-> "active"] \in Link  BY <2>1 DEF Link
  <2> QED  BY <2>1, <2>2 DEF Insert
<1>2. \A k \in Links : links[k].serial \in Nat  BY DEF TypeOK, Link
<1>3. \A k \in Links \ {l} :
        links[k].state # "unissued" \/ links'[k].state = "unissued"
  BY <1>1
<1>4. ActiveIsNewest'
  <2> SUFFICES ASSUME NEW k \in Links, NEW m \in Links, links'[m].state = "active",
                      links'[k].state # "unissued", links'[k].user = links'[m].user, k # m
               PROVE  links'[k].serial < links'[m].serial
    BY DEF ActiveIsNewest
  <2>1. CASE m = l
    <3>1. links[k].state # "unissued" /\ links'[k].serial = links[k].serial
      BY <2>1, <1>1, <1>3
    <3> QED  BY <2>1, <3>1, <1>1 DEF LinksBelong
  <2>2. CASE k = l
    BY <2>2, <1>1
  <2>3. CASE m # l /\ k # l
    <3>1. /\ links[m].state = "active" /\ links[k].state # "unissued"
          /\ links[k].user = links[m].user
          /\ links'[k].serial = links[k].serial /\ links'[m].serial = links[m].serial
      BY <2>3, <1>1, <1>3
    <3> QED  BY <3>1 DEF ActiveIsNewest
  <2> QED  BY <2>1, <2>2, <2>3
<1>5. LinksBelong'
  <2>1. links'[l].serial < clock' /\ users'[links'[l].user].role # "absent"  BY <1>1
  <2>2. ASSUME NEW k \in Links \ {l}, links'[k].state # "unissued"
        PROVE  links'[k].serial < clock' /\ users'[links'[k].user].role # "absent"
    <3>1. /\ links[k].state # "unissued" /\ links'[k].serial = links[k].serial
          /\ links'[k].user = links[k].user /\ links[k].user \in Users
      BY <2>2, <1>1, <1>3 DEF TypeOK, Link
    <3> QED  BY <3>1, <1>1, <1>2 DEF LinksBelong
  <2> QED  BY <2>1, <2>2 DEF LinksBelong
<1>6. \A r \in Requests : Busy(r)' => r # s /\ Busy(r) /\ task'[r] = task[r]
  BY DEF Busy
<1>7. HeldOpen'
  <2>1. ASSUME NEW r \in Requests, Busy(r)', NEW k \in task'[r].held
        PROVE  links'[k].state \in {"active", "expired"}
    <3>1. r # s /\ Busy(r) /\ k \in task[r].held  BY <1>6, <2>1
    <3>2. k \in Links  BY <3>1 DEF TypeOK, Task, Busy
    <3>3. k \in HeldByOthers(s)  BY <3>1, OthersHold
    <3>4. links[k].state \in {"active", "expired"}  BY <3>1 DEF HeldOpen
    <3>5. k # l  BY <3>4, <1>1
    <3> QED  BY <3>2, <3>3, <3>4, <3>5, <1>1
  <2>2. \A q, r \in Requests : (Busy(q)' /\ Busy(r)' /\ q # r)
            => task'[q].held \cap task'[r].held = {}
    BY <1>6 DEF HeldOpen
  <2> QED  BY <2>1, <2>2 DEF HeldOpen
<1>8. \A r \in Requests, v \in Users : Issuing(r, v)' => Issuing(r, v)
  BY <1>6 DEF Issuing, Busy
<1>9. \A r \in Requests : Busy(r) => task[r].user \in Users
  BY DEF TypeOK, Task, Busy
<1>10. IssuersKnown'  BY <1>6, <1>9 DEF IssuersKnown
<1>11. IssueCovers'
  <2> SUFFICES ASSUME NEW r \in Requests, Busy(r)', task'[r].op = "issue",
                      task'[r].stage = "holding"
               PROVE  /\ \A k \in Links :
                            (links'[k].state = "active" /\ links'[k].user = task'[r].user)
                                => k \in task'[r].held
                      /\ \A q \in Requests : Issuing(q, task[r].user)' => q = r
    BY <1>6 DEF IssueCovers
  <2>1. r # s /\ task'[r] = task[r] /\ task[r].user \in Users /\ Busy(r)  BY <1>6, <1>9
  <2>2. /\ \A k \in Links : (links[k].state = "active" /\ links[k].user = task[r].user)
            => k \in task[r].held
        /\ \A q \in Requests : Issuing(q, task[r].user) => q = r
    BY <2>1 DEF IssueCovers
  <2>3. task[r].user # u  BY <2>1 DEF Issuing, Busy
  <2>4. \A k \in Links : (links'[k].state = "active" /\ links'[k].user = task[r].user)
            => links[k].state = "active" /\ links[k].user = task[r].user
    BY <2>3, <1>1
  <2> QED  BY <2>1, <2>2, <2>4, <1>8
<1> QED  BY <1>1, <1>4, <1>5, <1>7, <1>10, <1>11

LEMMA LoginInv ==
    ASSUME IInv, NEW u \in Users, Login(u)
    PROVE  IInv'
<1> USE DEF IInv, Login
<1>1. session'[u] = [role |-> users[u].role, version |-> users[u].version,
                     password |-> users[u].password]
      /\ session'[u] \in Session
  BY DEF TypeOK, Account, Session, Exists
<1>2. \A v \in Users \ {u} : session'[v] = session[v]
  BY DEF TypeOK
<1>3. session' \in [Users -> Session \cup {NoSession}]
  BY <1>1 DEF TypeOK
<1>4. TypeOK'  BY <1>3 DEF TypeOK
<1>5. SessionsBehind'  BY <1>1, <1>2 DEF SessionsBehind, TypeOK, Account, AccountInv
<1>6. DecisionStands' /\ OwnerRemains'
  BY DEF AccountInv, DecisionStands, OwnerRemains, SoleOwner, Exists
<1>7. LinkInv'
  BY DEF LinkInv, ActiveIsNewest, LinksBelong, HeldOpen, IssuersKnown, IssueCovers,
         Busy, Issuing
<1> QED  BY <1>4, <1>5, <1>6, <1>7 DEF AccountInv

LEMMA AbortInv ==
    ASSUME IInv, NEW s \in Requests, Abort(s)
    PROVE  IInv'
<1> USE EndFacts DEF IInv, Abort
<1>1. TypeOK'  BY DEF TypeOK
<1>2. AccountInv'
  BY DEF AccountInv, DecisionStands, SessionsBehind, OwnerRemains, SoleOwner, Exists
<1>3. LinkInv'  BY CloseKeepsLinks
<1> QED  BY <1>1, <1>2, <1>3

(* A request starts; a setup starts with its link locked.                  *)
LEMMA BeginInv ==
    ASSUME IInv, NEW s \in Requests, NEW op, NEW u \in Users, NEW by \in Roles,
           NEW role \in Roles, NEW stage, NEW held \in SUBSET Links,
           Begin(s, op, u, by, role, stage, held),
           \/ /\ op \in {"role", "remove", "create", "issue", "change"}
              /\ stage = "begun" /\ held = {}
              /\ op = "issue" => Exists(u)
           \/ /\ op = "setup" /\ stage = "holding"
              /\ \A l \in held : links[l].state = "active" /\ l \notin HeldByOthers(s)
    PROVE  IInv'
<1> DEFINE t == [op |-> op, user |-> u, by |-> by, role |-> role,
                 seen |-> users[u].version, stage |-> stage, held |-> held]
<1>1. t \in Task  BY DEF IInv, TypeOK, Account, Task
<1>2. task' = [task EXCEPT ![s] = t] /\ task[s] = NoTask
      /\ UNCHANGED <<users, links, clock, session, owners>>
  BY DEF Begin
<1>3. t.op = op /\ t.user = u /\ t.stage = stage /\ t.held = held
  OBVIOUS
<1> HIDE DEF t
<1>4. /\ task' \in [Requests -> Task \cup {NoTask}]
      /\ task'[s] = t /\ t # NoTask
      /\ \A r \in Requests \ {s} : task'[r] = task[r]
  BY <1>1, <1>2, NothingAssumption DEF IInv, TypeOK
<1>5. owners # s  BY <1>2 DEF IInv, TypeOK
<1>6. TypeOK'
  <2>1. \A r \in Requests : (owners' = r) <=>
            /\ task'[r] # NoTask /\ task'[r].op \in {"role", "remove"}
            /\ task'[r].stage = "holding"
    BY <1>2, <1>3, <1>4, <1>5 DEF IInv, TypeOK
  <2> QED  BY <1>2, <1>4, <2>1 DEF IInv, TypeOK
<1>7. AccountInv'
  BY <1>2, <1>4, <1>5
     DEF IInv, AccountInv, DecisionStands, SessionsBehind, OwnerRemains, SoleOwner, Exists
<1>8. ActiveIsNewest' /\ LinksBelong'
  BY <1>2 DEF IInv, LinkInv, ActiveIsNewest, LinksBelong
<1>9. HeldOpen'
  <2>1. \A l \in held : links'[l].state \in {"active", "expired"}  BY <1>2
  <2>2. \A r \in Requests \ {s} : Busy(r)' =>
            Busy(r) /\ task'[r] = task[r] /\ task[r].held \cap held = {}
    BY <1>4, OthersHold DEF Busy
  <2> QED  BY <1>2, <1>3, <1>4, <2>1, <2>2 DEF IInv, LinkInv, HeldOpen
<1>10. IssueCovers'
  <2>1. \A r \in Requests : (Busy(r)' /\ task'[r].op = "issue" /\ task'[r].stage = "holding")
            => r # s /\ Busy(r) /\ task'[r] = task[r]
    BY <1>3, <1>4 DEF Busy
  <2>2. \A r \in Requests, v \in Users : Issuing(r, v)' => Issuing(r, v)
    BY <2>1 DEF Issuing, Busy
  <2>3. \A r \in Requests : Busy(r) => task[r].user \in Users
    BY DEF IInv, TypeOK, Task, Busy
  <2> QED  BY <1>2, <2>1, <2>2, <2>3 DEF IInv, LinkInv, IssueCovers
<1>11. IssuersKnown'
  <2>1. op = "issue" => users[u].role # "absent"  BY DEF Exists, Roles
  <2>2. \A r \in Requests \ {s} : Busy(r)' => Busy(r) /\ task'[r] = task[r]
    BY <1>4 DEF Busy
  <2> QED  BY <1>2, <1>3, <1>4, <2>1, <2>2 DEF IInv, LinkInv, IssuersKnown
<1> QED  BY <1>6, <1>7, <1>8, <1>9, <1>10, <1>11 DEF IInv, LinkInv

LEMMA AskInv ==
    ASSUME IInv, NEW s \in Requests, Ask(s)
    PROVE  IInv'
<1>1. \A a \in Users : Admin(a) => session[a].role \in Roles
  BY DEF IInv, TypeOK, Session, Admin, Current
<1> "staff" \in Roles /\ {} \in SUBSET Links  BY DEF Roles
<1>2. ASSUME NEW a \in Users, NEW u \in Users, BeginRemove(s, a, u)  PROVE IInv'
  BY <1>1, <1>2, BeginInv DEF BeginRemove
<1>3. ASSUME NEW a \in Users, NEW u \in Users, NEW role \in Roles, BeginRole(s, a, u, role)
      PROVE  IInv'
  BY <1>1, <1>3, BeginInv DEF BeginRole
<1>4. ASSUME NEW a \in Users, NEW u \in Users, NEW role \in Roles, BeginCreate(s, a, u, role)
      PROVE  IInv'
  BY <1>1, <1>4, BeginInv DEF BeginCreate
<1>5. ASSUME NEW u \in Users, BeginIssue(s, u)  PROVE IInv'
  BY <1>5, BeginInv DEF BeginIssue
<1>6. ASSUME NEW u \in Users, BeginChange(s, u)  PROVE IInv'
  <2>1. session[u].role \in Roles
    BY <1>6 DEF BeginChange, Current, IInv, TypeOK, Session
  <2> QED  BY <1>6, <2>1, BeginInv DEF BeginChange
<1>7. ASSUME NEW l \in Links, BeginSetup(s, l)  PROVE IInv'
  <2>1. links[l].user \in Users /\ {l} \in SUBSET Links /\ "staff" \in Roles
    BY DEF IInv, TypeOK, Link, Roles
  <2> QED  BY <1>7, <2>1, BeginInv DEF BeginSetup
<1> QED  BY <1>2, <1>3, <1>4, <1>5, <1>6, <1>7 DEF Ask

LEMMA LockOwnersInv ==
    ASSUME IInv, NEW s \in Requests, LockOwners(s)
    PROVE  IInv'
<1> DEFINE t == task[s]
<1>1. /\ owners = Free /\ t # NoTask /\ t.op \in {"role", "remove"} /\ t.stage = "begun"
      /\ Exists(t.user) /\ (t.op = "remove" \/ t.role # users[t.user].role => ~ SoleOwner(t.user))
      /\ task' = [task EXCEPT ![s].stage = "holding", ![s].seen = users[t.user].version]
      /\ owners' = s /\ UNCHANGED <<users, links, clock, session>>
  BY DEF LockOwners, Decide
<1>2. t \in Task /\ t.user \in Users  BY <1>1 DEF IInv, TypeOK, Task
<1>3. task'[s] = [t EXCEPT !.stage = "holding", !.seen = users[t.user].version]
      /\ \A r \in Requests \ {s} : task'[r] = task[r]
      /\ DOMAIN task' = Requests
  BY <1>1 DEF IInv, TypeOK
<1>4. /\ task'[s].op = t.op /\ task'[s].user = t.user /\ task'[s].role = t.role
      /\ task'[s].held = t.held /\ task'[s].stage = "holding" /\ task'[s] \in Task
  <2>1. users[t.user].version \in Nat  BY <1>2 DEF IInv, TypeOK, Account
  <2> QED  BY <1>2, <1>3, <2>1 DEF Task
<1>5. task'[s] # NoTask  BY <1>4, NothingAssumption
<1>6. task' \in [Requests -> Task \cup {NoTask}]
  BY <1>1, <1>3, <1>4 DEF IInv, TypeOK
<1>7. \A r \in Requests \ {s} : owners # r /\ owners' # r
  BY <1>1, AccountsAssumption
<1>8. TypeOK'
  <2>1. \A r \in Requests : (owners' = r) <=>
            /\ task'[r] # NoTask /\ task'[r].op \in {"role", "remove"}
            /\ task'[r].stage = "holding"
    BY <1>1, <1>3, <1>4, <1>5, <1>7 DEF IInv, TypeOK
  <2> QED  BY <1>1, <1>6, <2>1 DEF IInv, TypeOK
<1>9. AccountInv'
  <2>1. DecisionStands'
    BY <1>1, <1>4, <1>7 DEF DecisionStands, Exists, SoleOwner
  <2> QED  BY <1>1, <2>1 DEF IInv, AccountInv, SessionsBehind, OwnerRemains
<1>10. ActiveIsNewest' /\ LinksBelong'
  BY <1>1 DEF IInv, LinkInv, ActiveIsNewest, LinksBelong
<1>11. \A r \in Requests : Busy(r)' => Busy(r) /\ task'[r].held = task[r].held
  BY <1>1, <1>3, <1>4 DEF Busy
<1>12. HeldOpen'  BY <1>1, <1>11 DEF IInv, LinkInv, HeldOpen
<1>13. IssueCovers'
  <2>1. \A r \in Requests : (Busy(r)' /\ task'[r].op = "issue" /\ task'[r].stage = "holding")
            => r # s /\ Busy(r) /\ task'[r] = task[r]
    BY <1>1, <1>3, <1>4 DEF Busy
  <2>2. \A r \in Requests, v \in Users : Issuing(r, v)' => Issuing(r, v)
    BY <2>1 DEF Issuing, Busy
  <2>3. \A r \in Requests : Busy(r) => task[r].user \in Users
    BY DEF IInv, TypeOK, Task, Busy
  <2> QED  BY <1>1, <2>1, <2>2, <2>3 DEF IInv, LinkInv, IssueCovers
<1>14. IssuersKnown'
  <2>1. \A r \in Requests : Busy(r)' =>
            Busy(r) /\ task'[r].op = task[r].op /\ task'[r].user = task[r].user
    BY <1>1, <1>3, <1>4 DEF Busy
  <2> QED  BY <1>1, <2>1 DEF IInv, LinkInv, IssuersKnown
<1> QED  BY <1>8, <1>9, <1>10, <1>12, <1>13, <1>14 DEF IInv, LinkInv

(* A new version of an account: its sessions are behind it.                *)
LEMMA BumpFacts ==
    ASSUME TypeOK, NEW u \in Users, NEW role \in Roles \cup {"absent", "removed"},
           NEW password \in Nat,
           users' = [users EXCEPT ![u] =
                [role |-> role, version |-> users[u].version + 1, password |-> password]]
    PROVE  /\ users' \in [Users -> Account]
           /\ users'[u].role = role
           /\ users'[u].version = users[u].version + 1
           /\ users'[u].password = password
           /\ \A v \in Users \ {u} : users'[v] = users[v]
<1>1. users[u].version \in Nat  BY DEF TypeOK, Account
<1>2. [role |-> role, version |-> users[u].version + 1, password |-> password] \in Account
  BY <1>1 DEF Account
<1> QED  BY <1>2 DEF TypeOK

LEMMA BumpKeepsSessions ==
    ASSUME TypeOK, SessionsBehind, NEW u \in Users, UNCHANGED session,
           users'[u].version = users[u].version + 1,
           \A v \in Users \ {u} : users'[v] = users[v]
    PROVE  SessionsBehind'
<1>1. users[u].version \in Nat  BY DEF TypeOK, Account
<1>2. \A v \in Users : session[v] # NoSession => session[v].version \in Nat
  BY DEF TypeOK, Session
<1> QED  BY <1>1, <1>2 DEF SessionsBehind

LEMMA CommitRoleInv ==
    ASSUME IInv, NEW s \in Requests, CommitRole(s)
    PROVE  IInv'
<1> DEFINE t == task[s]
<1>1. t # NoTask /\ t.op = "role" /\ t.stage = "holding" /\ End(s)
      /\ UNCHANGED <<links, clock, session>>
  BY DEF CommitRole
<1>2. t \in Task /\ t.user \in Users /\ t.role \in Roles
  BY <1>1 DEF IInv, TypeOK, Task
<1>3. users[t.user].password \in Nat  BY <1>2 DEF IInv, TypeOK, Account
<1>4. users' = [users EXCEPT ![t.user] =
            [role |-> t.role, version |-> users[t.user].version + 1,
             password |-> users[t.user].password]]
  BY <1>2 DEF CommitRole, Bumped, IInv, TypeOK
<1>5. /\ users' \in [Users -> Account]
      /\ users'[t.user].role = t.role
      /\ users'[t.user].version = users[t.user].version + 1
      /\ \A v \in Users \ {t.user} : users'[v] = users[v]
  BY <1>1, <1>2, <1>3, <1>4, BumpFacts DEF IInv
<1>6. TypeOK'  BY <1>1, <1>5, EndFacts DEF IInv, TypeOK
<1>7. owners = s  BY <1>1 DEF IInv, TypeOK
<1>8. DecisionStands'  BY <1>1, <1>7, EndFacts DEF DecisionStands, IInv
<1>9. OwnerRemains'
  <2>1. t.role # users[t.user].role => ~ SoleOwner(t.user)
    BY <1>7 DEF IInv, AccountInv, DecisionStands
  <2> QED  BY <1>2, <1>5, <2>1 DEF IInv, AccountInv, OwnerRemains, SoleOwner
<1>10. SessionsBehind'  BY <1>1, <1>2, <1>5, BumpKeepsSessions DEF IInv, AccountInv
<1>11. t.role # "absent"  BY <1>2 DEF Roles
<1>12. LinkInv'  BY <1>1, <1>2, <1>5, <1>11, CloseKeepsLinks
<1> QED  BY <1>6, <1>8, <1>9, <1>10, <1>12 DEF IInv, AccountInv

(* Links that are revoked keep their user and their place in the order.    *)
LEMMA RevokedFacts ==
    ASSUME TypeOK, NEW ls \in SUBSET Links
    PROVE  /\ Revoked(ls) \in [Links -> Link]
           /\ \A l \in ls : /\ Revoked(ls)[l].state = "revoked"
                            /\ Revoked(ls)[l].user = links[l].user
                            /\ Revoked(ls)[l].serial = links[l].serial
           /\ \A l \in Links \ ls : Revoked(ls)[l] = links[l]
<1>1. \A l \in Links : links[l] \in Link  BY DEF TypeOK
<1>2. \A l \in Links : /\ [links[l] EXCEPT !.state = "revoked"] \in Link
                       /\ [links[l] EXCEPT !.state = "revoked"].state = "revoked"
                       /\ [links[l] EXCEPT !.state = "revoked"].user = links[l].user
                       /\ [links[l] EXCEPT !.state = "revoked"].serial = links[l].serial
  BY <1>1 DEF Link
<1> QED  BY <1>1, <1>2 DEF Revoked

LEMMA CommitRemoveInv ==
    ASSUME IInv, NEW s \in Requests, CommitRemove(s)
    PROVE  IInv'
<1> DEFINE t == task[s]
           u == t.user
<1>1. /\ t # NoTask /\ t.op = "remove" /\ t.stage = "holding" /\ End(s)
      /\ UNCHANGED <<clock, session>>
      /\ IssuedTo(u) \cap HeldByOthers(s) = {}
      /\ links' = Revoked(OpenLinks(u))
  BY DEF CommitRemove
<1>2. u \in Users  BY <1>1 DEF IInv, TypeOK, Task
<1>3. users' = [users EXCEPT ![u].role = "removed"]  BY DEF CommitRemove
<1>4. /\ users' \in [Users -> Account]
      /\ users'[u].role = "removed" /\ users'[u].version = users[u].version
      /\ users'[u].password = users[u].password
      /\ \A v \in Users \ {u} : users'[v] = users[v]
  <2>1. users[u] \in Account  BY <1>2 DEF IInv, TypeOK
  <2>2. /\ [users[u] EXCEPT !.role = "removed"] \in Account
        /\ [users[u] EXCEPT !.role = "removed"].role = "removed"
        /\ [users[u] EXCEPT !.role = "removed"].version = users[u].version
        /\ [users[u] EXCEPT !.role = "removed"].password = users[u].password
    BY <2>1 DEF Account
  <2> QED  BY <1>2, <1>3, <2>2 DEF IInv, TypeOK
<1>5. OpenLinks(u) \in SUBSET Links  BY DEF OpenLinks, IssuedTo
<1>6. TypeOK'  BY <1>1, <1>4, <1>5, EndFacts, RevokedFacts DEF IInv, TypeOK
<1>7. owners = s  BY <1>1 DEF IInv, TypeOK
<1>8. DecisionStands'  BY <1>1, <1>7, EndFacts DEF DecisionStands, IInv
<1>9. OwnerRemains'
  <2>1. ~ SoleOwner(u)
    BY <1>1, <1>7 DEF IInv, AccountInv, DecisionStands
  <2> QED  BY <1>2, <1>4, <2>1 DEF IInv, AccountInv, OwnerRemains, SoleOwner
<1>10. SessionsBehind'  BY <1>1, <1>4 DEF IInv, AccountInv, SessionsBehind
<1>11. \A l \in Links :
        /\ links'[l].user = links[l].user /\ links'[l].serial = links[l].serial
        /\ \/ links'[l].state = links[l].state
           \/ /\ links'[l].state \in {"used", "revoked"}
              /\ links[l].state # "unissued" /\ l \notin HeldByOthers(s)
  <2>1. \A l \in OpenLinks(u) : links[l].state # "unissued" /\ l \notin HeldByOthers(s)
    BY <1>1 DEF OpenLinks, IssuedTo
  <2> QED  BY <1>1, <1>5, <2>1, RevokedFacts DEF IInv
<1>12. LinkInv'  BY <1>1, <1>4, <1>11, CloseKeepsLinks
<1> QED  BY <1>6, <1>8, <1>9, <1>10, <1>12 DEF IInv, AccountInv

LEMMA CommitCreateInv ==
    ASSUME IInv, NEW s \in Requests, CommitCreate(s)
    PROVE  IInv'
<1> DEFINE t == task[s]
           u == t.user
<1>1. /\ t # NoTask /\ t.op = "create" /\ users[u].role = "absent" /\ End(s)
      /\ UNCHANGED session /\ users' = [users EXCEPT ![u].role = t.role]
      /\ \E l \in Links : Insert(l, u, links)
  BY DEF CommitCreate
<1>2. u \in Users /\ t.role \in Roles  BY <1>1 DEF IInv, TypeOK, Task
<1>3. /\ users' \in [Users -> Account]
      /\ users'[u].role = t.role /\ users'[u].version = users[u].version
      /\ users'[u].password = users[u].password
      /\ \A v \in Users \ {u} : users'[v] = users[v]
  <2>1. users[u] \in Account  BY <1>2 DEF IInv, TypeOK
  <2>2. ASSUME NEW role \in Roles
        PROVE  /\ [users[u] EXCEPT !.role = role] \in Account
               /\ [users[u] EXCEPT !.role = role].role = role
               /\ [users[u] EXCEPT !.role = role].version = users[u].version
               /\ [users[u] EXCEPT !.role = role].password = users[u].password
    BY <2>1 DEF Account
  <2> QED  BY <1>1, <1>2, <2>2 DEF IInv, TypeOK
<1>4. t.role # "absent" /\ ~ Exists(u)  BY <1>1, <1>2 DEF Roles, Exists
<1>5. PICK l \in Links : Insert(l, u, links)  BY <1>1
<1>6. LinkInv' /\ links' \in [Links -> Link] /\ clock' \in Nat
  <2>1. links \in [Links -> Link]  BY DEF IInv, TypeOK
  <2>2. \A k \in Links : links[k].user = u => links[k].state # "active"
    BY <1>1 DEF IInv, LinkInv, LinksBelong
  <2>3. \A r \in Requests \ {s} : ~ Issuing(r, u)
    BY <1>1 DEF IInv, LinkInv, IssuersKnown, Issuing, Busy
  <2> QED  BY <1>1, <1>2, <1>3, <1>4, <1>5, <2>1, <2>2, <2>3, InsertKeepsLinks
<1>7. TypeOK'  BY <1>1, <1>3, <1>6, EndFacts DEF IInv, TypeOK
<1>8. DecisionStands'
  <2>1. ASSUME NEW v \in Users, Exists(v)
        PROVE  users'[v] = users[v] /\ Exists(v)' /\ (SoleOwner(v)' => SoleOwner(v))
    <3>1. v # u  BY <2>1, <1>4
    <3>2. users'[v] = users[v]  BY <3>1, <1>3
    <3>3. \A w \in Users : users[w].role = "owner" => users'[w].role = "owner"
      BY <1>1, <1>3
    <3> QED  BY <2>1, <3>2, <3>3 DEF Exists, SoleOwner
  <2>2. ASSUME NEW r \in Requests, owners' = r
        PROVE  owners = r /\ task'[r] = task[r] /\ task[r].user \in Users
    <3>1. r # s /\ owners = r /\ task'[r] = task[r]  BY <1>1, <2>2, EndFacts DEF IInv
    <3>2. task[r] \in Task  BY <3>1 DEF IInv, TypeOK
    <3> QED  BY <3>1, <3>2 DEF Task
  <2> QED  BY <2>1, <2>2 DEF IInv, AccountInv, DecisionStands
<1>9. OwnerRemains'  BY <1>1, <1>3 DEF IInv, AccountInv, OwnerRemains
<1>10. SessionsBehind'  BY <1>1, <1>3 DEF IInv, AccountInv, SessionsBehind
<1> QED  BY <1>6, <1>7, <1>8, <1>9, <1>10 DEF IInv, AccountInv

LEMMA RevokeInv ==
    ASSUME IInv, NEW s \in Requests, Revoke(s)
    PROVE  IInv'
<1> DEFINE t == task[s]
           u == t.user
<1>1. /\ t # NoTask /\ t.op = "issue" /\ t.stage = "begun"
      /\ OpenLinks(u) \cap HeldByOthers(s) = {}
      /\ task' = [task EXCEPT ![s].stage = "holding", ![s].held = OpenLinks(u)]
      /\ UNCHANGED <<users, links, clock, session, owners>>
      /\ \A r \in Requests \ {s} : ~ Issuing(r, u)
  BY DEF Revoke, RevokeOpen
<1>2. t \in Task /\ u \in Users  BY <1>1 DEF IInv, TypeOK, Task
<1>3. OpenLinks(u) \in SUBSET Links  BY DEF OpenLinks, IssuedTo
<1>4. task'[s] = [t EXCEPT !.stage = "holding", !.held = OpenLinks(u)]
      /\ \A r \in Requests \ {s} : task'[r] = task[r]
      /\ DOMAIN task' = Requests
  BY <1>1 DEF IInv, TypeOK
<1>5. /\ task'[s].op = t.op /\ task'[s].user = u /\ task'[s].role = t.role
      /\ task'[s].held = OpenLinks(u) /\ task'[s].stage = "holding" /\ task'[s] \in Task
  <2>1. ASSUME NEW ls \in SUBSET Links, task'[s] = [t EXCEPT !.stage = "holding", !.held = ls]
        PROVE  /\ task'[s].op = t.op /\ task'[s].user = u /\ task'[s].role = t.role
               /\ task'[s].held = ls /\ task'[s].stage = "holding" /\ task'[s] \in Task
    BY <1>2, <2>1 DEF Task
  <2> QED  BY <1>3, <1>4, <2>1
<1>6. task'[s] # NoTask  BY <1>5, NothingAssumption
<1>7. task' \in [Requests -> Task \cup {NoTask}]
  BY <1>1, <1>4, <1>5 DEF IInv, TypeOK
<1>8. owners # s  BY <1>1 DEF IInv, TypeOK
<1>9. TypeOK'
  <2>1. \A r \in Requests : (owners' = r) <=>
            /\ task'[r] # NoTask /\ task'[r].op \in {"role", "remove"}
            /\ task'[r].stage = "holding"
    BY <1>1, <1>4, <1>5, <1>8 DEF IInv, TypeOK
  <2> QED  BY <1>1, <1>7, <2>1 DEF IInv, TypeOK
<1>10. AccountInv'
  BY <1>1, <1>4, <1>8
     DEF IInv, AccountInv, DecisionStands, SessionsBehind, OwnerRemains, SoleOwner, Exists
<1>11. ActiveIsNewest' /\ LinksBelong'
  BY <1>1 DEF IInv, LinkInv, ActiveIsNewest, LinksBelong
<1>12. \A r \in Requests \ {s} : Busy(r)' =>
            Busy(r) /\ task'[r] = task[r] /\ task[r].held \cap OpenLinks(u) = {}
  BY <1>1, <1>4, OthersHold DEF Busy
<1>13. HeldOpen'
  <2>1. \A l \in OpenLinks(u) : links'[l].state \in {"active", "expired"}
    BY <1>1 DEF OpenLinks
  <2>2. \A r \in Requests : Busy(r)' =>
            \A l \in task'[r].held : links'[l].state \in {"active", "expired"}
    <3>1. ASSUME NEW r \in Requests \ {s}, Busy(r)', NEW l \in task'[r].held
          PROVE  links'[l].state \in {"active", "expired"}
      <4>1. Busy(r) /\ l \in task[r].held /\ links' = links  BY <1>1, <1>12, <3>1
      <4> QED  BY <4>1 DEF IInv, LinkInv, HeldOpen
    <3>2. \A l \in task'[s].held : links'[l].state \in {"active", "expired"}
      BY <1>5, <2>1
    <3> QED  BY <3>1, <3>2
  <2>3. ASSUME NEW q \in Requests, NEW r \in Requests, Busy(q)', Busy(r)', q # r
        PROVE  task'[q].held \cap task'[r].held = {}
    <3>1. CASE q # s /\ r # s  BY <1>12, <2>3, <3>1 DEF IInv, LinkInv, HeldOpen
    <3>2. CASE q = s  BY <1>5, <1>12, <2>3, <3>2
    <3>3. CASE r = s  BY <1>5, <1>12, <2>3, <3>3
    <3> QED  BY <3>1, <3>2, <3>3
  <2> QED  BY <2>2, <2>3 DEF HeldOpen
<1>14. Busy(s)  BY <1>1 DEF Busy
<1>15. IssuersKnown'
  BY <1>1, <1>5, <1>12, <1>14 DEF IInv, LinkInv, IssuersKnown
<1>16. \A r \in Requests : Busy(r) => task[r].user \in Users
  BY DEF IInv, TypeOK, Task, Busy
<1>17. \A r \in Requests, v \in Users : Issuing(r, v)' => Issuing(r, v) \/ (r = s /\ v = u)
  BY <1>5, <1>12 DEF Issuing, Busy
<1>18. IssueCovers'
  <2>1. ASSUME NEW l \in Links, links'[l].state = "active", links'[l].user = u
        PROVE  l \in OpenLinks(u)
    BY <1>1, <2>1 DEF OpenLinks, IssuedTo
  <2>2. ASSUME NEW v \in Users, v = u, NEW q \in Requests, Issuing(q, v)'
        PROVE  q = s
    <3>1. Issuing(q, v) => q = s  BY <1>1, <2>2
    <3> QED  BY <1>17, <2>2, <3>1
  <2>3. ASSUME NEW r \in Requests \ {s}, Busy(r)', task'[r].op = "issue",
               task'[r].stage = "holding"
        PROVE  /\ \A l \in Links : (links'[l].state = "active" /\ links'[l].user = task'[r].user)
                    => l \in task'[r].held
               /\ \A q \in Requests : Issuing(q, task[r].user)' => q = r
    <3>1. /\ Busy(r) /\ task'[r] = task[r] /\ task[r].user \in Users
          /\ task[r].op = "issue" /\ task[r].stage = "holding"
      BY <1>12, <1>16, <2>3
    <3>2. task[r].user # u  BY <1>1, <3>1 DEF Issuing, Busy
    <3>3. \A q \in Requests : Issuing(q, task[r].user)' => Issuing(q, task[r].user)
      <4>1. ASSUME NEW v \in Users, v # u, NEW q \in Requests, Issuing(q, v)'
            PROVE  Issuing(q, v)
        BY <1>17, <4>1
      <4> QED  BY <3>1, <3>2, <4>1
    <3>4. /\ \A l \in Links : (links[l].state = "active" /\ links[l].user = task[r].user)
                => l \in task[r].held
          /\ \A q \in Requests : Issuing(q, task[r].user) => q = r
      BY <3>1 DEF IInv, LinkInv, IssueCovers
    <3> QED  BY <1>1, <3>1, <3>3, <3>4
  <2>4. /\ \A l \in Links : (links'[l].state = "active" /\ links'[l].user = task'[s].user)
            => l \in task'[s].held
        /\ \A q \in Requests : Issuing(q, task[s].user)' => q = s
    BY <1>2, <1>5, <2>1, <2>2
  <2> QED  BY <2>3, <2>4 DEF IssueCovers
<1> QED  BY <1>9, <1>10, <1>11, <1>13, <1>15, <1>18 DEF IInv, LinkInv

LEMMA CommitIssueInv ==
    ASSUME IInv, NEW s \in Requests, CommitIssue(s)
    PROVE  IInv'
<1> DEFINE t == task[s]
           u == t.user
<1>1. /\ t # NoTask /\ t.op = "issue" /\ t.stage = "holding" /\ Exists(u) /\ End(s)
      /\ UNCHANGED <<users, session>>
      /\ \E l \in Links : Insert(l, u, Revoked(t.held))
  BY DEF CommitIssue
<1>2. u \in Users /\ t.held \in SUBSET Links  BY <1>1 DEF IInv, TypeOK, Task
<1>3. PICK l \in Links : Insert(l, u, Revoked(t.held))  BY <1>1
<1>4. \A k \in t.held : links[k].state \in {"active", "expired"} /\ k \notin HeldByOthers(s)
  BY <1>1 DEF IInv, LinkInv, HeldOpen, HeldByOthers, Busy
<1>5. \A k \in Links : (links[k].state = "active" /\ links[k].user = u) => k \in t.held
  BY <1>1 DEF IInv, LinkInv, IssueCovers, Busy
<1>6. \A r \in Requests \ {s} : ~ Issuing(r, u)
  BY <1>1 DEF IInv, LinkInv, IssueCovers, Busy
<1>7. LinkInv' /\ links' \in [Links -> Link] /\ clock' \in Nat
  <2> DEFINE table == Revoked(t.held)
  <2>1. /\ table \in [Links -> Link]
        /\ \A k \in t.held : /\ table[k].state = "revoked" /\ table[k].user = links[k].user
                             /\ table[k].serial = links[k].serial
        /\ \A k \in Links \ t.held : table[k] = links[k]
    BY <1>2, RevokedFacts DEF IInv
  <2>2. Insert(l, u, table)  BY <1>3
  <2>3. users'[u].role # "absent"  BY <1>1 DEF Exists, Roles
  <2> HIDE DEF table
  <2>4. \A k \in Links :
            /\ table[k].user = links[k].user /\ table[k].serial = links[k].serial
            /\ \/ table[k].state = links[k].state
               \/ /\ table[k].state = "revoked"
                  /\ links[k].state # "unissued" /\ k \notin HeldByOthers(s)
    BY <1>4, <2>1
  <2>5. \A k \in Links : table[k].user = u => table[k].state # "active"
    BY <1>5, <2>1
  <2> QED  BY <1>1, <1>2, <1>6, <2>1, <2>2, <2>3, <2>4, <2>5, InsertKeepsLinks
<1>8. TypeOK'  BY <1>1, <1>7, EndFacts DEF IInv, TypeOK
<1>9. AccountInv'
  BY <1>1, EndFacts
     DEF IInv, AccountInv, DecisionStands, SessionsBehind, OwnerRemains, SoleOwner, Exists
<1> QED  BY <1>7, <1>8, <1>9 DEF IInv

(* A new password makes a new version, and leaves roles alone.             *)
LEMMA NewPasswordFacts ==
    ASSUME IInv, NEW s \in Requests, task[s] # NoTask, NewPassword(s), End(s),
           UNCHANGED session
    PROVE  /\ users' \in [Users -> Account]
           /\ \A u \in Users : users'[u].role = users[u].role
           /\ AccountInv'
<1> DEFINE u == task[s].user
<1>1. u \in Users  BY DEF IInv, TypeOK, Task
<1>2. users[u].password + 1 \in Nat /\ users[u].role \in Roles \cup {"absent", "removed"}
  BY <1>1 DEF IInv, TypeOK, Account
<1>3. users' = [users EXCEPT ![u] =
            [role |-> users[u].role, version |-> users[u].version + 1,
             password |-> users[u].password + 1]]
  BY <1>1 DEF NewPassword, Bumped, IInv, TypeOK
<1>4. /\ users' \in [Users -> Account]
      /\ users'[u].role = users[u].role
      /\ users'[u].version = users[u].version + 1
      /\ \A v \in Users \ {u} : users'[v] = users[v]
  BY <1>1, <1>2, <1>3, BumpFacts DEF IInv
<1>5. \A v \in Users : users'[v].role = users[v].role  BY <1>4
<1>6. SessionsBehind'  BY <1>1, <1>4, BumpKeepsSessions DEF IInv, AccountInv
<1>7. OwnerRemains'  BY <1>5 DEF IInv, AccountInv, OwnerRemains
<1>8. DecisionStands'
  <2>1. \A v \in Users : (Exists(v)' <=> Exists(v)) /\ (SoleOwner(v)' <=> SoleOwner(v))
    BY <1>5 DEF Exists, SoleOwner
  <2>2. ASSUME NEW r \in Requests, owners' = r
        PROVE  owners = r /\ task'[r] = task[r] /\ task[r].user \in Users
    <3>1. r # s /\ owners = r /\ task'[r] = task[r]  BY <2>2, EndFacts DEF IInv
    <3>2. task[r] \in Task  BY <3>1 DEF IInv, TypeOK
    <3> QED  BY <3>1, <3>2 DEF Task
  <2> QED  BY <1>5, <2>1, <2>2 DEF IInv, AccountInv, DecisionStands
<1> QED  BY <1>4, <1>5, <1>6, <1>7, <1>8 DEF AccountInv

LEMMA CommitChangeInv ==
    ASSUME IInv, NEW s \in Requests, CommitChange(s)
    PROVE  IInv'
<1>1. /\ task[s] # NoTask /\ NewPassword(s) /\ End(s)
      /\ UNCHANGED <<links, clock, session>>
  BY DEF CommitChange
<1>2. /\ users' \in [Users -> Account] /\ AccountInv'
      /\ \A u \in Users : users'[u].role = users[u].role
  BY <1>1, NewPasswordFacts
<1>3. TypeOK'  BY <1>1, <1>2, EndFacts DEF IInv, TypeOK
<1>4. LinkInv'  BY <1>1, <1>2, CloseKeepsLinks
<1> QED  BY <1>2, <1>3, <1>4 DEF IInv

(* What a setup does to the links.                                         *)
LEMMA SetupFacts ==
    ASSUME IInv, NEW s \in Requests, CommitSetup(s)
    PROVE  /\ links' \in [Links -> Link]
           /\ \A l \in Links :
                /\ links'[l].user = links[l].user /\ links'[l].serial = links[l].serial
                /\ \/ links'[l] = links[l]
                   \/ /\ links'[l].state = "used" /\ links[l].state = "active"
                      /\ l \notin HeldByOthers(s)
                   \/ /\ links'[l].state = "revoked"
                      /\ links[l].state \in {"active", "expired"} /\ l \notin HeldByOthers(s)
<1> DEFINE t == task[s]
           closed == Revoked(OpenLinks(t.user))
<1>1. /\ t # NoTask
      /\ \A l \in t.held : links[l].state = "active"
      /\ OpenLinks(t.user) \cap HeldByOthers(s) = {}
      /\ links' = [l \in Links |-> IF l \in t.held THEN [links[l] EXCEPT !.state = "used"]
                                   ELSE closed[l]]
  BY DEF CommitSetup
<1>2. t.held \in SUBSET Links  BY <1>1 DEF IInv, TypeOK, Task
<1>3. \A l \in t.held : l \notin HeldByOthers(s)
  BY <1>1 DEF IInv, LinkInv, HeldOpen, HeldByOthers, Busy
<1>4. \A l \in OpenLinks(t.user) : links[l].state \in {"active", "expired"}
  BY DEF OpenLinks
<1>5. /\ closed \in [Links -> Link]
      /\ \A l \in OpenLinks(t.user) : /\ closed[l].state = "revoked"
                                      /\ closed[l].user = links[l].user
                                      /\ closed[l].serial = links[l].serial
      /\ \A l \in Links \ OpenLinks(t.user) : closed[l] = links[l]
  BY RevokedFacts DEF IInv, OpenLinks, IssuedTo
<1>6. ASSUME NEW l \in Links
      PROVE  /\ [links[l] EXCEPT !.state = "used"] \in Link
             /\ [links[l] EXCEPT !.state = "used"].state = "used"
             /\ [links[l] EXCEPT !.state = "used"].user = links[l].user
             /\ [links[l] EXCEPT !.state = "used"].serial = links[l].serial
  <2>1. links[l] \in Link  BY DEF IInv, TypeOK
  <2> QED  BY <2>1 DEF Link
<1> HIDE DEF closed
<1> QED  BY <1>1, <1>2, <1>3, <1>4, <1>5, <1>6

LEMMA CommitSetupInv ==
    ASSUME IInv, NEW s \in Requests, CommitSetup(s)
    PROVE  IInv'
<1>1. /\ task[s] # NoTask /\ NewPassword(s) /\ End(s)
      /\ UNCHANGED <<clock, session>>
  BY DEF CommitSetup
<1>2. /\ users' \in [Users -> Account] /\ AccountInv'
      /\ \A u \in Users : users'[u].role = users[u].role
  BY <1>1, NewPasswordFacts
<1>3. TypeOK'  BY <1>1, <1>2, EndFacts, SetupFacts DEF IInv, TypeOK
<1>4. LinkInv'  BY <1>1, <1>2, SetupFacts, CloseKeepsLinks
<1> QED  BY <1>2, <1>3, <1>4 DEF IInv

LEMMA ExpireInv ==
    ASSUME IInv, NEW l \in Links, Expire(l)
    PROVE  IInv'
<1>1. /\ links[l].state = "active" /\ UNCHANGED <<users, clock, session, owners, task>>
      /\ links' = [links EXCEPT ![l].state = "expired"]
  BY DEF Expire
<1>2. /\ links' \in [Links -> Link]
      /\ links'[l].user = links[l].user /\ links'[l].serial = links[l].serial
      /\ links'[l].state = "expired"
      /\ \A k \in Links \ {l} : links'[k] = links[k]
  <2>1. links[l] \in Link  BY DEF IInv, TypeOK
  <2>2. /\ [links[l] EXCEPT !.state = "expired"] \in Link
        /\ [links[l] EXCEPT !.state = "expired"].state = "expired"
        /\ [links[l] EXCEPT !.state = "expired"].user = links[l].user
        /\ [links[l] EXCEPT !.state = "expired"].serial = links[l].serial
    BY <2>1 DEF Link
  <2> QED  BY <1>1, <2>2 DEF IInv, TypeOK
<1>3. TypeOK'  BY <1>1, <1>2 DEF IInv, TypeOK
<1>4. AccountInv'
  BY <1>1
     DEF IInv, AccountInv, DecisionStands, SessionsBehind, OwnerRemains, SoleOwner, Exists
<1>5. ActiveIsNewest' /\ LinksBelong'
  BY <1>1, <1>2 DEF IInv, LinkInv, ActiveIsNewest, LinksBelong
<1>6. HeldOpen'
  <2>1. \A r \in Requests : Busy(r) => task[r].held \subseteq Links
    BY DEF IInv, TypeOK, Task, Busy
  <2> QED  BY <1>1, <1>2, <2>1 DEF IInv, LinkInv, HeldOpen, Busy
<1>7. IssuersKnown' /\ IssueCovers'
  BY <1>1, <1>2 DEF IInv, LinkInv, IssuersKnown, IssueCovers, Busy, Issuing
<1> QED  BY <1>3, <1>4, <1>5, <1>6, <1>7 DEF IInv, LinkInv

LEMMA NextInv == IInv /\ [Next]_vars => IInv'
<1> SUFFICES ASSUME IInv, [Next]_vars  PROVE IInv'  OBVIOUS
<1>1. ASSUME NEW u \in Users, Login(u)  PROVE IInv'
  BY <1>1, LoginInv
<1>2. ASSUME NEW l \in Links, Expire(l)  PROVE IInv'
  BY <1>2, ExpireInv
<1>3. ASSUME NEW s \in Requests, Ask(s)  PROVE IInv'
  BY <1>3, AskInv
<1>4. ASSUME NEW s \in Requests, Step(s)  PROVE IInv'
  BY <1>4, LockOwnersInv, CommitRoleInv, CommitRemoveInv, CommitCreateInv, RevokeInv,
     CommitIssueInv, CommitSetupInv, CommitChangeInv, AbortInv DEF Step
<1>5. CASE UNCHANGED vars
  BY <1>5 DEF vars, IInv, TypeOK, AccountInv, DecisionStands, SessionsBehind, OwnerRemains,
     SoleOwner, Exists, LinkInv, ActiveIsNewest, LinksBelong, HeldOpen, IssuersKnown,
     IssueCovers, Busy, Issuing
<1> QED  BY <1>1, <1>2, <1>3, <1>4, <1>5 DEF Next

LEMMA Inductive == Spec => []IInv
BY InitInv, NextInv, PTL DEF Spec

-----------------------------------------------------------------------------
(* Every row and every request has its type, and exactly a request that    *)
(* decides on a role holds the lock of the owners.                         *)
THEOREM TypeCorrect == Spec => []TypeOK
<1>1. IInv => TypeOK  BY DEF IInv
<1> QED  BY Inductive, <1>1, PTL

(* However many owners demote and remove each other at the same time, one  *)
(* remains: the count is taken, and stands, under the lock of the owners.  *)
THEOREM AnOwnerRemains == Spec => []OwnerRemains
<1>1. IInv => OwnerRemains  BY DEF IInv, AccountInv
<1> QED  BY Inductive, <1>1, PTL

(* However many issues and setups overlap, no user has two links that work.*)
THEOREM OneLinkWorks == Spec => []OneLinkPerUser
<1>1. IInv => OneLinkPerUser
  <2> SUFFICES ASSUME IInv, NEW k \in Links, NEW l \in Links, links[k].state = "active",
                      links[l].state = "active", links[k].user = links[l].user, k # l
               PROVE  FALSE
    BY DEF OneLinkPerUser
  <2>1. links[k].serial < links[l].serial /\ links[l].serial < links[k].serial
    BY DEF IInv, LinkInv, ActiveIsNewest
  <2>2. links[k].serial \in Nat /\ links[l].serial \in Nat
    BY DEF IInv, TypeOK, Link
  <2> QED  BY <2>1, <2>2
<1> QED  BY Inductive, <1>1, PTL

(* A session that authenticate accepts was opened with the password that   *)
(* the account has now.                                                    *)
THEOREM SessionsAreRecent == Spec => []SessionsFollowPassword
<1>1. IInv => SessionsFollowPassword
  BY DEF IInv, AccountInv, SessionsBehind, SessionsFollowPassword, Current
<1> QED  BY Inductive, <1>1, PTL

(* Only the newest link of a user, while it works, sets a password; a link *)
(* that is used or revoked does not change any more.                       *)
THEOREM NewestLinkOnly == Spec => NewestLinkSets
<1> DEFINE Proper(l) ==
        /\ (links'[l].state = "used" /\ links[l].state # "used") =>
            /\ links[l].state = "active"
            /\ \A k \in IssuedTo(links[l].user) : links[k].serial <= links[l].serial
        /\ links[l].state \in {"used", "revoked"} => links'[l] = links[l]
<1>1. ASSUME IInv, [Next]_vars, NEW l \in Links  PROVE Proper(l)
  <2> USE <1>1
  <2>1. links[l].state = "active" =>
            \A k \in IssuedTo(links[l].user) : links[k].serial <= links[l].serial
    BY DEF IInv, TypeOK, Link, LinkInv, ActiveIsNewest, IssuedTo
  <2>2. CASE UNCHANGED links  BY <2>2
  <2>3. ASSUME NEW k \in Links, Expire(k)  PROVE Proper(l)
    BY <2>3 DEF Expire, IInv, TypeOK, Link
  <2>4. ASSUME NEW s \in Requests, CommitSetup(s)  PROVE Proper(l)
    BY <2>1, <2>4, SetupFacts
  <2>5. ASSUME NEW s \in Requests, CommitRemove(s)  PROVE Proper(l)
    <3>1. links' = Revoked(OpenLinks(task[s].user))  BY <2>5 DEF CommitRemove
    <3> QED  BY <3>1, RevokedFacts DEF IInv, OpenLinks, IssuedTo
  <2>6. ASSUME NEW s \in Requests, NEW k \in Links, NEW u, NEW table, Insert(k, u, table),
               table[l] = links[l] \/ (table[l].state = "revoked"
                                        /\ links[l].state \in {"active", "expired"}),
               table \in [Links -> Link]
        PROVE  Proper(l)
    BY <2>6 DEF Insert
  <2>7. ASSUME NEW s \in Requests, CommitCreate(s)  PROVE Proper(l)
    BY <2>6, <2>7 DEF CommitCreate, IInv, TypeOK
  <2>8. ASSUME NEW s \in Requests, CommitIssue(s)  PROVE Proper(l)
    <3>1. task[s] # NoTask /\ \E k \in Links : Insert(k, task[s].user, Revoked(task[s].held))
      BY <2>8 DEF CommitIssue
    <3>2. task[s].held \in SUBSET Links  BY <3>1 DEF IInv, TypeOK, Task
    <3>3. l \in task[s].held => links[l].state \in {"active", "expired"}
      BY <3>1 DEF IInv, LinkInv, HeldOpen, Busy
    <3>4. /\ Revoked(task[s].held) \in [Links -> Link]
          /\ \/ Revoked(task[s].held)[l] = links[l]
             \/ /\ Revoked(task[s].held)[l].state = "revoked"
                /\ links[l].state \in {"active", "expired"}
      BY <3>2, <3>3, RevokedFacts DEF IInv
    <3> QED  BY <2>6, <3>1, <3>4
  <2>9. ASSUME NEW s \in Requests, Ask(s)  PROVE UNCHANGED links
    BY <2>9 DEF Ask, BeginRemove, BeginRole, BeginCreate, BeginIssue, BeginChange, BeginSetup,
                Begin
  <2>10. ASSUME NEW s \in Requests,
                LockOwners(s) \/ CommitRole(s) \/ Revoke(s) \/ CommitChange(s) \/ Abort(s)
         PROVE  UNCHANGED links
    BY <2>10 DEF LockOwners, Decide, CommitRole, Revoke, RevokeOpen, CommitChange, Abort
  <2>11. ASSUME NEW u \in Users, Login(u)  PROVE UNCHANGED links
    BY <2>11 DEF Login
  <2>12. CASE UNCHANGED vars  BY <2>12, <2>2 DEF vars
  <2> HIDE DEF Proper
  <2> QED  BY <2>2, <2>3, <2>4, <2>5, <2>7, <2>8, <2>9, <2>10, <2>11, <2>12 DEF Next, Step
<1>2. IInv /\ [Next]_vars => [\A l \in Links : Proper(l)]_vars  BY <1>1
<1> QED  BY Inductive, <1>2, PTL DEF Spec, NewestLinkSets

-----------------------------------------------------------------------------
(* The desks.                                                              *)

Entry == [post : Post \cup {NoPost}, to : DeskStatuses]
Dialog == [id : Nat, item : Items, action : WorkflowActions, opened : DeskStatuses]
Call == [post : Post, stage : {"sent", "done", "failed", "stale", "read", "refresh"},
         rows : [Items -> Nat]]
Read == [desk : Desks, serial : Nat, read : BOOLEAN, rows : [Items -> Nat]]

DeskTypeOK ==
    /\ kind \in [Items -> Kinds]
    /\ page \in [Desks -> Queues \cup Items]
    /\ log \in [Items -> Seq(Entry)]
    /\ shown \in [Desks -> [Items -> Nat]]
    /\ loading \in [Desks -> BOOLEAN]
    /\ updating \in [Desks -> Items \cup {Nobody}]
    /\ dialog \in [Desks -> Dialog \cup {NoDialog}]
    /\ opened \in Nat /\ sent \in Nat
    /\ posts \in SUBSET Post /\ calls \in SUBSET Call /\ reads \in SUBSET Read

(* Rows of a tab are of its requests, and as they are or were.             *)
Shows(d, rows) ==
    \A i \in Items : rows[i] <= Len(log[i]) /\ (rows[i] > 0 => i \in Of(d))

(* A decision carries the operation of its dialog, and the status it was   *)
(* opened in.                                                              *)
PostOK(p) ==
    /\ p.op = <<p.dialog, 0>> /\ p.item \in Of(p.desk)
    /\ page[p.desk] # "bookings" => p.expected = p.opened

(* The dialog on the page of a request is about what the page shows.       *)
DialogOK(d) ==
    dialog[d] # NoDialog =>
        /\ dialog[d].item \in Of(d)
        /\ <<dialog[d].opened, dialog[d].action>> \in Offered(kind[dialog[d].item])
        /\ page[d] \in Items =>
            /\ shown[d][dialog[d].item] > 0
            /\ Status(dialog[d].item, shown[d][dialog[d].item]) = dialog[d].opened

(* The decision that a call was told of was made.                          *)
Made(p) ==
    \E x \in Events :
        LET q == log[x[1]][x[2]].post IN
        q # NoPost /\ q.dialog = p.dialog /\ q.item = p.item /\ q.action = p.action
        /\ q.choice = p.choice

(* A call of the page of a request is alone and brings nothing older.      *)
CallOK(d, c) ==
    /\ PostOK(c.post) /\ Shows(d, c.rows)
    /\ c.stage \in {"done", "read"} => Made(c.post)
    /\ page[d] \in Items =>
        /\ updating[d] = c.post.item
        /\ \A other \in calls : other.post.desk = d => other = c
        /\ c.stage = "read" => c.rows[c.post.item] >= shown[d][c.post.item]
        /\ c.stage = "refresh" => dialog[d] = NoDialog /\ \A i \in Items : c.rows[i] >= shown[d][i]

(* The page of a request loads once, and before anything else.             *)
ReadOK(d, r) ==
    /\ Shows(d, r.rows)
    /\ page[d] \in Items =>
        /\ loading[d] /\ dialog[d] = NoDialog /\ shown[d] = NothingShown
        /\ \A other \in reads : other.desk = d => other = r
        /\ \A c \in calls : c.post.desk # d

DeskOK(d) ==
    /\ Shows(d, shown[d]) /\ DialogOK(d)
    /\ \A c \in calls : c.post.desk = d => CallOK(d, c)
    /\ \A r \in reads : r.desk = d => ReadOK(d, r)

LogOK ==
    /\ \A p \in posts : PostOK(p)
    /\ \A x \in Events : LET p == log[x[1]][x[2]].post IN p # NoPost => PostOK(p)
    /\ \A x, y \in Events :
        LET p == log[x[1]][x[2]].post  q == log[y[1]][y[2]].post IN
        p # NoPost /\ q # NoPost /\ p.op = q.op => x = y

DeskInv == DeskTypeOK /\ LogOK /\ \A d \in Desks : DeskOK(d)

(* No page of a request falls back.                                        *)
Forward ==
    \A d \in Desks : page[d] \in Items /\ shown'[d] # NothingShown =>
        \A i \in Items : shown'[d][i] >= shown[d][i]

-----------------------------------------------------------------------------
EventPairs ==
    /\ \A i \in Items : \A n \in DOMAIN log[i] : <<i, n>> \in Events
    /\ \A x \in Events : x = <<x[1], x[2]>> /\ x[1] \in Items /\ x[2] \in DOMAIN log[x[1]]

LEMMA EventForm == EventPairs
<1>1. ASSUME NEW i \in Items, NEW n \in DOMAIN log[i]  PROVE <<i, n>> \in Events
  BY DEF Events
<1>2. ASSUME NEW x \in Events
      PROVE  x = <<x[1], x[2]>> /\ x[1] \in Items /\ x[2] \in DOMAIN log[x[1]]
  <2>1. PICK i \in Items : x \in {<<i, n>> : n \in DOMAIN log[i]}  BY DEF Events
  <2>2. PICK n \in DOMAIN log[i] : x = <<i, n>>  BY <2>1
  <2> QED  BY <2>2
<1> QED  BY <1>1, <1>2 DEF EventPairs

LEMMA OfferedFacts ==
    ASSUME NEW k \in Kinds, NEW s, NEW a, <<s, a>> \in Offered(k)
    PROVE  /\ a \in WorkflowActions
           /\ a \in DOMAIN Recorded => k # "order" /\ Recorded[a] = s
<1>1. CASE k = "order"
  <2>1. <<s, a>> \in STATUS_TARGETS  BY <1>1 DEF Offered
  <2>2. a \in {"contacted", "confirmed", "cancelled"}  BY <2>1 DEF STATUS_TARGETS
  <2> QED  BY <2>2 DEF WorkflowActions, Recorded
<1>2. CASE k = "party"
  <2>1. <<s, a>> \in partyActions  BY <1>2 DEF Offered
  <2>2. /\ a \in {"propose_time", "reject", "cancel", "accept_time", "record_payment",
                  "add_charge", "complete", "no_show", "refund"}
        /\ a = "record_payment" => s = "awaiting_in_store_payment"
        /\ a = "add_charge" => s = "confirmed_paid"
        /\ a = "refund" => s = "cancelled"
    BY <2>1 DEF partyActions
  <2> QED  BY <1>2, <2>2 DEF WorkflowActions, Recorded
<1>3. CASE k \in {"experience", "earlier"}
  <2>1. <<s, a>> \in ordinaryActions  BY <1>3 DEF Offered
  <2>2. a \in {"confirm", "waitlist", "reject", "cancel", "complete", "no_show"}
    BY <2>1 DEF ordinaryActions
  <2> QED  BY <2>2 DEF WorkflowActions, Recorded
<1> QED  BY <1>1, <1>2, <1>3 DEF Kinds

(* Every status that a decision or a move leads to.                        *)
LEMMA PlainStatuses ==
    ASSUME NEW k, NEW m \in Plain(k)
    PROVE  m[2] \in DeskStatuses
<1>1. m \in ORDINARY_TRANSITIONS \cup PARTY_TRANSITIONS \cup VALID_TRANSITIONS
  <2>1. CASE k = "experience"  BY <2>1 DEF Plain
  <2>2. CASE k = "party"  BY <2>2 DEF Plain
  <2>3. CASE k # "experience" /\ k # "party"  BY <2>3 DEF Plain
  <2> QED  BY <2>1, <2>2, <2>3
<1>2. CASE m \in ORDINARY_TRANSITIONS  BY <1>2 DEF ORDINARY_TRANSITIONS, DeskStatuses
<1>3. CASE m \in PARTY_TRANSITIONS  BY <1>3 DEF PARTY_TRANSITIONS, DeskStatuses
<1>4. CASE m \in VALID_TRANSITIONS  BY <1>4 DEF VALID_TRANSITIONS, DeskStatuses
<1> QED  BY <1>1, <1>2, <1>3, <1>4

LEMMA OutcomeStatuses ==
    ASSUME NEW p, NEW to \in Outcomes(p)
    PROVE  to \in DeskStatuses
<1>1. \A m \in Dedicated : m[3] \in DeskStatuses  BY DEF Dedicated, DeskStatuses
<1>2. \/ to \in {m[2] : m \in Plain(kind[p.item])}
      \/ to \in {m[3] : m \in {m \in Dedicated : kind[p.item] = "party" /\ m[1] = p.action
                                                 /\ m[2] = p.expected}}
  BY DEF Outcomes
<1> QED  BY <1>1, <1>2, PlainStatuses

LEMMA ElsewhereStatuses ==
    ASSUME NEW k, NEW m \in Elsewhere(k)
    PROVE  m[2] \in DeskStatuses
<1>1. CASE m \in Plain(k)  BY <1>1, PlainStatuses
<1>2. CASE m \notin Plain(k)
  <2>1. k = "party"  BY <1>2 DEF Elsewhere
  <2>2. m \in {<<n[2], n[3]>> : n \in Dedicated}
              \cup {<<"awaiting_in_store_payment", "payment_expired">>}
              \cup {"confirmed_paid"} \X {"cancellation_requested", "reschedule_requested"}
    BY <1>2, <2>1 DEF Elsewhere
  <2>3. \A n \in Dedicated : n[3] \in DeskStatuses  BY DEF Dedicated, DeskStatuses
  <2>4. "payment_expired" \in DeskStatuses /\ "cancellation_requested" \in DeskStatuses
        /\ "reschedule_requested" \in DeskStatuses
    BY DEF DeskStatuses
  <2>5. CASE m \in {<<n[2], n[3]>> : n \in Dedicated}  BY <2>3, <2>5
  <2>6. CASE m \in {<<"awaiting_in_store_payment", "payment_expired">>}  BY <2>4, <2>6
  <2>7. CASE m \in {"confirmed_paid"} \X {"cancellation_requested", "reschedule_requested"}
    BY <2>4, <2>7
  <2> QED  BY <2>2, <2>5, <2>6, <2>7
<1> QED  BY <1>1, <1>2

LEMMA InitialStatuses ==
    ASSUME NEW k \in Kinds
    PROVE  Initial(k) \subseteq DeskStatuses
  BY DEF Kinds, Initial, DeskStatuses

LEMMA DeskInitInv == DeskInit => DeskInv
<1> SUFFICES ASSUME DeskInit  PROVE DeskInv  OBVIOUS
<1>1. PICK first \in [Items -> UNION {Initial(k) : k \in Kinds}] :
        /\ \A i \in Items : first[i] \in Initial(kind[i])
        /\ log = [i \in Items |-> <<[post |-> NoPost, to |-> first[i]]>>]
  BY DEF DeskInit
<1>2. /\ kind \in [Items -> Kinds] /\ page \in [Desks -> Queues \cup Items]
      /\ shown = [d \in Desks |-> NothingShown] /\ loading = [d \in Desks |-> TRUE]
      /\ updating = [d \in Desks |-> Nobody] /\ dialog = [d \in Desks |-> NoDialog]
      /\ opened = 0 /\ sent = 0 /\ posts = {} /\ calls = {}
      /\ reads = {[desk |-> d, serial |-> 1, read |-> FALSE, rows |-> NothingShown] : d \in Desks}
  BY DEF DeskInit
<1>3. NothingShown \in [Items -> Nat] /\ \A i \in Items : NothingShown[i] = 0
  BY DEF NothingShown
<1>4. ASSUME NEW i \in Items
      PROVE  /\ log[i] \in Seq(Entry) /\ DOMAIN log[i] = {1} /\ Len(log[i]) = 1
             /\ log[i][1].post = NoPost
  <2>1. first[i] \in DeskStatuses  BY <1>1, <1>2, InitialStatuses
  <2>2. [post |-> NoPost, to |-> first[i]] \in Entry  BY <2>1 DEF Entry
  <2>3. log[i] = <<[post |-> NoPost, to |-> first[i]]>>  BY <1>1
  <2> QED  BY <2>2, <2>3
<1>5. ASSUME NEW r \in reads  PROVE r \in Read
  <2>1. PICK d \in Desks :
          r = [desk |-> d, serial |-> 1, read |-> FALSE, rows |-> NothingShown]
    BY <1>2
  <2> QED  BY <1>3, <2>1 DEF Read
<1>6. DeskTypeOK
  <2>1. log \in [Items -> Seq(Entry)]  BY <1>1, <1>4
  <2>2. shown \in [Desks -> [Items -> Nat]]  BY <1>2, <1>3
  <2> QED  BY <1>2, <1>5, <2>1, <2>2 DEF DeskTypeOK
<1>7. \A x \in Events : log[x[1]][x[2]].post = NoPost  BY <1>4, EventForm DEF EventPairs
<1>8. LogOK  BY <1>2, <1>7 DEF LogOK
<1>9. ASSUME NEW d \in Desks  PROVE DeskOK(d)
  <2>1. Shows(d, NothingShown)  BY <1>3, <1>4 DEF Shows
  <2>2. ASSUME NEW r \in reads, r.desk = d  PROVE ReadOK(d, r)
    <3>1. r = [desk |-> d, serial |-> 1, read |-> FALSE, rows |-> NothingShown]
      BY <1>2, <2>2
    <3>2. \A other \in reads : other.desk = d => other = r  BY <1>2, <3>1
    <3> QED  BY <1>2, <2>1, <3>1, <3>2 DEF ReadOK
  <2> QED  BY <1>2, <2>1, <2>2 DEF DeskOK, DialogOK
<1> QED  BY <1>6, <1>8, <1>9 DEF DeskInv

-----------------------------------------------------------------------------
(* A history that grows.                                                   *)
LEMMA Growth ==
    ASSUME DeskTypeOK, NEW i \in Items, NEW e \in Entry,
           log' = [log EXCEPT ![i] = Append(@, e)]
    PROVE  /\ log' \in [Items -> Seq(Entry)]
           /\ \A j \in Items : /\ Len(log'[j]) >= Len(log[j])
                               /\ \A n \in DOMAIN log[j] : n \in DOMAIN log'[j]
                                                           /\ log'[j][n] = log[j][n]
           /\ Len(log[i]) + 1 \in DOMAIN log'[i] /\ log'[i][Len(log[i]) + 1] = e
           /\ Events \subseteq Events' /\ <<i, Len(log[i]) + 1>> \in Events'
           /\ \A x \in Events' : x \in Events \/ x = <<i, Len(log[i]) + 1>>
           /\ \A x \in Events : log'[x[1]][x[2]] = log[x[1]][x[2]]
<1> DEFINE old == log[i]
           new == Append(old, e)
<1>1. log \in [Items -> Seq(Entry)] /\ old \in Seq(Entry)  BY DEF DeskTypeOK
<1>2. /\ new \in Seq(Entry) /\ Len(new) = Len(old) + 1 /\ Len(old) \in Nat
      /\ \A n \in DOMAIN old : n \in DOMAIN new /\ new[n] = old[n]
      /\ Len(old) + 1 \in DOMAIN new /\ new[Len(old) + 1] = e
      /\ \A n \in DOMAIN new : n \in DOMAIN old \/ n = Len(old) + 1
  BY <1>1
<1>3. log' \in [Items -> Seq(Entry)] /\ \A j \in Items : log'[j] = (IF j = i THEN new ELSE log[j])
  BY <1>1, <1>2
<1> HIDE DEF new
<1>4. ASSUME NEW j \in Items
      PROVE  /\ Len(log'[j]) >= Len(log[j])
             /\ \A n \in DOMAIN log[j] : n \in DOMAIN log'[j] /\ log'[j][n] = log[j][n]
  <2>1. Len(log[j]) \in Nat  BY <1>1
  <2> QED  BY <1>2, <1>3, <2>1
<1>5. Len(log[i]) + 1 \in DOMAIN log'[i] /\ log'[i][Len(log[i]) + 1] = e
  BY <1>2, <1>3
<1>6. /\ \A j \in Items : \A n \in DOMAIN log'[j] : <<j, n>> \in Events'
      /\ \A x \in Events' : x = <<x[1], x[2]>> /\ x[1] \in Items /\ x[2] \in DOMAIN log'[x[1]]
  <2>1. EventPairs'  BY EventForm, PTL
  <2> QED  BY <2>1 DEF EventPairs
<1>7. Events \subseteq Events' /\ <<i, Len(log[i]) + 1>> \in Events'
  BY <1>4, <1>5, <1>6, EventForm DEF EventPairs
<1>8. ASSUME NEW x \in Events'  PROVE x \in Events \/ x = <<i, Len(log[i]) + 1>>
  <2>1. x = <<x[1], x[2]>> /\ x[1] \in Items /\ x[2] \in DOMAIN log'[x[1]]  BY <1>6
  <2>2. x[2] \in DOMAIN log[x[1]] \/ (x[1] = i /\ x[2] = Len(log[i]) + 1)
    BY <1>2, <1>3, <2>1
  <2> QED  BY <2>1, <2>2, EventForm DEF EventPairs
<1>9. \A x \in Events : log'[x[1]][x[2]] = log[x[1]][x[2]]  BY <1>4, EventForm DEF EventPairs
<1> QED  BY <1>3, <1>4, <1>5, <1>7, <1>8, <1>9

(* What is known of the desks stays true when a history grows and calls    *)
(* are answered.                                                           *)
Grown ==
    /\ log' \in [Items -> Seq(Entry)]
    /\ \A j \in Items : /\ Len(log'[j]) >= Len(log[j])
                        /\ \A n \in DOMAIN log[j] : n \in DOMAIN log'[j] /\ log'[j][n] = log[j][n]
    /\ Events \subseteq Events' /\ \A x \in Events : log'[x[1]][x[2]] = log[x[1]][x[2]]

LEMMA GrownShows ==
    ASSUME DeskTypeOK, Grown, UNCHANGED fixed, NEW d \in Desks, NEW rows \in [Items -> Nat],
           Shows(d, rows)
    PROVE  Shows(d, rows)'
<1>1. Of(d)' = Of(d)  BY DEF fixed, Of
<1>2. \A j \in Items : Len(log[j]) \in Nat /\ Len(log'[j]) \in Nat
  BY DEF DeskTypeOK, Grown
<1> QED  BY <1>1, <1>2 DEF Grown, Shows

LEMMA GrownPost ==
    ASSUME UNCHANGED fixed, NEW p, PostOK(p)
    PROVE  PostOK(p)'
  BY DEF fixed, PostOK, Of

LEMMA GrownMade ==
    ASSUME Grown, NEW p, Made(p)
    PROVE  Made(p)'
<1>1. PICK x \in Events :
        LET q == log[x[1]][x[2]].post IN
        q # NoPost /\ q.dialog = p.dialog /\ q.item = p.item /\ q.action = p.action
        /\ q.choice = p.choice
  BY DEF Made
<1>2. x \in Events' /\ log'[x[1]][x[2]] = log[x[1]][x[2]]  BY DEF Grown
<1> QED  BY <1>1, <1>2 DEF Made

LEMMA GrownDesk ==
    ASSUME DeskInv, Grown, UNCHANGED <<desks, reads, fixed>>, NEW d \in Desks,
           NEW p, NEW stage \in {"done", "failed", "stale"},
           stage = "done" => \A c \in calls : c.post = p => Made(p)',
           calls' = calls \/ Answered(p, stage)
    PROVE  DeskOK(d)'
<1>1. /\ DeskTypeOK /\ DeskOK(d) /\ UNCHANGED <<kind, page, shown, loading, updating, dialog, reads>>
      /\ calls \in SUBSET Call /\ reads \in SUBSET Read
  BY DEF DeskInv, DeskTypeOK, desks, fixed
<1>2. Of(d)' = Of(d)  BY <1>1 DEF Of
<1>3. Shows(d, shown[d])'
  <2>1. shown[d] \in [Items -> Nat] /\ Shows(d, shown[d])  BY <1>1 DEF DeskTypeOK, DeskOK
  <2>2. Shows(d, shown[d])' <=> \A i \in Items : shown[d][i] <= Len(log'[i])
                                    /\ (shown[d][i] > 0 => i \in Of(d))
    BY <1>1, <1>2 DEF Shows
  <2>3. \A j \in Items : Len(log[j]) \in Nat /\ Len(log'[j]) \in Nat /\ Len(log'[j]) >= Len(log[j])
    BY <1>1 DEF DeskTypeOK, Grown
  <2> QED  BY <2>1, <2>2, <2>3 DEF Shows
<1>4. DialogOK(d)'
  <2> SUFFICES ASSUME dialog[d] # NoDialog
               PROVE  /\ dialog[d].item \in Of(d)'
                      /\ <<dialog[d].opened, dialog[d].action>> \in Offered(kind[dialog[d].item])
                      /\ page[d] \in Items =>
                          /\ shown[d][dialog[d].item] > 0
                          /\ log'[dialog[d].item][shown[d][dialog[d].item]].to = dialog[d].opened
    BY <1>1 DEF DialogOK, Status
  <2>1. /\ dialog[d].item \in Of(d)
        /\ <<dialog[d].opened, dialog[d].action>> \in Offered(kind[dialog[d].item])
        /\ page[d] \in Items =>
            /\ shown[d][dialog[d].item] > 0
            /\ log[dialog[d].item][shown[d][dialog[d].item]].to = dialog[d].opened
    BY <1>1 DEF DeskOK, DialogOK, Status
  <2>2. dialog[d].item \in Items  BY <1>1 DEF DeskTypeOK, Dialog
  <2>3. /\ shown[d][dialog[d].item] \in Nat
        /\ shown[d][dialog[d].item] <= Len(log[dialog[d].item])
        /\ log[dialog[d].item] \in Seq(Entry)
    BY <1>1, <2>2 DEF DeskTypeOK, DeskOK, Shows
  <2>4. shown[d][dialog[d].item] > 0
            => shown[d][dialog[d].item] \in DOMAIN log[dialog[d].item]
    BY <2>3
  <2>5. page[d] \in Items => log'[dialog[d].item][shown[d][dialog[d].item]]
                                = log[dialog[d].item][shown[d][dialog[d].item]]
    BY <2>1, <2>2, <2>4 DEF Grown
  <2> QED  BY <1>2, <2>1, <2>5
<1>5. ASSUME NEW n \in calls', n.post.desk = d  PROVE CallOK(d, n)'
  <2>1. PICK c \in calls :
          n = c \/ (c.post = p /\ c.stage = "sent" /\ n = [c EXCEPT !.stage = stage])
    BY <1>5 DEF Answered
  <2>2. c \in Call  BY <1>1
  <2>3. /\ n.post = c.post /\ n.rows = c.rows
        /\ n.stage = c.stage \/ (c.post = p /\ n.stage = stage)
    BY <2>1, <2>2 DEF Call
  <2>4. CallOK(d, c)  BY <1>1, <1>5, <2>3 DEF DeskOK
  <2>5. PostOK(n.post)'
    <3>1. PostOK(c.post)  BY <2>4 DEF CallOK
    <3> QED  BY <1>1, <2>3, <3>1 DEF PostOK, Of
  <2>6. Shows(d, n.rows)'
    <3>1. c.rows \in [Items -> Nat] /\ Shows(d, c.rows)  BY <2>2, <2>4 DEF CallOK, Call
    <3>2. Shows(d, c.rows)'
      BY <3>1, GrownShows, <1>1 DEF fixed
    <3> QED  BY <2>3, <3>2 DEF Shows
  <2>7. n.stage \in {"done", "read"} => Made(n.post)'
    <3>1. Made(c.post) => Made(c.post)'  BY GrownMade
    <3>2. CASE n.stage = c.stage  BY <2>3, <2>4, <3>1, <3>2 DEF CallOK
    <3>3. CASE n.stage # c.stage  BY <2>3, <3>3
    <3> QED  BY <3>2, <3>3
  <2>8. ASSUME page[d] \in Items, NEW m \in calls', m.post.desk = d  PROVE m = n
    <3>1. PICK b \in calls :
            /\ m = (IF b.post = p /\ b.stage = "sent" /\ calls' # calls
                    THEN [b EXCEPT !.stage = stage] ELSE b)
      BY <2>8 DEF Answered
    <3>2. PICK a \in calls :
            /\ n = (IF a.post = p /\ a.stage = "sent" /\ calls' # calls
                    THEN [a EXCEPT !.stage = stage] ELSE a)
      BY <1>5 DEF Answered
    <3>3. a.post.desk = d /\ b.post.desk = d  BY <1>1, <1>5, <2>8, <3>1, <3>2 DEF Call
    <3>4. CallOK(d, a)  BY <1>1, <3>3 DEF DeskOK
    <3>5. a = b  BY <2>8, <3>3, <3>4 DEF CallOK
    <3> QED  BY <3>1, <3>2, <3>5
  <2>9. page[d] \in Items =>
          /\ updating[d] = n.post.item
          /\ n.stage = "read" => n.rows[n.post.item] >= shown[d][n.post.item]
          /\ n.stage = "refresh" => dialog[d] = NoDialog /\ \A i \in Items : n.rows[i] >= shown[d][i]
    BY <2>3, <2>4 DEF CallOK
  <2> QED  BY <1>1, <2>5, <2>6, <2>7, <2>8, <2>9 DEF CallOK
<1>6. ASSUME NEW r \in reads, r.desk = d  PROVE ReadOK(d, r)'
  <2>1. ReadOK(d, r) /\ r.rows \in [Items -> Nat]  BY <1>1, <1>6 DEF DeskOK, Read
  <2>2. Shows(d, r.rows)'
    <3>1. Shows(d, r.rows)  BY <2>1 DEF ReadOK
    <3> QED  BY <1>1, <2>1, <3>1, GrownShows DEF fixed
  <2>3. ASSUME page[d] \in Items, NEW n \in calls'  PROVE n.post.desk # d
    <3>1. PICK c \in calls : n = c \/ n = [c EXCEPT !.stage = stage]  BY <2>3 DEF Answered
    <3>2. c.post.desk # d /\ c \in Call  BY <1>1, <2>1, <2>3 DEF ReadOK
    <3> QED  BY <3>1, <3>2 DEF Call
  <2> QED  BY <1>1, <2>1, <2>2, <2>3 DEF ReadOK, NothingShown
<1> QED  BY <1>1, <1>3, <1>4, <1>5, <1>6 DEF DeskOK

LEMMA MoveKeeps ==
    ASSUME DeskInv, NEW i \in Items, Move(i)
    PROVE  DeskInv' /\ Forward
<1> DEFINE at == Len(log[i]) + 1
<1>1. /\ DeskTypeOK /\ LogOK /\ \A d \in Desks : DeskOK(d)
      /\ UNCHANGED <<desks, posts, calls, reads, fixed>>
      /\ UNCHANGED <<kind, page, shown, loading, updating, dialog, opened, sent, posts, calls, reads>>
  BY DEF DeskInv, Move, desks, counters, fixed
<1>2. PICK m \in Elsewhere(kind[i]) :
        log' = [log EXCEPT ![i] = Append(@, [post |-> NoPost, to |-> m[2]])]
  BY DEF Move, Record
<1>3. PICK e \in Entry : e.post = NoPost /\ log' = [log EXCEPT ![i] = Append(@, e)]
  BY <1>2, ElsewhereStatuses DEF Entry
<1>4. /\ Grown /\ log' \in [Items -> Seq(Entry)]
      /\ log'[i][at].post = NoPost
      /\ \A x \in Events' : x \in Events \/ x = <<i, at>>
  BY <1>1, <1>3, Growth DEF Grown
<1>5. DeskTypeOK'  BY <1>1, <1>4 DEF DeskTypeOK
<1>6. LogOK'
  <2>1. ASSUME NEW x \in Events', log'[x[1]][x[2]].post # NoPost
        PROVE  x \in Events /\ log'[x[1]][x[2]] = log[x[1]][x[2]]
    <3>1. x # <<i, at>>  BY <1>4, <2>1
    <3> QED  BY <1>4, <3>1 DEF Grown
  <2>2. ASSUME NEW p \in posts  PROVE PostOK(p)'
    BY <1>1, GrownPost DEF LogOK
  <2>3. ASSUME NEW x \in Events', log'[x[1]][x[2]].post # NoPost
        PROVE  PostOK(log[x[1]][x[2]].post)'
    <3>1. PostOK(log[x[1]][x[2]].post) /\ log'[x[1]][x[2]] = log[x[1]][x[2]]
      BY <1>1, <2>1, <2>3 DEF LogOK
    <3> QED  BY <1>1, <3>1 DEF PostOK, Of
  <2>4. ASSUME NEW x \in Events', NEW y \in Events', log'[x[1]][x[2]].post # NoPost,
               log'[y[1]][y[2]].post # NoPost,
               log'[x[1]][x[2]].post.op = log'[y[1]][y[2]].post.op
        PROVE  x = y
    BY <1>1, <2>1, <2>4 DEF LogOK
  <2> QED  BY <1>1, <2>2, <2>3, <2>4 DEF LogOK
<1>7. ASSUME NEW d \in Desks  PROVE DeskOK(d)'
  <2>1. calls' = calls  BY <1>1
  <2> QED  BY <1>1, <1>4, <2>1, GrownDesk, "failed" \in {"done", "failed", "stale"}
<1>8. Forward  BY <1>1 DEF Forward, DeskTypeOK
<1> QED  BY <1>5, <1>6, <1>7, <1>8 DEF DeskInv

(* A decision is recorded once: its operation was in no entry, and every   *)
(* post of a dialog carries the dialog's operation.                        *)
LEMMA ServeKeeps ==
    ASSUME DeskInv, NEW p \in posts, Serve(p)
    PROVE  DeskInv' /\ Forward
<1> DEFINE i == p.item
           at == Len(log[i]) + 1
           q == [p EXCEPT !.try = 0]
<1>1. /\ DeskTypeOK /\ LogOK /\ \A d \in Desks : DeskOK(d)
      /\ UNCHANGED <<desks, reads, fixed>>
      /\ UNCHANGED <<kind, page, shown, loading, updating, dialog, opened, sent, reads>>
      /\ posts' = posts \ {p}
  BY DEF DeskInv, Serve, desks, counters, fixed
<1>fwd. Forward  BY <1>1 DEF Forward, DeskTypeOK
<1> SUFFICES DeskInv'  BY <1>fwd
<1>2. /\ p \in Post /\ PostOK(p) /\ i \in Items
  BY <1>1 DEF DeskTypeOK, LogOK, Post
<1>3. q \in Post /\ q # NoPost
  <2>1. q \in Post  BY <1>2 DEF Post
  <2> QED  BY <2>1, DeskAssumption
<1>4. /\ q.op = p.op /\ q.dialog = p.dialog /\ q.desk = p.desk /\ q.item = p.item
      /\ q.action = p.action /\ q.expected = p.expected /\ q.opened = p.opened
      /\ q.choice = p.choice
  BY <1>2 DEF Post
<1> HIDE DEF q
<1>5. calls \in SUBSET Call /\ \A stage \in {"done", "failed", "stale"} :
        Answered(p, stage) => calls' \in SUBSET Call
  <2>1. calls \in SUBSET Call  BY <1>1 DEF DeskTypeOK
  <2>2. ASSUME NEW stage \in {"done", "failed", "stale"}, Answered(p, stage), NEW n \in calls'
        PROVE  n \in Call
    <3>1. PICK c \in calls : n = c \/ n = [c EXCEPT !.stage = stage]  BY <2>2 DEF Answered
    <3> QED  BY <2>1, <3>1 DEF Call
  <2> QED  BY <2>1, <2>2
<1>6. ASSUME UNCHANGED log,
             NEW stage \in {"done", "failed", "stale"}, Answered(p, stage),
             stage = "done" => Made(p)'
      PROVE  DeskInv'
  <2>1. Grown  BY <1>1, <1>6 DEF Grown, DeskTypeOK, Events
  <2>2. DeskTypeOK'  BY <1>1, <1>5, <1>6 DEF DeskTypeOK
  <2>3. LogOK'
    <3>1. Events' = Events  BY <1>6 DEF Events
    <3>2. ASSUME NEW r \in posts'  PROVE PostOK(r)'
      BY <1>1, GrownPost DEF LogOK
    <3>3. ASSUME NEW x \in Events, log[x[1]][x[2]].post # NoPost
          PROVE  PostOK(log[x[1]][x[2]].post)'
      <4>1. PostOK(log[x[1]][x[2]].post)  BY <1>1, <3>3 DEF LogOK
      <4> QED  BY <1>1, <1>6, <4>1 DEF PostOK, Of
    <3> QED  BY <1>1, <1>6, <3>1, <3>2, <3>3 DEF LogOK
  <2>4. ASSUME NEW d \in Desks  PROVE DeskOK(d)'
    BY <1>1, <1>6, <2>1, GrownDesk
  <2> QED  BY <2>2, <2>3, <2>4 DEF DeskInv
<1>7. CASE /\ Prior(p.op) # {} /\ UNCHANGED log
           /\ Answered(p, IF \A x \in Prior(p.op) : SamePost(p, log[x[1]][x[2]].post)
                          THEN "done" ELSE "failed")
  <2>1. CASE \A x \in Prior(p.op) : SamePost(p, log[x[1]][x[2]].post)
    <3>1. PICK x \in Prior(p.op) : SamePost(p, log[x[1]][x[2]].post)  BY <1>7, <2>1
    <3>2. x \in Events /\ log[x[1]][x[2]].post # NoPost /\ log[x[1]][x[2]].post.op = p.op
      BY DEF Prior
    <3>3. PICK r : r = log[x[1]][x[2]].post  OBVIOUS
    <3>4. r.op = <<r.dialog, 0>> /\ p.op = <<p.dialog, 0>> /\ r.op = p.op
      BY <1>1, <1>2, <3>2, <3>3 DEF LogOK, PostOK
    <3>5. r.dialog = p.dialog  BY <3>4
    <3>6. log' = log /\ Events' = Events  BY <1>7 DEF Events
    <3>7. Made(p)'  BY <3>1, <3>2, <3>3, <3>5, <3>6 DEF Made, SamePost
    <3>8. Answered(p, "done")  BY <1>7, <2>1
    <3> QED  BY <1>6, <1>7, <3>7, <3>8, "done" \in {"done", "failed", "stale"}
  <2>2. CASE ~ \A x \in Prior(p.op) : SamePost(p, log[x[1]][x[2]].post)
    <3>1. Answered(p, "failed")  BY <1>7, <2>2
    <3> QED  BY <1>6, <1>7, <3>1, "failed" \in {"done", "failed", "stale"}
  <2> QED  BY <2>1, <2>2
<1>8. CASE Answered(p, "stale") /\ UNCHANGED log
  BY <1>6, <1>8, "stale" \in {"done", "failed", "stale"}
<1>9. CASE Answered(p, "failed") /\ UNCHANGED log
  BY <1>6, <1>9, "failed" \in {"done", "failed", "stale"}
<1>10. CASE /\ Prior(p.op) = {} /\ Answered(p, "done")
            /\ \E to \in Outcomes(p) : Record(i, q, to)
  <2>1. PICK to \in Outcomes(p) : log' = [log EXCEPT ![i] = Append(@, [post |-> q, to |-> to])]
    BY <1>10 DEF Record
  <2>2. PICK e \in Entry : e.post = q /\ log' = [log EXCEPT ![i] = Append(@, e)]
    BY <1>3, <2>1, OutcomeStatuses DEF Entry
  <2>3. /\ Grown /\ log' \in [Items -> Seq(Entry)]
        /\ log'[i][at].post = q /\ <<i, at>> \in Events'
        /\ \A x \in Events' : x \in Events \/ x = <<i, at>>
    BY <1>1, <1>2, <2>2, Growth DEF Grown
  <2>4. Made(p)'
    <3>1. /\ <<i, at>> \in Events' /\ log'[<<i, at>>[1]][<<i, at>>[2]].post = q
      BY <2>3
    <3> QED  BY <1>3, <1>4, <3>1 DEF Made
  <2>5. DeskTypeOK'  BY <1>1, <1>5, <1>10, <2>3 DEF DeskTypeOK
  <2>6. ASSUME NEW x \in Events, log[x[1]][x[2]].post # NoPost
        PROVE  log[x[1]][x[2]].post.op # q.op
    BY <1>4, <1>10, <2>6 DEF Prior
  <2>7. LogOK'
    <3>1. ASSUME NEW r \in posts'  PROVE PostOK(r)'
      BY <1>1, GrownPost DEF LogOK
    <3>2. ASSUME NEW x \in Events'
          PROVE  \/ x \in Events /\ log'[x[1]][x[2]] = log[x[1]][x[2]]
                 \/ x = <<i, at>> /\ log'[x[1]][x[2]].post = q
      BY <2>3 DEF Grown
    <3>3. ASSUME NEW x \in Events', log'[x[1]][x[2]].post # NoPost
          PROVE  PostOK(log[x[1]][x[2]].post)'
      <4>1. CASE x \in Events /\ log'[x[1]][x[2]] = log[x[1]][x[2]]
        <5>1. PostOK(log[x[1]][x[2]].post)  BY <1>1, <3>3, <4>1 DEF LogOK
        <5> QED  BY <1>1, <4>1, <5>1 DEF PostOK, Of
      <4>2. CASE log'[x[1]][x[2]].post = q
        <5>1. PostOK(q)  BY <1>2, <1>4 DEF PostOK
        <5> QED  BY <1>1, <4>2, <5>1 DEF PostOK, Of
      <4> QED  BY <3>2, <4>1, <4>2
    <3>4. ASSUME NEW x \in Events', NEW y \in Events', log'[x[1]][x[2]].post # NoPost,
                 log'[y[1]][y[2]].post # NoPost,
                 log'[x[1]][x[2]].post.op = log'[y[1]][y[2]].post.op
          PROVE  x = y
      <4>1. CASE x \in Events /\ log'[x[1]][x[2]] = log[x[1]][x[2]]
        BY <1>1, <2>6, <3>2, <3>4, <4>1 DEF LogOK
      <4>2. CASE x = <<i, at>> /\ log'[x[1]][x[2]].post = q
        BY <1>1, <2>6, <3>2, <3>4, <4>2 DEF LogOK
      <4> QED  BY <3>2, <4>1, <4>2
    <3> QED  BY <3>1, <3>3, <3>4 DEF LogOK
  <2>8. ASSUME NEW d \in Desks  PROVE DeskOK(d)'
    BY <1>1, <1>10, <2>3, <2>4, GrownDesk, "done" \in {"done", "failed", "stale"}
  <2> QED  BY <2>5, <2>7, <2>8 DEF DeskInv
<1>11. DeskInv'  BY <1>7, <1>8, <1>9, <1>10 DEF Serve, q
<1> QED  BY <1>11

-----------------------------------------------------------------------------
(* Steps of the tabs: no history moves, and no decision is lost but in     *)
(* transit.                                                                *)

Still == UNCHANGED <<log, kind, page>>

(* What DeskOK(d)' says when the histories stand still.                    *)
NextDialogOK(d) ==
    dialog'[d] # NoDialog =>
        /\ dialog'[d].item \in Of(d)
        /\ <<dialog'[d].opened, dialog'[d].action>> \in Offered(kind[dialog'[d].item])
        /\ page[d] \in Items =>
            /\ shown'[d][dialog'[d].item] > 0
            /\ Status(dialog'[d].item, shown'[d][dialog'[d].item]) = dialog'[d].opened

NextCallOK(d, c) ==
    /\ PostOK(c.post) /\ Shows(d, c.rows)
    /\ c.stage \in {"done", "read"} => Made(c.post)
    /\ page[d] \in Items =>
        /\ updating'[d] = c.post.item
        /\ \A other \in calls' : other.post.desk = d => other = c
        /\ c.stage = "read" => c.rows[c.post.item] >= shown'[d][c.post.item]
        /\ c.stage = "refresh" =>
            dialog'[d] = NoDialog /\ \A i \in Items : c.rows[i] >= shown'[d][i]

NextReadOK(d, r) ==
    /\ Shows(d, r.rows)
    /\ page[d] \in Items =>
        /\ loading'[d] /\ dialog'[d] = NoDialog /\ shown'[d] = NothingShown
        /\ \A other \in reads' : other.desk = d => other = r
        /\ \A c \in calls' : c.post.desk # d

NextDeskOK(d) ==
    /\ Shows(d, shown'[d]) /\ NextDialogOK(d)
    /\ \A c \in calls' : c.post.desk = d => NextCallOK(d, c)
    /\ \A r \in reads' : r.desk = d => NextReadOK(d, r)

LEMMA StillDesk ==
    ASSUME Still, NEW d \in Desks, NextDeskOK(d)
    PROVE  DeskOK(d)'
<1>1. Of(d)' = Of(d) /\ UNCHANGED <<log, kind, page>>  BY DEF Still, Of
<1>2. Shows(d, shown[d])'  BY <1>1 DEF NextDeskOK, Shows
<1>3. DialogOK(d)'  BY <1>1 DEF NextDeskOK, NextDialogOK, DialogOK, Status
<1>4. ASSUME NEW c \in calls', c.post.desk = d  PROVE CallOK(d, c)'
  <2>1. NextCallOK(d, c)  BY <1>4 DEF NextDeskOK
  <2>2. PostOK(c.post)'  BY <1>1, <2>1 DEF NextCallOK, PostOK, Of
  <2>3. Shows(d, c.rows)'  BY <1>1, <2>1 DEF NextCallOK, Shows
  <2>4. c.stage \in {"done", "read"} => Made(c.post)'
    BY <1>1, <2>1 DEF NextCallOK, Made, Events
  <2> QED  BY <1>1, <2>1, <2>2, <2>3, <2>4 DEF NextCallOK, CallOK
<1>5. ASSUME NEW r \in reads', r.desk = d  PROVE ReadOK(d, r)'
  <2>1. NextReadOK(d, r)  BY <1>5 DEF NextDeskOK
  <2>2. Shows(d, r.rows)'  BY <1>1, <2>1 DEF NextReadOK, Shows
  <2> QED  BY <1>1, <2>1, <2>2 DEF NextReadOK, ReadOK, NothingShown
<1> QED  BY <1>2, <1>3, <1>4, <1>5 DEF DeskOK

(* A step of another tab.                                                  *)
Apart(d) ==
    /\ shown'[d] = shown[d] /\ loading'[d] = loading[d]
    /\ updating'[d] = updating[d] /\ dialog'[d] = dialog[d]
    /\ \A c \in calls' : c.post.desk = d => c \in calls
    /\ \A r \in reads' : r.desk = d => r \in reads

LEMMA ApartKeeps ==
    ASSUME Still, NEW d \in Desks, DeskOK(d), Apart(d)
    PROVE  DeskOK(d)'
<1>1. Shows(d, shown'[d]) /\ NextDialogOK(d)
  BY DEF Apart, DeskOK, DialogOK, NextDialogOK
<1>2. ASSUME NEW c \in calls', c.post.desk = d  PROVE NextCallOK(d, c)
  BY <1>2 DEF Apart, DeskOK, CallOK, NextCallOK
<1>3. ASSUME NEW r \in reads', r.desk = d  PROVE NextReadOK(d, r)
  BY <1>3 DEF Apart, DeskOK, ReadOK, NextReadOK
<1> QED  BY <1>1, <1>2, <1>3, StillDesk DEF NextDeskOK

LEMMA StillLog ==
    ASSUME LogOK, Still, \A p \in posts' : PostOK(p)
    PROVE  LogOK'
<1>1. UNCHANGED <<log, kind, page>> /\ Events' = Events  BY DEF Still, Events
<1>2. ASSUME NEW p \in posts'  PROVE PostOK(p)'
  BY <1>1 DEF PostOK, Of
<1>3. ASSUME NEW x \in Events, log[x[1]][x[2]].post # NoPost
      PROVE  PostOK(log[x[1]][x[2]].post)'
  <2>1. PostOK(log[x[1]][x[2]].post)  BY <1>3 DEF LogOK
  <2> QED  BY <1>1, <2>1 DEF PostOK, Of
<1> QED  BY <1>1, <1>2, <1>3 DEF LogOK

(* The rest of the invariant, and that no page falls back, when one tab    *)
(* steps.                                                                  *)
LEMMA StepOf ==
    ASSUME DeskInv, Still, NEW d \in Desks, DeskTypeOK', \A p \in posts' : PostOK(p),
           NextDeskOK(d), \A e \in Desks \ {d} : Apart(e),
           page[d] \in Items /\ shown'[d] # NothingShown =>
               \A i \in Items : shown'[d][i] >= shown[d][i]
    PROVE  DeskInv' /\ Forward
<1>1. DeskTypeOK /\ LogOK /\ \A e \in Desks : DeskOK(e)  BY DEF DeskInv
<1>2. LogOK'  BY <1>1, StillLog
<1>3. ASSUME NEW e \in Desks  PROVE DeskOK(e)'
  <2>1. CASE e = d  BY <2>1, StillDesk
  <2>2. CASE e # d  BY <1>1, <2>2, ApartKeeps
  <2> QED  BY <2>1, <2>2
<1>4. Forward
  <2> SUFFICES ASSUME NEW e \in Desks, page[e] \in Items, shown'[e] # NothingShown, NEW i \in Items
               PROVE  shown'[e][i] >= shown[e][i]
    BY DEF Forward
  <2>1. CASE e = d  BY <2>1
  <2>2. CASE e # d  BY <1>1, <2>2 DEF Apart, DeskTypeOK
  <2> QED  BY <2>1, <2>2
<1> QED  BY <1>2, <1>3, <1>4 DEF DeskInv

LEMMA RowsFacts ==
    ASSUME DeskInv, NEW d \in Desks, NEW rows \in Rows(d)
    PROVE  /\ rows \in [Items -> Nat] /\ Shows(d, rows)
           /\ page[d] \in Items => \A i \in Items : rows[i] >= shown[d][i]
<1>1. /\ \A i \in Items : Len(log[i]) \in Nat
      /\ shown[d] \in [Items -> Nat] /\ Shows(d, shown[d])
  BY DEF DeskInv, DeskTypeOK, DeskOK
<1>2. PICK visible \in SUBSET Of(d) :
        /\ rows = [i \in Items |-> IF i \in visible THEN Len(log[i]) ELSE 0]
        /\ page[d] \in Items => visible = Of(d)
  BY DEF Rows
<1> QED  BY <1>1, <1>2 DEF Shows

LEMMA MountKeeps ==
    ASSUME DeskInv, NEW d \in Desks, Mount(d), UNCHANGED <<log, counters, posts, fixed>>
    PROVE  DeskInv' /\ Forward
<1> DEFINE first == [desk |-> d, serial |-> 1, read |-> FALSE, rows |-> NothingShown]
<1>1. /\ DeskTypeOK /\ LogOK /\ \A e \in Desks : DeskOK(e)
      /\ shown' = [shown EXCEPT ![d] = NothingShown]
      /\ loading' = [loading EXCEPT ![d] = TRUE]
      /\ updating' = [updating EXCEPT ![d] = Nobody]
      /\ dialog' = [dialog EXCEPT ![d] = NoDialog]
      /\ calls' = {c \in calls : c.post.desk # d}
      /\ reads' = {r \in reads : r.desk # d} \cup {first}
      /\ UNCHANGED <<log, kind, page, opened, sent, posts>>
  BY DEF DeskInv, Mount, counters, fixed
<1>2. NothingShown \in [Items -> Nat] /\ \A i \in Items : NothingShown[i] = 0
  BY DEF NothingShown
<1>3. first \in Read /\ first.desk = d /\ first.rows = NothingShown  BY <1>2 DEF Read
<1> HIDE DEF first
<1>4. DeskTypeOK'  BY <1>1, <1>2, <1>3 DEF DeskTypeOK
<1>5. Shows(d, NothingShown)  BY <1>1, <1>2 DEF Shows, DeskTypeOK
<1>6. NextDeskOK(d)
  <2>1. ASSUME NEW r \in reads', r.desk = d  PROVE r = first  BY <1>1, <2>1
  <2>2. \A c \in calls' : c.post.desk # d  BY <1>1
  <2>3. shown'[d] = NothingShown /\ loading'[d] /\ dialog'[d] = NoDialog
    BY <1>1 DEF DeskTypeOK
  <2> QED  BY <1>3, <1>5, <2>1, <2>2, <2>3 DEF NextDeskOK, NextDialogOK, NextReadOK
<1>7. ASSUME NEW e \in Desks \ {d}  PROVE Apart(e)
  BY <1>1, <1>3 DEF Apart, DeskTypeOK
<1>8. shown'[d] = NothingShown  BY <1>1 DEF DeskTypeOK
<1> QED  BY <1>1, <1>4, <1>6, <1>7, <1>8, StepOf DEF Still, LogOK

LEMMA LoadKeeps ==
    ASSUME DeskInv, NEW d \in Desks, Load(d)
    PROVE  DeskInv' /\ Forward
<1>1. /\ DeskTypeOK /\ LogOK /\ \A e \in Desks : DeskOK(e)
      /\ page[d] \in Queues /\ page[d] \notin Items
      /\ loading' = [loading EXCEPT ![d] = TRUE]
      /\ UNCHANGED <<log, kind, page, shown, updating, dialog, opened, sent, posts, calls>>
  BY DeskAssumption DEF DeskInv, Load, counters, fixed
<1>2. NothingShown \in [Items -> Nat] /\ \A i \in Items : NothingShown[i] = 0
  BY DEF NothingShown
<1>3. PICK r \in Read :
        r.desk = d /\ r.rows = NothingShown /\ reads' = reads \cup {r}
  <2>1. PICK n \in 1 .. MaxLoads :
          reads' = reads \cup {[desk |-> d, serial |-> n, read |-> FALSE, rows |-> NothingShown]}
    BY DEF Load
  <2>2. PICK r : r = [desk |-> d, serial |-> n, read |-> FALSE, rows |-> NothingShown]
    OBVIOUS
  <2>3. r \in Read  BY <1>2, <2>2, DeskAssumption DEF Read
  <2> QED  BY <2>1, <2>2, <2>3
<1>4. DeskTypeOK'  BY <1>1, <1>3 DEF DeskTypeOK
<1>5. Shows(d, NothingShown)  BY <1>1, <1>2 DEF Shows, DeskTypeOK
<1>6. NextDeskOK(d)
  <2>1. Shows(d, shown'[d]) /\ NextDialogOK(d)
    BY <1>1 DEF DeskOK, DialogOK, NextDialogOK
  <2>2. ASSUME NEW c \in calls', c.post.desk = d  PROVE NextCallOK(d, c)
    BY <1>1, <2>2 DEF DeskOK, CallOK, NextCallOK
  <2>3. ASSUME NEW other \in reads', other.desk = d  PROVE NextReadOK(d, other)
    BY <1>1, <1>3, <1>5, <2>3 DEF DeskOK, ReadOK, NextReadOK
  <2> QED  BY <2>1, <2>2, <2>3 DEF NextDeskOK
<1>7. ASSUME NEW e \in Desks \ {d}  PROVE Apart(e)
  BY <1>1, <1>3 DEF Apart, DeskTypeOK
<1>8. \A i \in Items : shown'[d][i] >= shown[d][i]  BY <1>1 DEF DeskTypeOK
<1> QED  BY <1>1, <1>4, <1>6, <1>7, <1>8, StepOf DEF Still, LogOK

LEMMA ReadRowsKeeps ==
    ASSUME DeskInv, NEW r \in reads, ReadRows(r)
    PROVE  DeskInv' /\ Forward
<1> DEFINE d == r.desk
<1>1. /\ DeskTypeOK /\ LogOK /\ r \in Read /\ d \in Desks
      /\ \A e \in Desks : DeskOK(e)
      /\ UNCHANGED <<log, kind, page, shown, loading, updating, dialog, opened, sent, posts, calls>>
  BY DEF DeskInv, DeskTypeOK, ReadRows, desks, counters, fixed, Read
<1>2. PICK rows \in Rows(d) : reads' = (reads \ {r}) \cup {[r EXCEPT !.read = TRUE, !.rows = rows]}
  BY DEF ReadRows
<1>3. rows \in [Items -> Nat] /\ Shows(d, rows)  BY <1>1, RowsFacts
<1>4. PICK n \in Read : n.desk = d /\ n.rows = rows /\ reads' = (reads \ {r}) \cup {n}
  <2>1. /\ [r EXCEPT !.read = TRUE] \in Read /\ [r EXCEPT !.read = TRUE].desk = d
    BY <1>1 DEF Read
  <2>2. PICK m \in Read : m = [r EXCEPT !.read = TRUE] /\ m.desk = d  BY <2>1
  <2>3. [r EXCEPT !.read = TRUE, !.rows = rows] = [m EXCEPT !.rows = rows]  BY <2>2
  <2>4. /\ [m EXCEPT !.rows = rows] \in Read /\ [m EXCEPT !.rows = rows].desk = d
        /\ [m EXCEPT !.rows = rows].rows = rows
    BY <1>3, <2>2 DEF Read
  <2> QED  BY <1>2, <2>3, <2>4
<1>5. DeskTypeOK'  BY <1>1, <1>4 DEF DeskTypeOK
<1>6. NextDeskOK(d)
  <2>1. Shows(d, shown'[d]) /\ NextDialogOK(d)
    BY <1>1 DEF DeskOK, DialogOK, NextDialogOK
  <2>2. ASSUME NEW c \in calls', c.post.desk = d  PROVE NextCallOK(d, c)
    BY <1>1, <2>2 DEF DeskOK, CallOK, NextCallOK
  <2>3. ASSUME NEW other \in reads', other.desk = d  PROVE NextReadOK(d, other)
    <3>1. ReadOK(d, r)  BY <1>1 DEF DeskOK
    <3>2. Shows(d, other.rows)  BY <1>1, <1>3, <1>4, <2>3 DEF DeskOK, ReadOK
    <3>3. page[d] \in Items => \A m \in reads' : m.desk = d => m = n
      BY <1>4, <3>1 DEF ReadOK
    <3> QED  BY <1>1, <2>3, <3>1, <3>2, <3>3 DEF ReadOK, NextReadOK
  <2> QED  BY <2>1, <2>2, <2>3 DEF NextDeskOK
<1>7. ASSUME NEW e \in Desks \ {d}  PROVE Apart(e)
  BY <1>1, <1>4 DEF Apart, DeskTypeOK
<1>8. \A i \in Items : shown'[d][i] >= shown[d][i]  BY <1>1 DEF DeskTypeOK
<1> QED  BY <1>1, <1>5, <1>6, <1>7, <1>8, StepOf DEF Still, LogOK

LEMMA LoadedKeeps ==
    ASSUME DeskInv, NEW r \in reads, Loaded(r)
    PROVE  DeskInv' /\ Forward
<1> DEFINE d == r.desk
<1>1. /\ DeskTypeOK /\ LogOK /\ r \in Read /\ d \in Desks /\ ReadOK(d, r)
      /\ \A e \in Desks : DeskOK(e)
      /\ UNCHANGED <<log, kind, page, opened, sent, posts>>
  BY DEF DeskInv, DeskTypeOK, DeskOK, Loaded, counters, fixed, Read
<1>2. CASE Crashes(d, r.rows)
  <2>1. Mount(d) /\ UNCHANGED <<log, counters, posts, fixed>>  BY <1>2 DEF Loaded
  <2> QED  BY <1>1, <2>1, MountKeeps
<1>3. CASE ~ Crashes(d, r.rows)
  <2>1. /\ shown' = [shown EXCEPT ![d] = r.rows] /\ loading' = [loading EXCEPT ![d] = FALSE]
        /\ reads' = reads \ {r} /\ UNCHANGED <<updating, dialog, calls>>
    BY <1>3 DEF Loaded
  <2>2. DeskTypeOK' /\ shown'[d] = r.rows  BY <1>1, <2>1 DEF DeskTypeOK, Read
  <2>3. NextDeskOK(d)
    <3>1. Shows(d, shown'[d])  BY <1>1, <2>2 DEF ReadOK
    <3>2. NextDialogOK(d)  BY <1>1, <2>1 DEF DeskOK, DialogOK, ReadOK, NextDialogOK
    <3>3. ASSUME NEW c \in calls', c.post.desk = d  PROVE NextCallOK(d, c)
      <4>1. CallOK(d, c) /\ page[d] \notin Items  BY <1>1, <2>1, <3>3 DEF DeskOK, ReadOK
      <4> QED  BY <4>1 DEF CallOK, NextCallOK
    <3>4. ASSUME NEW m \in reads', m.desk = d  PROVE NextReadOK(d, m)
      <4>1. ReadOK(d, m) /\ page[d] \notin Items  BY <1>1, <2>1, <3>4 DEF DeskOK, ReadOK
      <4> QED  BY <4>1 DEF ReadOK, NextReadOK
    <3> QED  BY <3>1, <3>2, <3>3, <3>4 DEF NextDeskOK
  <2>4. ASSUME NEW e \in Desks \ {d}  PROVE Apart(e)
    BY <1>1, <2>1 DEF Apart, DeskTypeOK
  <2>5. ASSUME page[d] \in Items, NEW i \in Items  PROVE shown'[d][i] >= shown[d][i]
    <3>1. shown[d] = NothingShown /\ r.rows[i] \in Nat  BY <1>1, <2>5 DEF ReadOK, Read
    <3> QED  BY <2>2, <3>1 DEF NothingShown
  <2> QED  BY <1>1, <2>2, <2>3, <2>4, <2>5, StepOf DEF Still, LogOK
<1> QED  BY <1>2, <1>3

LEMMA LoadFailedKeeps ==
    ASSUME DeskInv, NEW r \in reads, LoadFailed(r)
    PROVE  DeskInv' /\ Forward
<1> DEFINE d == r.desk
<1>1. /\ DeskTypeOK /\ LogOK /\ r \in Read /\ d \in Desks /\ ReadOK(d, r)
      /\ \A e \in Desks : DeskOK(e)
      /\ UNCHANGED <<log, kind, page, shown, updating, dialog, opened, sent, posts, calls>>
      /\ loading' = [loading EXCEPT ![d] = FALSE] /\ reads' = reads \ {r}
  BY DEF DeskInv, DeskTypeOK, DeskOK, LoadFailed, counters, fixed, Read
<1>2. DeskTypeOK'  BY <1>1 DEF DeskTypeOK
<1>3. NextDeskOK(d)
  <2>1. Shows(d, shown'[d]) /\ NextDialogOK(d)
    BY <1>1 DEF DeskOK, DialogOK, NextDialogOK
  <2>2. ASSUME NEW c \in calls', c.post.desk = d  PROVE NextCallOK(d, c)
    BY <1>1, <2>2 DEF DeskOK, CallOK, NextCallOK
  <2>3. ASSUME NEW m \in reads', m.desk = d  PROVE NextReadOK(d, m)
    <3>1. ReadOK(d, m) /\ page[d] \notin Items  BY <1>1, <2>3 DEF DeskOK, ReadOK
    <3> QED  BY <3>1 DEF ReadOK, NextReadOK
  <2> QED  BY <2>1, <2>2, <2>3 DEF NextDeskOK
<1>4. ASSUME NEW e \in Desks \ {d}  PROVE Apart(e)
  BY <1>1 DEF Apart, DeskTypeOK
<1>5. \A i \in Items : shown'[d][i] >= shown[d][i]  BY <1>1 DEF DeskTypeOK
<1> QED  BY <1>1, <1>2, <1>3, <1>4, <1>5, StepOf DEF Still, LogOK

LEMMA OpenDialogKeeps ==
    ASSUME DeskInv, NEW d \in Desks, NEW i \in Items, NEW offer \in Offered(kind[i]),
           OpenDialog(d, i, offer[2])
    PROVE  DeskInv' /\ Forward
<1> DEFINE action == offer[2]
           status == Status(i, shown[d][i])
           dg == [id |-> opened, item |-> i, action |-> action, opened |-> status]
<1>1. /\ DeskTypeOK /\ LogOK /\ \A e \in Desks : DeskOK(e)
      /\ ~ loading[d] /\ shown[d][i] > 0 /\ <<status, action>> \in Offered(kind[i])
      /\ NotUpdating(d, i)
      /\ dialog' = [dialog EXCEPT ![d] = dg] /\ opened' = opened + 1
      /\ UNCHANGED <<log, kind, page, shown, loading, updating, sent, posts, calls, reads>>
  BY DEF DeskInv, OpenDialog, fixed
<1>2. i \in Of(d) /\ shown[d][i] \in DOMAIN log[i] /\ log[i] \in Seq(Entry)
  <2>1. /\ shown[d][i] \in Nat /\ shown[d][i] <= Len(log[i]) /\ log[i] \in Seq(Entry)
        /\ Shows(d, shown[d])
    BY <1>1 DEF DeskTypeOK, DeskOK, Shows
  <2> QED  BY <1>1, <2>1 DEF Shows
<1>3. status \in DeskStatuses
  <2>1. log[i][shown[d][i]] \in Entry  BY <1>2
  <2> QED  BY <2>1 DEF Status, Entry
<1>4. action \in WorkflowActions  BY <1>1, OfferedFacts DEF DeskTypeOK
<1>5. PICK new \in Dialog : /\ new = dg /\ new.item = i /\ new.action = action /\ new.opened = status
                            /\ dialog' = [dialog EXCEPT ![d] = new]
  BY <1>1, <1>3, <1>4 DEF Dialog, DeskTypeOK
<1>6. DeskTypeOK' /\ dialog'[d] = new  BY <1>1, <1>5 DEF DeskTypeOK
<1>7. page[d] \in Items => updating[d] = Nobody
  BY <1>1, DeskAssumption DEF NotUpdating
<1>8. NextDeskOK(d)
  <2>1. Shows(d, shown'[d])  BY <1>1 DEF DeskOK
  <2>2. NextDialogOK(d)  BY <1>1, <1>2, <1>5, <1>6 DEF NextDialogOK
  <2>3. ASSUME NEW c \in calls', c.post.desk = d  PROVE NextCallOK(d, c)
    <3>1. CallOK(d, c) /\ c \in Call  BY <1>1, <2>3 DEF DeskOK, DeskTypeOK
    <3>2. c.post.item \in Items  BY <3>1 DEF Call, Post
    <3>3. page[d] \notin Items  BY <1>7, <3>1, <3>2, DeskAssumption DEF CallOK
    <3> QED  BY <3>1, <3>3 DEF CallOK, NextCallOK
  <2>4. ASSUME NEW r \in reads', r.desk = d  PROVE NextReadOK(d, r)
    <3>1. ReadOK(d, r) /\ page[d] \notin Items  BY <1>1, <2>4 DEF DeskOK, ReadOK
    <3> QED  BY <3>1 DEF ReadOK, NextReadOK
  <2> QED  BY <2>1, <2>2, <2>3, <2>4 DEF NextDeskOK
<1>9. ASSUME NEW e \in Desks \ {d}  PROVE Apart(e)
  BY <1>1, <1>5 DEF Apart, DeskTypeOK
<1>10. \A j \in Items : shown'[d][j] >= shown[d][j]  BY <1>1 DEF DeskTypeOK
<1> QED  BY <1>1, <1>6, <1>8, <1>9, <1>10, StepOf DEF Still, LogOK

LEMMA CancelDialogKeeps ==
    ASSUME DeskInv, NEW d \in Desks, CancelDialog(d)
    PROVE  DeskInv' /\ Forward
<1>1. /\ DeskTypeOK /\ LogOK /\ \A e \in Desks : DeskOK(e)
      /\ dialog' = [dialog EXCEPT ![d] = NoDialog]
      /\ UNCHANGED <<log, kind, page, shown, loading, updating, opened, sent, posts, calls, reads>>
  BY DEF DeskInv, CancelDialog, counters, fixed
<1>2. DeskTypeOK' /\ dialog'[d] = NoDialog  BY <1>1 DEF DeskTypeOK
<1>3. NextDeskOK(d)
  <2>1. Shows(d, shown'[d]) /\ NextDialogOK(d)  BY <1>1, <1>2 DEF DeskOK, NextDialogOK
  <2>2. ASSUME NEW c \in calls', c.post.desk = d  PROVE NextCallOK(d, c)
    BY <1>1, <1>2, <2>2 DEF DeskOK, CallOK, NextCallOK
  <2>3. ASSUME NEW r \in reads', r.desk = d  PROVE NextReadOK(d, r)
    BY <1>1, <1>2, <2>3 DEF DeskOK, ReadOK, NextReadOK
  <2> QED  BY <2>1, <2>2, <2>3 DEF NextDeskOK
<1>4. ASSUME NEW e \in Desks \ {d}  PROVE Apart(e)
  BY <1>1 DEF Apart, DeskTypeOK
<1>5. \A i \in Items : shown'[d][i] >= shown[d][i]  BY <1>1 DEF DeskTypeOK
<1> QED  BY <1>1, <1>2, <1>3, <1>4, <1>5, StepOf DEF Still, LogOK

LEMMA SubmitKeeps ==
    ASSUME DeskInv, NEW d \in Desks, NEW choice \in Choices, Submit(d, choice)
    PROVE  DeskInv' /\ Forward
<1> DEFINE dg == dialog[d]
           i == dg.item
           post == [desk |-> d, dialog |-> dg.id, try |-> sent, op |-> operationId(dg),
                    item |-> i, action |-> dg.action, opened |-> dg.opened,
                    expected |-> expectedStatus(d), choice |-> choice]
           call == [post |-> post, stage |-> "sent", rows |-> NothingShown]
<1>1. /\ DeskTypeOK /\ LogOK /\ \A e \in Desks : DeskOK(e)
      /\ dg # NoDialog /\ updating[d] # i
      /\ kind[i] = "order" \/ shown[d][i] > 0
      /\ sent' = sent + 1 /\ updating' = [updating EXCEPT ![d] = i]
      /\ posts' = posts \cup {post} /\ calls' = calls \cup {call}
      /\ UNCHANGED <<log, kind, page, shown, loading, dialog, opened, reads>>
  BY DEF DeskInv, Submit, fixed
<1>2. /\ dg \in Dialog /\ i \in Items /\ i \in Of(d)
      /\ <<dg.opened, dg.action>> \in Offered(kind[i]) /\ kind[i] \in Kinds
      /\ page[d] \in Items => Status(i, shown[d][i]) = dg.opened
  BY <1>1 DEF DeskTypeOK, DeskOK, DialogOK, Dialog
<1>3. /\ dg.id \in Nat /\ dg.action \in WorkflowActions /\ dg.opened \in DeskStatuses
      /\ sent \in Nat
  BY <1>1, <1>2 DEF Dialog, DeskTypeOK
<1>4. dg.action \in DOMAIN Recorded => kind[i] # "order" /\ Recorded[dg.action] = dg.opened
  BY <1>2, OfferedFacts
<1>5. kind[i] # "order" => Status(i, shown[d][i]) \in DeskStatuses
  <2>0. SUFFICES ASSUME kind[i] # "order"  PROVE Status(i, shown[d][i]) \in DeskStatuses
    OBVIOUS
  <2>1. log[i] \in Seq(Entry) /\ shown[d][i] \in 1 .. Len(log[i])
    BY <1>1, <1>2, <2>0 DEF DeskTypeOK, DeskOK, Shows
  <2>2. log[i][shown[d][i]] \in Entry  BY <2>1
  <2> QED  BY <2>2 DEF Status, Entry
<1>6. /\ expectedStatus(d) \in DeskStatuses
      /\ page[d] # "bookings" => expectedStatus(d) = dg.opened
  <2>1. CASE dg.action \in DOMAIN Recorded
    <3>1. expectedStatus(d) = Recorded[dg.action]  BY <2>1 DEF expectedStatus
    <3> QED  BY <1>3, <1>4, <2>1, <3>1
  <2>2. CASE dg.action \notin DOMAIN Recorded /\ kind[i] = "order"
    <3>1. expectedStatus(d) = dg.opened  BY <2>2 DEF expectedStatus
    <3> QED  BY <1>3, <3>1
  <2>3. CASE dg.action \notin DOMAIN Recorded /\ kind[i] # "order"
    <3>1. expectedStatus(d) = Status(i, shown[d][i])  BY <2>3 DEF expectedStatus
    <3>2. page[d] # "orders"  BY <1>2, <2>3, DeskAssumption DEF Of, Queues
    <3>3. page[d] \in Items \/ page[d] = "bookings"  BY <1>1, <3>2 DEF DeskTypeOK, Queues
    <3> QED  BY <1>2, <1>5, <2>3, <3>1, <3>3
  <2> QED  BY <2>1, <2>2, <2>3
<1>7. PICK p \in Post :
        /\ p = post /\ p.desk = d /\ p.item = i /\ p.op = <<p.dialog, 0>>
        /\ p.expected = expectedStatus(d) /\ p.opened = dg.opened
  <2>1. operationId(dg) = <<dg.id, 0>>  BY DEF operationId
  <2>2. post \in Post  BY <1>2, <1>3, <1>6, <2>1 DEF Post
  <2>3. /\ post.desk = d /\ post.item = i /\ post.op = <<post.dialog, 0>>
        /\ post.expected = expectedStatus(d) /\ post.opened = dg.opened
    BY <2>1
  <2> HIDE DEF post
  <2> QED  BY <2>2, <2>3
<1>8. PostOK(p)  BY <1>2, <1>6, <1>7 DEF PostOK
<1>9. NothingShown \in [Items -> Nat] /\ Shows(d, NothingShown)
  BY <1>1 DEF NothingShown, Shows, DeskTypeOK
<1>10. PICK c \in Call :
        /\ c = call /\ c.post = p /\ c.stage = "sent" /\ c.rows = NothingShown
  <2>1. p = post  BY <1>7
  <2> HIDE DEF post
  <2>2. call.post = p /\ call.stage = "sent" /\ call.rows = NothingShown  BY <2>1
  <2>3. call \in Call  BY <1>9, <2>1 DEF Call
  <2> HIDE DEF call
  <2> QED  BY <2>2, <2>3
<1>11. posts' = posts \cup {p} /\ calls' = calls \cup {c}  BY <1>1, <1>7, <1>10
<1> HIDE DEF post, call
<1>12. DeskTypeOK' /\ updating'[d] = i  BY <1>1, <1>2, <1>3, <1>11 DEF DeskTypeOK
<1>13. ASSUME page[d] \in Items, NEW a \in calls, a.post.desk = d  PROVE FALSE
  <2>1. CallOK(d, a) /\ updating[d] = a.post.item  BY <1>1, <1>13 DEF DeskOK, CallOK
  <2>2. a.post.item \in Of(d) /\ Of(d) = {page[d]}
    BY <1>7, <1>13, <2>1 DEF CallOK, PostOK, Of
  <2> QED  BY <1>1, <1>2, <2>1, <2>2
<1>14. NextDeskOK(d)
  <2>1. Shows(d, shown'[d]) /\ NextDialogOK(d)
    BY <1>1 DEF DeskOK, DialogOK, NextDialogOK
  <2>2. ASSUME NEW a \in calls', a.post.desk = d  PROVE NextCallOK(d, a)
    <3>1. CASE a = c
      <4>1. page[d] \in Items => \A other \in calls' : other.post.desk = d => other = c
        BY <1>11, <1>13
      <4> QED  BY <1>7, <1>8, <1>9, <1>10, <1>12, <3>1, <4>1 DEF NextCallOK
    <3>2. CASE a # c
      <4>1. a \in calls /\ page[d] \notin Items  BY <1>11, <1>13, <2>2, <3>2
      <4> QED  BY <1>1, <2>2, <4>1 DEF DeskOK, CallOK, NextCallOK
    <3> QED  BY <3>1, <3>2
  <2>3. ASSUME NEW r \in reads', r.desk = d  PROVE NextReadOK(d, r)
    <3>1. ReadOK(d, r) /\ page[d] \notin Items  BY <1>1, <2>3 DEF DeskOK, ReadOK
    <3> QED  BY <3>1 DEF ReadOK, NextReadOK
  <2> QED  BY <2>1, <2>2, <2>3 DEF NextDeskOK
<1>15. ASSUME NEW e \in Desks \ {d}  PROVE Apart(e)
  BY <1>1, <1>7, <1>10, <1>11 DEF Apart, DeskTypeOK
<1>16. \A q \in posts' : PostOK(q)  BY <1>1, <1>8, <1>11 DEF LogOK
<1>17. \A j \in Items : shown'[d][j] >= shown[d][j]  BY <1>1 DEF DeskTypeOK
<1> QED  BY <1>1, <1>12, <1>14, <1>15, <1>16, <1>17, StepOf DEF Still

(* A call that ends.                                                       *)
LEMMA FailedKeeps ==
    ASSUME DeskInv, NEW c \in calls, Failed(c)
    PROVE  DeskInv' /\ Forward
<1> DEFINE d == c.post.desk
<1>1. /\ DeskTypeOK /\ LogOK /\ \A e \in Desks : DeskOK(e)
      /\ calls' = calls \ {c} /\ updating' = [updating EXCEPT ![d] = Nobody]
      /\ UNCHANGED <<log, kind, page, shown, loading, dialog, opened, sent, posts, reads>>
  BY DEF DeskInv, Failed, Finished, counters, fixed
<1>2. d \in Desks /\ CallOK(d, c)  BY <1>1 DEF DeskTypeOK, Call, Post, DeskOK
<1>3. DeskTypeOK'  BY <1>1, <1>2 DEF DeskTypeOK
<1>4. NextDeskOK(d)
  <2>1. Shows(d, shown'[d]) /\ NextDialogOK(d)
    BY <1>1, <1>2 DEF DeskOK, DialogOK, NextDialogOK
  <2>2. ASSUME NEW a \in calls', a.post.desk = d  PROVE NextCallOK(d, a)
    <3>1. CallOK(d, a) /\ page[d] \notin Items  BY <1>1, <1>2, <2>2 DEF DeskOK, CallOK
    <3> QED  BY <3>1 DEF CallOK, NextCallOK
  <2>3. ASSUME NEW r \in reads', r.desk = d  PROVE NextReadOK(d, r)
    BY <1>1, <1>2, <2>3 DEF DeskOK, ReadOK, NextReadOK
  <2> QED  BY <2>1, <2>2, <2>3 DEF NextDeskOK
<1>5. ASSUME NEW e \in Desks \ {d}  PROVE Apart(e)
  BY <1>1 DEF Apart, DeskTypeOK
<1>6. \A i \in Items : shown'[d][i] >= shown[d][i]  BY <1>1, <1>2 DEF DeskTypeOK
<1> QED  BY <1>1, <1>2, <1>3, <1>4, <1>5, <1>6, StepOf DEF Still, LogOK

LEMMA RereadKeeps ==
    ASSUME DeskInv, NEW c \in calls, Reread(c)
    PROVE  DeskInv' /\ Forward
<1> DEFINE d == c.post.desk
           i == c.post.item
<1>1. /\ DeskTypeOK /\ LogOK /\ \A e \in Desks : DeskOK(e)
      /\ c.stage = "done"
      /\ calls' = (calls \ {c}) \cup {[c EXCEPT !.stage = "read", !.rows[i] = Len(log[i])]}
      /\ UNCHANGED <<log, kind, page, shown, loading, updating, dialog, opened, sent, posts, reads>>
  BY DEF DeskInv, Reread, desks, counters, fixed
<1>2. d \in Desks /\ i \in Items /\ c \in Call /\ CallOK(d, c) /\ i \in Of(d)
  BY <1>1 DEF DeskTypeOK, Call, Post, DeskOK, CallOK, PostOK
<1>3. Len(log[i]) \in Nat /\ shown[d] \in [Items -> Nat] /\ Shows(d, shown[d])
  BY <1>1, <1>2 DEF DeskTypeOK, DeskOK
<1>4. PICK n \in Call :
        /\ n.post = c.post /\ n.stage = "read" /\ n.rows = [c.rows EXCEPT ![i] = Len(log[i])]
        /\ calls' = (calls \ {c}) \cup {n}
  <2>1. /\ [c EXCEPT !.stage = "read"] \in Call /\ [c EXCEPT !.stage = "read"].post = c.post
        /\ [c EXCEPT !.stage = "read"].stage = "read"
        /\ [c EXCEPT !.stage = "read"].rows = c.rows
    BY <1>2 DEF Call
  <2>2. PICK m \in Call : /\ m = [c EXCEPT !.stage = "read"] /\ m.post = c.post
                          /\ m.stage = "read" /\ m.rows = c.rows
    BY <2>1
  <2>3. [c EXCEPT !.stage = "read", !.rows[i] = Len(log[i])] = [m EXCEPT !.rows[i] = Len(log[i])]
    BY <2>2
  <2>4. /\ [m EXCEPT !.rows[i] = Len(log[i])] \in Call
        /\ [m EXCEPT !.rows[i] = Len(log[i])].post = m.post
        /\ [m EXCEPT !.rows[i] = Len(log[i])].stage = m.stage
        /\ [m EXCEPT !.rows[i] = Len(log[i])].rows = [m.rows EXCEPT ![i] = Len(log[i])]
    BY <1>2, <1>3, <2>2 DEF Call
  <2> QED  BY <1>1, <2>2, <2>3, <2>4
<1>5. DeskTypeOK'  BY <1>1, <1>4 DEF DeskTypeOK
<1>6. Shows(d, n.rows) /\ n.rows[i] = Len(log[i]) /\ n.rows[i] >= shown[d][i]
  <2>1. c.rows \in [Items -> Nat] /\ Shows(d, c.rows)  BY <1>2 DEF Call, CallOK
  <2> QED  BY <1>2, <1>3, <1>4, <2>1 DEF Shows
<1>7. NextDeskOK(d)
  <2>1. Shows(d, shown'[d]) /\ NextDialogOK(d)
    BY <1>1, <1>2 DEF DeskOK, DialogOK, NextDialogOK
  <2>2. ASSUME NEW a \in calls', a.post.desk = d  PROVE NextCallOK(d, a)
    <3>1. CASE a = n
      <4>1. page[d] \in Items => \A other \in calls' : other.post.desk = d => other = n
        BY <1>2, <1>4 DEF CallOK
      <4>2. PostOK(n.post) /\ Made(n.post)  BY <1>1, <1>2, <1>4 DEF CallOK
      <4> QED  BY <1>1, <1>2, <1>4, <1>6, <3>1, <4>1, <4>2 DEF CallOK, NextCallOK
    <3>2. CASE a # n
      <4>1. CallOK(d, a) /\ page[d] \notin Items
        BY <1>1, <1>2, <1>4, <2>2, <3>2 DEF DeskOK, CallOK
      <4> QED  BY <4>1 DEF CallOK, NextCallOK
    <3> QED  BY <3>1, <3>2
  <2>3. ASSUME NEW r \in reads', r.desk = d  PROVE NextReadOK(d, r)
    <3>1. ReadOK(d, r) /\ page[d] \notin Items  BY <1>1, <1>2, <2>3 DEF DeskOK, ReadOK
    <3> QED  BY <3>1 DEF ReadOK, NextReadOK
  <2> QED  BY <2>1, <2>2, <2>3 DEF NextDeskOK
<1>8. ASSUME NEW e \in Desks \ {d}  PROVE Apart(e)
  BY <1>1, <1>4 DEF Apart
<1>9. \A j \in Items : shown'[d][j] >= shown[d][j]  BY <1>1, <1>3
<1> QED  BY <1>1, <1>2, <1>5, <1>7, <1>8, <1>9, StepOf DEF Still, LogOK

LEMMA UpdatedKeeps ==
    ASSUME DeskInv, NEW c \in calls, Updated(c)
    PROVE  DeskInv' /\ Forward
<1> DEFINE d == c.post.desk
           i == c.post.item
<1>1. /\ DeskTypeOK /\ LogOK /\ \A e \in Desks : DeskOK(e)
      /\ c.stage = "read"
      /\ dialog' = [dialog EXCEPT ![d] = NoDialog]
      /\ calls' = calls \ {c} /\ updating' = [updating EXCEPT ![d] = Nobody]
      /\ UNCHANGED <<log, kind, page, loading, opened, sent, posts, reads>>
  BY DEF DeskInv, Updated, Finished, counters, fixed
<1>2. /\ d \in Desks /\ i \in Items /\ CallOK(d, c) /\ c.rows \in [Items -> Nat]
      /\ Shows(d, c.rows)
  BY <1>1 DEF DeskTypeOK, Call, Post, DeskOK, CallOK
<1>3. /\ shown[d] \in [Items -> Nat] /\ Shows(d, shown[d])
      /\ \A j \in Items : Len(log[j]) \in Nat
  BY <1>1, <1>2 DEF DeskTypeOK, DeskOK
<1>4. PICK rows \in [Items -> Nat] :
        /\ rows = [shown[d] EXCEPT ![i] = IF @ > 0 THEN c.rows[i] ELSE 0]
        /\ shown' = [shown EXCEPT ![d] = rows]
  BY <1>1, <1>2, <1>3 DEF Updated, DeskTypeOK
<1>5. \A j \in Items : rows[j] = (IF j # i THEN shown[d][j]
                                  ELSE IF shown[d][i] > 0 THEN c.rows[i] ELSE 0)
  BY <1>2, <1>3, <1>4
<1>6. DeskTypeOK' /\ shown'[d] = rows /\ dialog'[d] = NoDialog
  BY <1>1, <1>2, <1>4 DEF DeskTypeOK
<1>7. Shows(d, rows)
  <2> SUFFICES ASSUME NEW j \in Items
               PROVE  rows[j] <= Len(log[j]) /\ (rows[j] > 0 => j \in Of(d))
    BY DEF Shows
  <2>1. CASE j = i  BY <1>2, <1>3, <1>5, <2>1 DEF Shows
  <2>2. CASE j # i  BY <1>3, <1>5, <2>2 DEF Shows
  <2> QED  BY <2>1, <2>2
<1>8. NextDeskOK(d)
  <2>1. Shows(d, shown'[d]) /\ NextDialogOK(d)  BY <1>6, <1>7 DEF NextDialogOK
  <2>2. ASSUME NEW a \in calls', a.post.desk = d  PROVE NextCallOK(d, a)
    <3>1. CallOK(d, a) /\ page[d] \notin Items  BY <1>1, <1>2, <2>2 DEF DeskOK, CallOK
    <3> QED  BY <3>1 DEF CallOK, NextCallOK
  <2>3. ASSUME NEW r \in reads', r.desk = d  PROVE NextReadOK(d, r)
    <3>1. ReadOK(d, r) /\ page[d] \notin Items  BY <1>1, <1>2, <2>3 DEF DeskOK, ReadOK
    <3> QED  BY <3>1 DEF ReadOK, NextReadOK
  <2> QED  BY <2>1, <2>2, <2>3 DEF NextDeskOK
<1>9. ASSUME NEW e \in Desks \ {d}  PROVE Apart(e)
  BY <1>1, <1>4 DEF Apart, DeskTypeOK
<1>10. page[d] \in Items => \A j \in Items : shown'[d][j] >= shown[d][j]
  <2> SUFFICES ASSUME page[d] \in Items, NEW j \in Items  PROVE rows[j] >= shown[d][j]
    BY <1>6
  <2>1. c.rows[i] >= shown[d][i]  BY <1>1, <1>2 DEF CallOK
  <2>2. shown[d][j] \in Nat /\ c.rows[i] \in Nat  BY <1>2, <1>3
  <2> QED  BY <1>5, <2>1, <2>2
<1> QED  BY <1>1, <1>2, <1>6, <1>8, <1>9, <1>10, StepOf DEF Still, LogOK

LEMMA StaleKeeps ==
    ASSUME DeskInv, NEW c \in calls, Stale(c)
    PROVE  DeskInv' /\ Forward
<1> DEFINE d == c.post.desk
<1>1. /\ DeskTypeOK /\ LogOK /\ \A e \in Desks : DeskOK(e)
      /\ c.stage = "stale" /\ dialog' = [dialog EXCEPT ![d] = NoDialog]
      /\ UNCHANGED <<log, kind, page, shown, loading, updating, opened, sent, posts, reads>>
  BY DEF DeskInv, Stale, counters, fixed
<1>2. d \in Desks /\ c \in Call /\ CallOK(d, c)
  BY <1>1 DEF DeskTypeOK, Call, Post, DeskOK
<1>3. PICK rows \in Rows(d) :
        calls' = (calls \ {c}) \cup {[c EXCEPT !.stage = "refresh", !.rows = rows]}
  BY DEF Stale
<1>4. /\ rows \in [Items -> Nat] /\ Shows(d, rows)
      /\ page[d] \in Items => \A i \in Items : rows[i] >= shown[d][i]
  BY <1>2, RowsFacts
<1>5. PICK n \in Call :
        /\ n.post = c.post /\ n.stage = "refresh" /\ n.rows = rows
        /\ calls' = (calls \ {c}) \cup {n}
  <2>1. /\ [c EXCEPT !.stage = "refresh"] \in Call /\ [c EXCEPT !.stage = "refresh"].post = c.post
        /\ [c EXCEPT !.stage = "refresh"].stage = "refresh"
    BY <1>2 DEF Call
  <2>2. PICK m \in Call : m = [c EXCEPT !.stage = "refresh"] /\ m.post = c.post
                          /\ m.stage = "refresh"
    BY <2>1
  <2>3. [c EXCEPT !.stage = "refresh", !.rows = rows] = [m EXCEPT !.rows = rows]
    BY <2>2
  <2>4. /\ [m EXCEPT !.rows = rows] \in Call
        /\ [m EXCEPT !.rows = rows].post = m.post
        /\ [m EXCEPT !.rows = rows].stage = m.stage
        /\ [m EXCEPT !.rows = rows].rows = rows
    BY <1>4, <2>2 DEF Call
  <2> QED  BY <1>3, <2>2, <2>3, <2>4
<1>6. DeskTypeOK' /\ dialog'[d] = NoDialog  BY <1>1, <1>2, <1>5 DEF DeskTypeOK
<1>7. NextDeskOK(d)
  <2>1. Shows(d, shown'[d]) /\ NextDialogOK(d)
    BY <1>1, <1>2, <1>6 DEF DeskOK, NextDialogOK
  <2>2. ASSUME NEW a \in calls', a.post.desk = d  PROVE NextCallOK(d, a)
    <3>1. CASE a = n
      <4>1. page[d] \in Items => \A other \in calls' : other.post.desk = d => other = n
        BY <1>2, <1>5 DEF CallOK
      <4> QED  BY <1>1, <1>2, <1>4, <1>5, <1>6, <3>1, <4>1 DEF CallOK, NextCallOK
    <3>2. CASE a # n
      <4>1. CallOK(d, a) /\ page[d] \notin Items
        BY <1>1, <1>2, <1>5, <2>2, <3>2 DEF DeskOK, CallOK
      <4> QED  BY <4>1 DEF CallOK, NextCallOK
    <3> QED  BY <3>1, <3>2
  <2>3. ASSUME NEW r \in reads', r.desk = d  PROVE NextReadOK(d, r)
    <3>1. ReadOK(d, r) /\ page[d] \notin Items  BY <1>1, <1>2, <2>3 DEF DeskOK, ReadOK
    <3> QED  BY <3>1 DEF ReadOK, NextReadOK
  <2> QED  BY <2>1, <2>2, <2>3 DEF NextDeskOK
<1>8. ASSUME NEW e \in Desks \ {d}  PROVE Apart(e)
  BY <1>1, <1>5 DEF Apart, DeskTypeOK
<1>9. \A i \in Items : shown'[d][i] >= shown[d][i]  BY <1>1, <1>2 DEF DeskTypeOK
<1> QED  BY <1>1, <1>2, <1>6, <1>7, <1>8, <1>9, StepOf DEF Still, LogOK

LEMMA RefreshedKeeps ==
    ASSUME DeskInv, NEW c \in calls, Refreshed(c)
    PROVE  DeskInv' /\ Forward
<1> DEFINE d == c.post.desk
<1>1. /\ DeskTypeOK /\ LogOK /\ \A e \in Desks : DeskOK(e) /\ c.stage = "refresh"
  BY DEF DeskInv, Refreshed
<1>2. /\ d \in Desks /\ c \in Call /\ CallOK(d, c) /\ Shows(d, c.rows)
      /\ c.rows \in [Items -> Nat]
  BY <1>1 DEF DeskTypeOK, Call, Post, DeskOK, CallOK
<1>3. CASE Crashes(d, c.rows)
  <2>1. Mount(d) /\ UNCHANGED <<log, counters, posts, fixed>>  BY <1>3 DEF Refreshed
  <2> QED  BY <1>2, <2>1, MountKeeps
<1>4. CASE ~ Crashes(d, c.rows)
  <2>1. /\ shown' = [shown EXCEPT ![d] = c.rows] \/ UNCHANGED shown
        /\ calls' = calls \ {c} /\ updating' = [updating EXCEPT ![d] = Nobody]
        /\ UNCHANGED <<log, kind, page, loading, dialog, opened, sent, posts, reads>>
    BY <1>4 DEF Refreshed, Finished, counters, fixed
  <2>2. DeskTypeOK' /\ shown'[d] \in {c.rows, shown[d]}
    BY <1>1, <1>2, <2>1 DEF DeskTypeOK
  <2>3. page[d] \in Items =>
          dialog[d] = NoDialog /\ \A i \in Items : c.rows[i] >= shown[d][i]
    BY <1>1, <1>2 DEF CallOK
  <2>4. NextDeskOK(d)
    <3>1. Shows(d, shown'[d])  BY <1>1, <1>2, <2>2 DEF DeskOK
    <3>2. NextDialogOK(d)  BY <1>1, <1>2, <2>1, <2>3 DEF DeskOK, DialogOK, NextDialogOK
    <3>3. ASSUME NEW a \in calls', a.post.desk = d  PROVE NextCallOK(d, a)
      <4>1. CallOK(d, a) /\ page[d] \notin Items  BY <1>1, <1>2, <2>1, <3>3 DEF DeskOK, CallOK
      <4> QED  BY <4>1 DEF CallOK, NextCallOK
    <3>4. ASSUME NEW r \in reads', r.desk = d  PROVE NextReadOK(d, r)
      <4>1. ReadOK(d, r) /\ page[d] \notin Items  BY <1>1, <1>2, <2>1, <3>4 DEF DeskOK, ReadOK
      <4> QED  BY <4>1 DEF ReadOK, NextReadOK
    <3> QED  BY <3>1, <3>2, <3>3, <3>4 DEF NextDeskOK
  <2>5. ASSUME NEW e \in Desks \ {d}  PROVE Apart(e)
    BY <1>1, <2>1 DEF Apart, DeskTypeOK
  <2>6. ASSUME page[d] \in Items, NEW i \in Items  PROVE shown'[d][i] >= shown[d][i]
    <3>1. c.rows[i] >= shown[d][i] /\ shown[d][i] \in Nat
      BY <1>1, <1>2, <2>3, <2>6 DEF DeskTypeOK
    <3>2. shown'[d][i] \in {c.rows[i], shown[d][i]}  BY <2>2
    <3> QED  BY <3>1, <3>2
  <2> QED  BY <1>1, <1>2, <2>1, <2>2, <2>4, <2>5, <2>6, StepOf DEF Still, LogOK
<1> QED  BY <1>3, <1>4

-----------------------------------------------------------------------------
LEMMA DeskStep == DeskInv /\ DeskNext => DeskInv' /\ Forward
<1> SUFFICES ASSUME DeskInv, DeskNext  PROVE DeskInv' /\ Forward  OBVIOUS
<1>1. CASE \E i \in Items : Move(i)  BY <1>1, MoveKeeps
<1>2. CASE \E p \in posts : Serve(p)  BY <1>2, ServeKeeps
<1>3. CASE \E r \in reads : ReadRows(r) \/ Loaded(r) \/ LoadFailed(r)
  BY <1>3, ReadRowsKeeps, LoadedKeeps, LoadFailedKeeps
<1>4. CASE \E c \in calls : Failed(c) \/ Reread(c) \/ Updated(c) \/ Stale(c) \/ Refreshed(c)
  BY <1>4, FailedKeeps, RereadKeeps, UpdatedKeeps, StaleKeeps, RefreshedKeeps
<1>5. CASE \E d \in Desks : Leave(d)  BY <1>5, MountKeeps DEF Leave
<1>6. CASE \E d \in Desks : Load(d) \/ CancelDialog(d)
  BY <1>6, LoadKeeps, CancelDialogKeeps
<1>7. CASE \E d \in Desks : \E i \in Items : \E offer \in Offered(kind[i]) :
             OpenDialog(d, i, offer[2])
  BY <1>7, OpenDialogKeeps
<1>8. CASE \E d \in Desks : \E choice \in Choices : Submit(d, choice)
  BY <1>8, SubmitKeeps
<1> QED  BY <1>1, <1>2, <1>3, <1>4, <1>5, <1>6, <1>7, <1>8 DEF DeskNext

LEMMA DeskStutter == DeskInv /\ UNCHANGED deskVars => DeskInv' /\ Forward
<1> SUFFICES ASSUME DeskInv, UNCHANGED deskVars  PROVE DeskInv' /\ Forward  OBVIOUS
<1>1. /\ DeskTypeOK /\ LogOK /\ \A d \in Desks : DeskOK(d)
      /\ UNCHANGED <<kind, page, log, shown, loading, updating, dialog, opened, sent,
                     posts, calls, reads>>
  BY DEF DeskInv, deskVars
<1>2. DeskTypeOK'  BY <1>1 DEF DeskTypeOK
<1>3. LogOK'  BY <1>1, StillLog DEF Still, LogOK
<1>4. ASSUME NEW d \in Desks  PROVE DeskOK(d)'
  <2>1. Apart(d)  BY <1>1 DEF Apart
  <2> QED  BY <1>1, <2>1, ApartKeeps DEF Still
<1>5. Forward  BY <1>1 DEF Forward, DeskTypeOK
<1> QED  BY <1>2, <1>3, <1>4, <1>5 DEF DeskInv

LEMMA DeskInvariant == DeskSpec => []DeskInv
<1>1. DeskInv /\ [DeskNext]_deskVars => DeskInv'  BY DeskStep, DeskStutter
<1> QED  BY <1>1, DeskInitInv, PTL DEF DeskSpec

(* However often a dialog of staff is submitted, answered late or not at   *)
(* all, it decides once, and a tab is told that its decision was made only *)
(* if that very decision was.                                              *)
THEOREM DialogsDecideOnce == DeskSpec => []DecisionsOnce
<1>1. DeskInv => DecisionsOnce
  <2> SUFFICES ASSUME DeskInv  PROVE DecisionsOnce  OBVIOUS
  <2>1. LogOK /\ DeskTypeOK /\ \A d \in Desks : DeskOK(d)  BY DEF DeskInv
  <2>2. ASSUME NEW x \in Events, NEW y \in Events,
               NEW p, p = log[x[1]][x[2]].post, NEW q, q = log[y[1]][y[2]].post,
               p # NoPost, q # NoPost, p.dialog = q.dialog
        PROVE  x = y
    <3>1. p.op = <<p.dialog, 0>> /\ q.op = <<q.dialog, 0>>  BY <2>1, <2>2 DEF LogOK, PostOK
    <3>2. p.op = q.op  BY <2>2, <3>1
    <3> QED  BY <2>1, <2>2, <3>2 DEF LogOK
  <2>3. ASSUME NEW c \in calls, c.stage \in {"done", "read"}
        PROVE  \E p \in Decisions : p.dialog = c.post.dialog /\ p.item = c.post.item
                  /\ p.action = c.post.action /\ p.choice = c.post.choice
    <3>1. c.post.desk \in Desks  BY <2>1 DEF DeskTypeOK, Call, Post
    <3>2. Made(c.post)  BY <2>1, <2>3, <3>1 DEF DeskOK, CallOK
    <3> QED  BY <3>2 DEF Made, Decisions
  <2> QED  BY <2>2, <2>3 DEF DecisionsOnce
<1> QED  BY <1>1, DeskInvariant, PTL

(* What staff decides on the page of a request, or about an order, is      *)
(* decided in the status they saw when they chose the action.              *)
THEOREM DecisionsMeetTheirStatus == DeskSpec => []DecidedAsOpened
<1>1. DeskInv => DecidedAsOpened
  BY DEF DeskInv, LogOK, PostOK, Decisions, DecidedAsOpened
<1> QED  BY <1>1, DeskInvariant, PTL

(* The page of a request does not fall back to an earlier state of it,     *)
(* whichever of its reads and answers comes last.                          *)
THEOREM PagesMoveForward == DeskSpec => NeverBackwards
<1>1. DeskInv /\ [DeskNext]_deskVars => [Forward]_deskVars  BY DeskStep
<1>2. DeskInv /\ [DeskNext]_deskVars =>
        [\A d \in Desks : page[d] \in Items /\ shown'[d] # NothingShown =>
            \A i \in Items : shown'[d][i] >= shown[d][i]]_deskVars
  BY <1>1 DEF Forward
<1> QED  BY <1>2, DeskInvariant, PTL DEF DeskSpec, NeverBackwards
=============================================================================
