------------------------------- MODULE Accounts -------------------------------
(***************************************************************************)
(* Staff accounts: sign-in, roles, removal, and password setup by links    *)
(* that are sent by e-mail.                                                *)
(*                                                                         *)
(* Changes of a role and removals hold one advisory lock; issues of links  *)
(* hold one for each user; a setup holds the row of its link.  A task goes *)
(* from "begun" over the stage at which it holds these to its COMMIT.      *)
(***************************************************************************)
EXTENDS Naturals

CONSTANTS
    Users, Founder,     \* accounts, and the owner the bootstrap creates
    Links,              \* password_setup_tokens
    Requests,           \* concurrent requests
    Free,               \* the lock of the owners is not held
    NoTask, NoSession,
    MaxVersion          \* bound: an account at this version is left alone

ASSUME AccountsAssumption ==
    Founder \in Users /\ Free \notin Requests /\ MaxVersion \in Nat

VARIABLES
    users,      \* role, session_version, and which password the hash is of
    links,      \* user, state, and when issued
    clock,      \* orders the issues
    session,    \* for each user, one JWT that it was given and may still use
    owners,     \* holder of pg_advisory_xact_lock(149978, 1111)
    task        \* what each request does

vars == <<users, links, clock, session, owners, task>>

Roles == {"owner", "admin", "staff"}
Account == [role : Roles \cup {"absent", "removed"}, version : Nat, password : Nat]
Link == [user : Users, serial : Nat,
         state : {"unissued", "active", "expired", "used", "revoked"}]
Session == [role : Roles, version : Nat, password : Nat]
Task ==
    [op : {"role", "remove", "create", "issue", "setup", "change"}, user : Users,
     by : Roles, role : Roles, seen : Nat,
     stage : {"begun", "holding"}, held : SUBSET Links]

ASSUME NothingAssumption == NoTask \notin Task /\ NoSession \notin Session

(* The lock of the owners has a holder exactly while one decides on a role.*)
TypeOK ==
    /\ users \in [Users -> Account]
    /\ links \in [Links -> Link]
    /\ session \in [Users -> Session \cup {NoSession}]
    /\ clock \in Nat
    /\ owners \in Requests \cup {Free}
    /\ task \in [Requests -> Task \cup {NoTask}]
    /\ \A s \in Requests :
        (owners = s) <=> /\ task[s] # NoTask /\ task[s].op \in {"role", "remove"}
                         /\ task[s].stage = "holding"

Init ==
    /\ users = [u \in Users |-> [role |-> IF u = Founder THEN "owner" ELSE "absent",
                                 version |-> 0, password |-> 0]]
    /\ links = [l \in Links |-> [user |-> Founder, serial |-> 0, state |-> "unissued"]]
    /\ session = [u \in Users |-> NoSession]
    /\ clock = 0
    /\ owners = Free
    /\ task = [s \in Requests |-> NoTask]

Exists(u) == users[u].role \in Roles

-----------------------------------------------------------------------------
(* Sign-in signs what was read together with the hash it compared.         *)
Login(u) ==
    /\ Exists(u)
    /\ session' = [session EXCEPT ![u] =
            [role |-> users[u].role, version |-> users[u].version,
             password |-> users[u].password]]
    /\ UNCHANGED <<users, links, clock, owners, task>>

(* authenticate: the JWT agrees with the account.                          *)
Current(u) ==
    /\ Exists(u) /\ session[u] # NoSession
    /\ session[u].version = users[u].version
    /\ session[u].role = users[u].role

Begin(s, op, u, by, role, stage, held) ==
    /\ task[s] = NoTask /\ users[u].version < MaxVersion
    /\ task' = [task EXCEPT ![s] =
            [op |-> op, user |-> u, by |-> by, role |-> role,
             seen |-> users[u].version, stage |-> stage, held |-> held]]
    /\ UNCHANGED <<users, links, clock, session, owners>>

(* A failed check, a deadlock that Postgres resolves, or a crash.          *)
End(s) ==
    /\ task' = [task EXCEPT ![s] = NoTask]
    /\ owners' = IF owners = s THEN Free ELSE owners

Abort(s) ==
    /\ task[s] # NoTask
    /\ End(s)
    /\ UNCHANGED <<users, links, clock, session>>

Admin(a) == Current(a) /\ session[a].role \in {"owner", "admin"}

(* Rows locked by the UPDATE, or SELECT FOR UPDATE, of another transaction.*)
HeldByOthers(s) ==
    UNION {task[r].held : r \in {r \in Requests \ {s} : task[r] # NoTask}}

IssuedTo(u) == {l \in Links : links[l].user = u /\ links[l].state # "unissued"}
OpenLinks(u) == {l \in IssuedTo(u) : links[l].state \in {"active", "expired"}}

Revoked(ls) == [l \in Links |-> IF l \in ls THEN [links[l] EXCEPT !.state = "revoked"] ELSE links[l]]

(* INSERT INTO password_setup_tokens; links that are not issued bound it.  *)
Insert(l, u, table) ==
    /\ links[l].state = "unissued"
    /\ links' = [table EXCEPT ![l] = [user |-> u, serial |-> clock, state |-> "active"]]
    /\ clock' = clock + 1

-----------------------------------------------------------------------------
(* Roles and removal.                                                      *)

BeginRole(s, a, u, role) ==
    Admin(a) /\ Begin(s, "role", u, session[a].role, role, "begun", {})

BeginRemove(s, a, u) ==
    Admin(a) /\ a # u /\ Begin(s, "remove", u, session[a].role, "staff", "begun", {})

(* Only an owner touches owners and admins, or makes somebody one.         *)
Permitted(t) ==
    LET role == users[t.user].role IN
    /\ role = "owner" => t.by = "owner"
    /\ t.op = "remove" /\ role # "staff" => t.by = "owner"
    /\ t.op = "role" /\ t.role # role => t.by = "owner"

(* countByRole("owner") <= 1.                                              *)
SoleOwner(u) ==
    users[u].role = "owner" /\ \A v \in Users \ {u} : users[v].role # "owner"

(* What is read and decided under the lock.                                *)
Decide(s) ==
    LET t == task[s] IN
    /\ t # NoTask /\ t.op \in {"role", "remove"} /\ t.stage = "begun"
    /\ Exists(t.user) /\ Permitted(t)
    /\ t.op = "remove" \/ t.role # users[t.user].role => ~ SoleOwner(t.user)
    /\ task' = [task EXCEPT ![s].stage = "holding", ![s].seen = users[t.user].version]
    /\ owners' = s
    /\ UNCHANGED <<users, links, clock, session>>

LockOwners(s) == owners = Free /\ Decide(s)

(* A plausible bug: the version is computed from the account as it was     *)
(* read before.                                                            *)
BumpedAsRead(s) == task[s].seen + 1

(* session_version is incremented by the UPDATE itself.                    *)
Bumped(s) == users[task[s].user].version + 1

CommitRole(s) ==
    LET t == task[s] IN
    /\ t # NoTask /\ t.op = "role" /\ t.stage = "holding"
    /\ users' = [users EXCEPT ![t.user] =
            [role |-> t.role, version |-> Bumped(s), password |-> @.password]]
    /\ End(s)
    /\ UNCHANGED <<links, clock, session>>

(* The foreign key deletes the links, and waits for those that are locked. *)
CommitRemove(s) ==
    LET t == task[s] IN
    /\ t # NoTask /\ t.op = "remove" /\ t.stage = "holding"
    /\ IssuedTo(t.user) \cap HeldByOthers(s) = {}
    /\ users' = [users EXCEPT ![t.user].role = "removed"]
    /\ links' = Revoked(OpenLinks(t.user))
    /\ End(s)
    /\ UNCHANGED <<clock, session>>

-----------------------------------------------------------------------------
(* New accounts and setup links.                                           *)

BeginCreate(s, a, u, role) ==
    /\ Admin(a) /\ users[u].role = "absent"
    /\ role # "staff" => session[a].role = "owner"
    /\ Begin(s, "create", u, session[a].role, role, "begun", {})

(* The e-mail address is unique; nobody else can see the new account yet.  *)
CommitCreate(s) ==
    LET t == task[s] IN
    /\ t # NoTask /\ t.op = "create" /\ users[t.user].role = "absent"
    /\ users' = [users EXCEPT ![t.user].role = t.role]
    /\ \E l \in Links : Insert(l, t.user, links)
    /\ End(s)
    /\ UNCHANGED session

(* requestForEmail asks nothing of the caller; resetPassword asks for an   *)
(* admin first.                                                            *)
BeginIssue(s, u) ==
    Exists(u) /\ Begin(s, "issue", u, "staff", "staff", "begun", {})

Issuing(r, u) ==
    task[r] # NoTask /\ task[r].op = "issue" /\ task[r].user = u /\ task[r].stage = "holding"

(* The UPDATE that revokes what is still open locks those rows.            *)
RevokeOpen(s) ==
    LET t == task[s] IN
    /\ t # NoTask /\ t.op = "issue" /\ t.stage = "begun"
    /\ OpenLinks(t.user) \cap HeldByOthers(s) = {}
    /\ task' = [task EXCEPT ![s].stage = "holding", ![s].held = OpenLinks(t.user)]
    /\ UNCHANGED <<users, links, clock, session, owners>>

(* lockForIssue: one transaction at a time issues links for a user.        *)
Revoke(s) ==
    /\ \A r \in Requests \ {s} : task[s] # NoTask => ~ Issuing(r, task[s].user)
    /\ RevokeOpen(s)

(* The new link; its foreign key needs the account.                        *)
CommitIssue(s) ==
    LET t == task[s] IN
    /\ t # NoTask /\ t.op = "issue" /\ t.stage = "holding"
    /\ Exists(t.user)
    /\ \E l \in Links : Insert(l, t.user, Revoked(t.held))
    /\ End(s)
    /\ UNCHANGED <<users, session>>

-----------------------------------------------------------------------------
(* New passwords.                                                          *)

(* findActiveByDigestForUpdate.                                            *)
BeginSetup(s, l) ==
    /\ links[l].state = "active" /\ l \notin HeldByOthers(s)
    /\ Begin(s, "setup", links[l].user, "staff", "staff", "holding", {l})

NewPassword(s) ==
    LET u == task[s].user IN
    users' = [users EXCEPT ![u] =
        [role |-> @.role, version |-> Bumped(s), password |-> @.password + 1]]

(* A plausible bug: markUsed does not look at the link again.              *)
CommitSetupAnyway(s) ==
    LET t == task[s] IN
    /\ t # NoTask /\ t.op = "setup"
    /\ Exists(t.user)
    /\ NewPassword(s)
    /\ links' = [l \in Links |-> IF l \in t.held THEN [links[l] EXCEPT !.state = "used"]
                                 ELSE Revoked(OpenLinks(t.user))[l]]
    /\ End(s)
    /\ UNCHANGED <<clock, session>>

(* The password, markUsed, which looks at the clock again, and the         *)
(* revocation of every other link.                                         *)
CommitSetup(s) ==
    LET t == task[s] IN
    /\ t # NoTask /\ t.op = "setup"
    /\ Exists(t.user)
    /\ \A l \in t.held : links[l].state = "active"
    /\ OpenLinks(t.user) \cap HeldByOthers(s) = {}
    /\ NewPassword(s)
    /\ links' = [l \in Links |-> IF l \in t.held THEN [links[l] EXCEPT !.state = "used"]
                                 ELSE Revoked(OpenLinks(t.user))[l]]
    /\ End(s)
    /\ UNCHANGED <<clock, session>>

(* changePassword compares the old password, and hashes the new one, before*)
(* it writes.                                                              *)
BeginChange(s, u) ==
    Current(u) /\ Begin(s, "change", u, session[u].role, "staff", "begun", {})

CommitChange(s) ==
    LET t == task[s] IN
    /\ t # NoTask /\ t.op = "change" /\ Exists(t.user)
    /\ NewPassword(s)
    /\ End(s)
    /\ UNCHANGED <<links, clock, session>>

(* An hour passes since the link was issued.                               *)
Expire(l) ==
    /\ links[l].state = "active"
    /\ links' = [links EXCEPT ![l].state = "expired"]
    /\ UNCHANGED <<users, clock, session, owners, task>>

-----------------------------------------------------------------------------
Ask(s) ==
    \/ \E a, u \in Users :
        \/ BeginRemove(s, a, u)
        \/ \E role \in Roles : BeginRole(s, a, u, role) \/ BeginCreate(s, a, u, role)
    \/ \E u \in Users : BeginIssue(s, u) \/ BeginChange(s, u)
    \/ \E l \in Links : BeginSetup(s, l)

Step(s) ==
    \/ LockOwners(s) \/ CommitRole(s) \/ CommitRemove(s) \/ CommitCreate(s)
    \/ Revoke(s) \/ CommitIssue(s) \/ CommitSetup(s) \/ CommitChange(s)
    \/ Abort(s)

Next ==
    \/ \E u \in Users : Login(u)
    \/ \E l \in Links : Expire(l)
    \/ \E s \in Requests : Ask(s) \/ Step(s)

Spec == Init /\ [][Next]_vars

-----------------------------------------------------------------------------
(* There is always an owner, also when owners demote and remove each other *)
(* at the same time.                                                       *)
OwnerRemains == \E u \in Users : users[u].role = "owner"

(* However issues and setups overlap, a user has at most one link that     *)
(* works.                                                                  *)
OneLinkPerUser ==
    \A k, l \in Links :
        (links[k].state = "active" /\ links[l].state = "active" /\ links[k].user = links[l].user)
            => k = l

(* A session that is still accepted was opened with the present password:  *)
(* no two changes of an account leave it with a version it had before.     *)
SessionsFollowPassword ==
    \A u \in Users : Current(u) => session[u].password = users[u].password

(* A password is set by a link that works at that moment and is the newest *)
(* of its user, and a link that is used or revoked stays so.               *)
NewestLinkSets ==
    [][\A l \in Links :
        /\ (links'[l].state = "used" /\ links[l].state # "used") =>
            /\ links[l].state = "active"
            /\ \A k \in IssuedTo(links[l].user) : links[k].serial <= links[l].serial
        /\ links[l].state \in {"used", "revoked"} => links'[l] = links[l]]_vars
=============================================================================
