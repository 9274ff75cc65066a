--------------------------- MODULE InternalRequests ---------------------------
(***************************************************************************)
(* The signed way from the site to the API.  Each instance of the site     *)
(* signs with the secret it was deployed with, each machine of the API     *)
(* accepts the secrets it was started with, for as long as the signature   *)
(* is young; secrets are introduced and replaced while both serve.         *)
(***************************************************************************)
EXTENDS Integers, Sequences, FiniteSets, SequencesExt

CONSTANTS
    Instances,      \* instances of the site
    Machines,       \* machines of the API
    MAX_AGE,        \* SIGNATURE_MAX_AGE_SECONDS
    MaxSkew,        \* how far the site's clocks may be off
    LastSecond, MaxCalls,   \* bounds
    NoSecret

(* Seconds of two clocks do not begin together, so they may be one apart.  *)
ASSUME InternalRequestsAssumption ==
    /\ MAX_AGE \in Nat /\ MaxSkew \in 1 .. MAX_AGE
    /\ NoSecret \notin {"old", "new"}

VARIABLES
    second,
    step,           \* the present settings: Rollout[step]
    deployed,       \* when an instance was last replaced
    site,           \* the secret of an instance
    skew,           \* how far the clock of an instance is ahead
    machine,        \* the settings a machine was started with
    calls,          \* requests on their way to the API
    turnedAway      \* history: how long those took that were signed and not served

transportVars == <<second, step, deployed, site, skew, machine, calls, turnedAway>>

(* The order in which the settings are changed.  The settings of the site  *)
(* never hold two secrets.                                                 *)
Rollout ==
    LET Settings(secrets, enforcement, vercel) ==
            [fly |-> [secrets |-> secrets, enforcement |-> enforcement], vercel |-> vercel]
    IN  << Settings(<< >>, "log", NoSecret), Settings(<<"old">>, "log", NoSecret),
           Settings(<<"old">>, "log", "old"), Settings(<<"old">>, "require", "old"),
           Settings(<<"new", "old">>, "require", "old"), Settings(<<"new", "old">>, "require", "new"),
           Settings(<<"new">>, "require", "new") >>

TransportInit ==
    /\ second = 0 /\ step = 1 /\ deployed = 0
    /\ site = [i \in Instances |-> Rollout[1].vercel]
    /\ skew \in [Instances -> -MaxSkew .. MaxSkew]
    /\ machine = [m \in Machines |-> Rollout[1].fly]
    /\ calls = {} /\ turnedAway = {}

-----------------------------------------------------------------------------
(* Settings, deployments and starts.                                       *)

(* A step is taken when everything runs with the settings of the one       *)
(* before; the old secret is taken away when its last signature is too old.*)
NextStep ==
    /\ step < Len(Rollout)
    /\ \A i \in Instances : site[i] = Rollout[step].vercel
    /\ \A m \in Machines : machine[m] = Rollout[step].fly
    /\ step + 1 = Len(Rollout) => second - deployed >= MAX_AGE
    /\ step' = step + 1
    /\ UNCHANGED <<second, deployed, site, skew, machine, calls, turnedAway>>

Deploy(i) ==
    /\ site[i] # Rollout[step].vercel
    /\ site' = [site EXCEPT ![i] = Rollout[step].vercel]
    /\ deployed' = second
    /\ UNCHANGED <<second, step, skew, machine, calls, turnedAway>>

(* buildApp reads the settings.                                            *)
Start(m) ==
    /\ machine[m] # Rollout[step].fly
    /\ machine' = [machine EXCEPT ![m] = Rollout[step].fly]
    /\ UNCHANGED <<second, step, deployed, site, skew, calls, turnedAway>>

NextSecond ==
    /\ second < LastSecond /\ second' = second + 1
    /\ UNCHANGED <<step, deployed, site, skew, machine, calls, turnedAway>>

-----------------------------------------------------------------------------
(* Requests.                                                               *)

signInternalRequest(i, limited) ==
    [secret |-> site[i], timestamp |-> second + skew[i], sent |-> second, limited |-> limited]

(* The body is read before the time is taken.  Without a secret the site   *)
(* answers itself.                                                         *)
handleBackendRequest(i, limited) ==
    /\ site[i] # NoSecret /\ Cardinality(calls) < MaxCalls
    /\ calls' = calls \cup {signInternalRequest(i, limited)}
    /\ UNCHANGED <<second, step, deployed, site, skew, machine, turnedAway>>

(* Plausible bugs: the previous secret is not tried; a signature may not   *)
(* be from a clock that is ahead.                                          *)
VerifiedByCurrent(call, m) ==
    /\ machine[m].secrets # << >> /\ call.secret = machine[m].secrets[1]
    /\ second - call.timestamp \in -MAX_AGE .. MAX_AGE
VerifiedInPast(call, m) ==
    call.secret \in ToSet(machine[m].secrets) /\ second - call.timestamp \in 0 .. MAX_AGE

verifyInternalRequest(call, m) ==
    call.secret \in ToSet(machine[m].secrets) /\ second - call.timestamp \in -MAX_AGE .. MAX_AGE

(* A route with a limit of its own needs the address of the customer, and  *)
(* takes it from a verified request only, whatever is enforced.            *)
resolvePublicRateLimitSubject(call, m) == call.limited => verifyInternalRequest(call, m)

Outcome(call, m) ==
    IF machine[m].enforcement = "require" /\ ~ verifyInternalRequest(call, m) THEN "refused"
    ELSE IF ~ resolvePublicRateLimitSubject(call, m) THEN "unavailable" ELSE "served"

Arrive(call, m) ==
    /\ calls' = calls \ {call}
    /\ turnedAway' =
        IF Outcome(call, m) = "served" THEN turnedAway
        ELSE turnedAway \cup {second - call.sent}
    /\ UNCHANGED <<second, step, deployed, site, skew, machine>>

TransportNext ==
    \/ NextStep \/ NextSecond
    \/ \E i \in Instances : Deploy(i) \/ \E limited \in BOOLEAN : handleBackendRequest(i, limited)
    \/ \E m \in Machines : Start(m) \/ \E call \in calls : Arrive(call, m)

TransportSpec == TransportInit /\ [][TransportNext]_transportVars

-----------------------------------------------------------------------------
(* While secrets are introduced and replaced, machine by machine and       *)
(* instance by instance, every request that is signed and arrives in time  *)
(* is served.                                                              *)
SignedIsServed == \A took \in turnedAway : took > MAX_AGE - MaxSkew
=============================================================================
