----------------------------- MODULE DirectLock -----------------------------
(***************************************************************************)
(* The direct-access lock of pktLog: pktHub locks the pages of the app for *)
(* visitors that do not come through it (app/api/suite.py), and renews the *)
(* lock with every request it sends; it is known by the suite token, which *)
(* administrators may make anew at any time. The middleware turns direct   *)
(* visitors away, or takes the lock off when the hub has been silent too   *)
(* long; the start of the process takes it off when the hub does not       *)
(* answer (app/main.py). Each request has a connection of its own to the   *)
(* settings and awaits every statement.                                    *)
(***************************************************************************)
EXTENDS Integers, FiniteSets

CONSTANTS
  Visitors,  \* the direct requests that run at once
  Expiry,    \* 300 s, in ticks
  Local,     \* what the local clock shows, in ticks, ...
  Utc        \* ... when UTC is this

LockConstants ==
  /\ IsFiniteSet(Visitors)
  /\ {Expiry, Local, Utc} \subseteq Nat

VARIABLES
  locked,    \* direct_ui_locked
  beat,      \* the age of lock_heartbeat_at, up to Oldest
  redirect,  \* hub_redirect_url is set
  token,     \* suite_token: none, the one the hub sends, or another
  hub,       \* does the hub run?
  up,        \* does the process run?
  stage,     \* where each direct request is
  renewed    \* the requests that found the lock expired before the hub
             \* renewed it (history)

vars == <<locked, beat, redirect, token, hub, up, stage, renewed>>

Offset == Local - Utc

(* An age beyond which every comparison gives the same. *)
Oldest == Expiry + 1 + (IF Offset < 0 THEN -Offset ELSE Offset)

(* datetime.now() - lock_heartbeat_at, which datetime('now') wrote in UTC. *)
ExpiredEarly == beat + Offset >= Expiry \* mutant
Expired == beat + Offset > Expiry

-----------------------------------------------------------------------------
Init ==
  /\ locked = FALSE
  /\ beat = Oldest
  /\ redirect \in BOOLEAN
  /\ token = "none"
  /\ hub = TRUE
  /\ up = TRUE
  /\ stage = [v \in Visitors |-> "away"]
  /\ renewed = {}

Tick ==
  /\ beat' = IF beat < Oldest THEN beat + 1 ELSE Oldest
  /\ UNCHANGED <<locked, redirect, token, hub, up, stage, renewed>>

(* The hub has renewed the lock that a request is about to take off. *)
Renews == renewed' = {v \in Visitors : stage[v] = "open"}

(* get_suite_token makes the first token and shows it; suite_register and  *)
(* regenerate_suite_token replace it.                                      *)
Store(t) ==
  /\ up
  /\ token' = t
  /\ UNCHANGED <<locked, beat, redirect, hub, up, stage, renewed>>

GetToken == token = "none" /\ Store("other")
Register(t) == Store(t)
Regenerate == Store("other")

(* The administrator pastes the token into pktHub. *)
HubLearnsToken ==
  /\ hub
  /\ token = "other"
  /\ token' = "hub"
  /\ UNCHANGED <<locked, beat, redirect, hub, up, stage, renewed>>

(* X-Suite-Token of the request is the stored one. *)
Authorized == hub /\ up /\ token = "hub"

(* set_hub_redirect_url, of any user that is logged in. *)
SetHubRedirectUrl(url) ==
  /\ up
  /\ redirect' = url
  /\ UNCHANGED <<locked, beat, token, hub, up, stage, renewed>>

(* set_direct_access: lock, heartbeat and address in one commit. *)
SetDirectAccess(l, url) ==
  /\ Authorized
  /\ locked' = l
  /\ beat' = 0
  /\ redirect' = (redirect \/ url)
  /\ Renews
  /\ UNCHANGED <<token, hub, up, stage>>

(* A proxied request, or GET /api/health with the token. *)
Heartbeat ==
  /\ Authorized
  /\ beat' = 0
  /\ Renews
  /\ UNCHANGED <<locked, redirect, token, hub, up, stage>>

(* _direct_access_lock: direct_ui_locked is read ...                       *)
Visit(v) ==
  /\ up
  /\ stage[v] = "away"
  /\ stage' = [stage EXCEPT ![v] = IF locked THEN "beat" ELSE "passed"]
  /\ UNCHANGED <<locked, beat, redirect, token, hub, up, renewed>>

(* ... then the heartbeat ... *)
ReadBeat(v) ==
  /\ stage[v] = "beat"
  /\ stage' = [stage EXCEPT ![v] = IF Expired THEN "open" ELSE "redirect"]
  /\ UNCHANGED <<locked, beat, redirect, token, hub, up, renewed>>

(* ... and the lock is taken off, whatever it is by now ...                *)
OpensNothing == UNCHANGED locked \* mutant: no commit
OpensUi == locked' = FALSE

OpenUi(v) ==
  /\ stage[v] = "open"
  /\ OpensUi
  /\ stage' = [stage EXCEPT ![v] = "passed"]
  /\ renewed' = renewed \ {v}
  /\ UNCHANGED <<beat, redirect, token, hub, up>>

(* ... or the visitor is sent to the hub, if its address is known.         *)
Redirect(v) ==
  /\ stage[v] = "redirect"
  /\ stage' = [stage EXCEPT ![v] = IF redirect THEN "away" ELSE "passed"]
  /\ UNCHANGED <<locked, beat, redirect, token, hub, up, renewed>>

(* A statement of the request fails: the exception is passed over, and the *)
(* page is served all the same.                                            *)
RequestFails(v) ==
  /\ stage[v] \in {"beat", "open", "redirect"}
  /\ stage' = [stage EXCEPT ![v] = "passed"]
  /\ renewed' = renewed \ {v}
  /\ UNCHANGED <<locked, beat, redirect, token, hub, up>>

(* The page is served: the visitor may come again. *)
Served(v) ==
  /\ stage[v] = "passed"
  /\ stage' = [stage EXCEPT ![v] = "away"]
  /\ UNCHANGED <<locked, beat, redirect, token, hub, up, renewed>>

-----------------------------------------------------------------------------
HubStops == hub /\ hub' = FALSE /\ UNCHANGED <<locked, beat, redirect, token, up, stage, renewed>>
HubStarts == ~hub /\ hub' = TRUE /\ UNCHANGED <<locked, beat, redirect, token, up, stage, renewed>>

Stop ==
  /\ up
  /\ up' = FALSE
  /\ stage' = [v \in Visitors |-> "away"]
  /\ renewed' = {}
  /\ UNCHANGED <<locked, beat, redirect, token, hub>>

(* lifespan: the lock is kept only if the hub answers at a known address.  *)
Start ==
  /\ ~up
  /\ up' = TRUE
  /\ locked' = (locked /\ hub /\ redirect)
  /\ UNCHANGED <<beat, redirect, token, hub, stage, renewed>>

(* A restore of pktlog.db brings back an older row of each: an older token *)
(* may be the one the hub still sends.                                     *)
DatabaseRestored ==
  /\ locked' \in BOOLEAN
  /\ beat' \in beat .. Oldest
  /\ redirect' \in BOOLEAN
  /\ token' \in {token, "hub", "other"}
  /\ UNCHANGED <<hub, up, stage, renewed>>

VisitorStep(v) ==
  ReadBeat(v) \/ OpenUi(v) \/ Redirect(v) \/ RequestFails(v) \/ Served(v)

Requests == \E v \in Visitors : Visit(v) \/ VisitorStep(v)

Next ==
  \/ Tick
  \/ \E l, url \in BOOLEAN : SetDirectAccess(l, url)
  \/ Heartbeat
  \/ GetToken \/ Regenerate \/ HubLearnsToken
  \/ \E t \in {"hub", "other"} : Register(t)
  \/ \E url \in BOOLEAN : SetHubRedirectUrl(url)
  \/ Requests
  \/ HubStops \/ HubStarts \/ Stop \/ Start
  \/ DatabaseRestored

Spec == Init /\ [][Next]_vars

(* Time passes, requests go on and come, and a statement that is tried     *)
(* again and again does not fail each time.                                *)
Reads == \E v \in Visitors : ReadBeat(v)
Opens == \E v \in Visitors : OpenUi(v)

Fairness == WF_vars(Tick) /\ WF_vars(Requests) /\ SF_vars(Reads) /\ SF_vars(Opens)

FairSpec == Spec /\ Fairness

-----------------------------------------------------------------------------
(* Properties. *)

(* The variables have the values the code can give them. *)
TypeOK ==
  /\ locked \in BOOLEAN
  /\ beat \in 0 .. Oldest
  /\ redirect \in BOOLEAN
  /\ token \in {"none", "hub", "other"}
  /\ hub \in BOOLEAN
  /\ up \in BOOLEAN
  /\ stage \in [Visitors -> {"away", "beat", "open", "redirect", "passed"}]
  /\ renewed \in SUBSET Visitors
  /\ \A v \in renewed : stage[v] = "open"

(* A visitor takes off a lock whose heartbeat is in time by the clocks as  *)
(* they are compared only if the hub renewed it after the visitor had      *)
(* found it expired; whatever visits, restarts and renewals run at once.   *)
FreshLockOpenedOnlyInRace ==
  [][\A v \in Visitors :
       locked /\ ~locked' /\ stage[v] = "open" /\ stage'[v] = "passed"
         => beat > Expiry - Offset \/ v \in renewed]_vars

(* Nobody stays locked out for good once the hub is gone or its token is   *)
(* revoked ("Use when you need to revoke current pktHub access",           *)
(* app/api/suite.py:102), however far the clocks are apart, whatever lock  *)
(* a restore brings back, and although no request looks at the token again.*)
LockoutEnds == <>[](up /\ (~hub \/ token # "hub")) => []<>(~locked)
=============================================================================
