----------------------------- MODULE Resonance -----------------------------
(***************************************************************************)
(* The server side of pktLog's resonance widget (app/api/resonance.py):    *)
(* each page load asks for a session code, counted against the limits of   *)
(* its user and of the install, and refused while the circuit breaker is   *)
(* open (app/integrations/resonance/limiter.py). Counts and breaker are    *)
(* rows of the database; each request has a connection of its own and      *)
(* awaits every statement and the call of resonance.                       *)
(*                                                                         *)
(* All page loads are of one user. Of two statements in a row that no      *)
(* other request's step can tell apart, one step is made.                  *)
(***************************************************************************)
EXTENDS Naturals, FiniteSets

CONSTANTS
  Requests,            \* the requests that run at once
  UserLimit, GlobalLimit,
  Window,              \* USER_WINDOW_SECONDS, GLOBAL_WINDOW_SECONDS, in ticks
  TransientThreshold,  \* TRANSIENT_FAILURE_THRESHOLD
  ConfigCooldown, TransientCooldown  \* in ticks

ConfigThreshold == 2  \* CONFIG_FAILURE_THRESHOLD

ResonanceConstants ==
  /\ IsFiniteSet(Requests) /\ Requests # {}
  /\ {UserLimit, GlobalLimit, Window, ConfigCooldown, TransientCooldown} \subseteq Nat \ {0}
  /\ TransientThreshold \in Nat
  /\ TransientThreshold >= ConfigThreshold

VARIABLES
  rate,      \* resonance_rate: the count and the age of each window
  failures,  \* consecutive_failures, up to TransientThreshold
  openFor,   \* the ticks until open_until
  request,   \* where each request is
  server,    \* what resonance answers: "ok", "config" or "transient" error
  enabled,   \* resonance_enabled, and the role is allowed
  passed,    \* the requests let through in each window (history)
  quiet,     \* configuration errors counted since the breaker last opened
             \* or a success cleared it (history)
  served     \* has the last step handed out a code? (history)

breakerVars == <<failures, openFor>>
vars == <<rate, breakerVars, request, server, enabled, passed, quiet, served>>

Buckets == {"user", "global"}
LimitOf == [user |-> UserLimit, global |-> GlobalLimit]

CountUpTo(n, max) == IF n < max THEN n + 1 ELSE max

Idle == [at |-> "idle", read |-> 0, error |-> "ok"]
At(r, stage) == [request EXCEPT ![r].at = stage]
End(r) == [request EXCEPT ![r] = Idle]

-----------------------------------------------------------------------------
Init ==
  /\ rate = [b \in Buckets |-> [count |-> 0, age |-> Window]]
  /\ failures = 0
  /\ openFor = 0
  /\ request = [r \in Requests |-> Idle]
  /\ server \in {"ok", "config", "transient"}
  /\ enabled \in BOOLEAN
  /\ passed = [b \in Buckets |-> 0]
  /\ quiet = 0
  /\ served = FALSE

(* The upsert of consume(): the window starts anew once it is over. *)
FixedWindow(b) ==
  IF rate[b].age >= Window
    THEN [count |-> 1, age |-> 0]
    ELSE [rate[b] EXCEPT !.count = CountUpTo(@, LimitOf[b] + 1)]

Consume(b) ==
  /\ rate' = [rate EXCEPT ![b] = FixedWindow(b)]
  /\ passed' = [passed EXCEPT ![b] = IF rate[b].age >= Window THEN 0 ELSE @]

(* GET /code: the refusals before the limiter leave no trace. The switch   *)
(* is on, the request is not from another site, its cookie or suite token  *)
(* tells an active user, and the role of that user is allowed.             *)
Admitted == enabled

Code(r) ==
  /\ request[r] = Idle
  /\ Admitted
  /\ Consume("user")
  /\ request' = At(r, "user")
  /\ served' = FALSE
  /\ UNCHANGED <<breakerVars, server, enabled, quiet>>

(* The SELECT of consume(), after its commit: over the limit? *)
OverOffByTwo(b) == rate[b].count > LimitOf[b] + 1 \* mutant
Over(b) == rate[b].count > LimitOf[b]

Refused(r, b) ==
  /\ request[r].at = b
  /\ Over(b)
  /\ request' = End(r)
  /\ served' = FALSE
  /\ UNCHANGED <<rate, breakerVars, server, enabled, passed, quiet>>

(* The user's limit first, then the one of the install. *)
PassesUser(r) ==
  /\ request[r].at = "user"
  /\ ~Over("user")
  /\ rate' = [rate EXCEPT !["global"] = FixedWindow("global")]
  /\ passed' = [user   |-> passed["user"] + 1,
                global |-> IF rate["global"].age >= Window THEN 0 ELSE passed["global"]]
  /\ request' = At(r, "global")
  /\ served' = FALSE
  /\ UNCHANGED <<breakerVars, server, enabled, quiet>>

PassesGlobal(r) ==
  /\ request[r].at = "global"
  /\ ~Over("global")
  /\ passed' = [passed EXCEPT !["global"] = @ + 1]
  /\ request' = At(r, "breaker")
  /\ served' = FALSE
  /\ UNCHANGED <<rate, breakerVars, server, enabled, quiet>>

(* assert_closed: an open breaker refuses, and is not a failure. *)
RefusalCounts(r) == [request EXCEPT ![r] = [at |-> "failed", read |-> failures, error |-> "transient"]] \* mutant
RefusalEnds(r) == End(r)

AssertClosed(r) ==
  /\ request[r].at = "breaker"
  /\ request' = IF openFor > 0 THEN RefusalEnds(r) ELSE At(r, "call")
  /\ served' = FALSE
  /\ UNCHANGED <<rate, breakerVars, server, enabled, passed, quiet>>

(* record_success, also of a call begun before the breaker opened. *)
RecordSuccess ==
  /\ failures' = 0
  /\ openFor' = 0
  /\ quiet' = 0

Succeeds(r) ==
  /\ request[r].at = "call"
  /\ server = "ok"
  /\ RecordSuccess
  /\ request' = End(r)
  /\ served' = TRUE
  /\ UNCHANGED <<rate, server, enabled, passed>>

(* The call fails; record_failure reads consecutive_failures ... *)
Fails(r) ==
  /\ request[r].at = "call"
  /\ server # "ok"
  /\ request' = [request EXCEPT ![r] = [at |-> "failed", read |-> failures, error |-> server]]
  /\ served' = FALSE
  /\ UNCHANGED <<rate, breakerVars, server, enabled, passed, quiet>>

(* ... and writes one more than it has read, whatever the row holds now.   *)
OneThreshold(error) == TransientThreshold \* mutant
Threshold(error) == IF error = "config" THEN ConfigThreshold ELSE TransientThreshold

Cooldown(error) == IF error = "config" THEN ConfigCooldown ELSE TransientCooldown

RecordFailure(r) ==
  LET error  == request[r].error
      counted == CountUpTo(request[r].read, TransientThreshold)
  IN
  /\ request[r].at = "failed"
  /\ failures' = counted
  /\ IF counted >= Threshold(error)
       THEN openFor' = Cooldown(error) /\ quiet' = 0
       ELSE /\ quiet' = IF error = "config" THEN quiet + 1 ELSE quiet
            /\ UNCHANGED openFor
  /\ request' = End(r)
  /\ served' = FALSE
  /\ UNCHANGED <<rate, server, enabled, passed>>

(* POST /test of an administrator: its failure is not counted (and changes *)
(* nothing else), its success clears the breaker.                          *)
TestSucceeds ==
  /\ server = "ok"
  /\ RecordSuccess
  /\ served' = FALSE
  /\ UNCHANGED <<rate, request, server, enabled, passed>>

-----------------------------------------------------------------------------
ServerChanges(answer) ==
  /\ answer # server
  /\ server' = answer
  /\ served' = FALSE
  /\ UNCHANGED <<rate, breakerVars, request, enabled, passed, quiet>>

Toggle ==
  /\ enabled' = ~enabled
  /\ served' = FALSE
  /\ UNCHANGED <<rate, breakerVars, request, server, passed, quiet>>

Tick ==
  /\ rate' = [b \in Buckets |-> [rate[b] EXCEPT !.age = CountUpTo(@, Window)]]
  /\ openFor' = IF openFor > 0 THEN openFor - 1 ELSE 0
  /\ served' = FALSE
  /\ UNCHANGED <<failures, request, server, enabled, passed, quiet>>

RequestStep(r) ==
  \/ \E b \in Buckets : Refused(r, b)
  \/ PassesUser(r) \/ PassesGlobal(r) \/ AssertClosed(r)
  \/ Succeeds(r) \/ Fails(r) \/ RecordFailure(r)

Next ==
  \/ \E r \in Requests : Code(r) \/ RequestStep(r)
  \/ TestSucceeds
  \/ \E answer \in {"ok", "config", "transient"} : ServerChanges(answer)
  \/ Toggle
  \/ Tick

Spec == Init /\ [][Next]_vars

(* Pages are loaded, requests go on (the client bounds the call by a       *)
(* timeout), and time passes.                                              *)
Fairness ==
  /\ \A r \in Requests : WF_vars(Code(r)) /\ WF_vars(RequestStep(r))
  /\ WF_vars(Tick)

FairSpec == Spec /\ Fairness

-----------------------------------------------------------------------------
(* Properties. *)

InFlight == Cardinality(Requests)

(* "Config errors therefore open the breaker after two failures"           *)
(* (limiter.py:13): failures that run at once may read the same count and  *)
(* be counted as one, so that the breaker opens with the failure after     *)
(* those in flight at the latest. Two is what makes that so: with a higher *)
(* threshold, the write of an older count would let more read it again.    *)
ConfigErrorsOpenBreaker == quiet <= InFlight

(* A window lets through no more than its limit, and those that were       *)
(* counted in the window before and read the count of this one.            *)
WindowsLimit ==
  \A b \in Buckets : passed[b] <= LimitOf[b] + InFlight - 1

(* While resonance answers, the widget is served again and again: no       *)
(* breaker stays open on account of requests that it refuses itself, and   *)
(* no limit holds a user up who reloads all the time.                      *)
WidgetRecovers ==
  <>[](server = "ok" /\ enabled) => []<>served
=============================================================================
