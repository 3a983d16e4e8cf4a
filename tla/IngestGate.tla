----------------------------- MODULE IngestGate -----------------------------
(***************************************************************************)
(* The gate of pktLog's ingest path: a message passes only if its sender   *)
(* is registered and enabled, as far as the normalizer's cache knows       *)
(* (app/ingest/normalizer.py, called by app/ingest/listener.py: _process). *)
(* The registry is edited by the API while messages arrive; the cache is   *)
(* refreshed by the first message that finds it older than its lifetime,   *)
(* under a lock on which the messages behind it wait.                      *)
(*                                                                         *)
(* Time is counted in ticks; a refresh takes less than one.                *)
(***************************************************************************)
EXTENDS Naturals, FiniteSets

CONSTANTS
  Senders,      \* the addresses syslog arrives from
  TTL,          \* _CACHE_TTL, in ticks
  MaxFailures,  \* bound on the refreshes in a row that fail
  None          \* no verdict yet

GateConstants ==
  /\ IsFiniteSet(Senders)
  /\ TTL \in Nat \ {0}
  /\ MaxFailures \in Nat
  /\ None \notin Senders

VARIABLES
  registry,  \* collector_registry: absent, disabled or enabled
  settled,   \* ticks since the entry of a sender changed, up to TTL
  cache,     \* _collector_cache: the senders that pass
  since,     \* time.monotonic() - _last_refresh, up to TTL
  refresh,   \* the refresh under the lock: "none", "query" or "swap"
  rows,      \* the rows the refresh has read
  waiting,   \* senders with a message that waits for the lock
  failures,  \* refreshes that failed since the last one that did not
  filled,    \* has a refresh of this process succeeded? (history)
  verdict    \* the last decision of enrich() (history)

vars == <<registry, settled, cache, since, refresh, rows, waiting, failures,
          filled, verdict>>

Enabled == {s \in Senders : registry[s] = "enabled"}

Capped(n, max) == IF n < max THEN n ELSE max

-----------------------------------------------------------------------------
(* _last_refresh is 0.0 in a new process, so that the age of the cache it  *)
(* has not filled yet is the age of the monotonic clock, which on Linux    *)
(* counts from boot.                                                       *)
Init ==
  /\ registry \in [Senders -> {"absent", "disabled", "enabled"}]
  /\ settled = [s \in Senders |-> TTL]
  /\ cache = {}
  /\ since \in 0 .. TTL
  /\ refresh = "none"
  /\ rows = {}
  /\ waiting = {}
  /\ failures = 0
  /\ filled = FALSE
  /\ verdict = None

(* The API inserts, updates or deletes the row of a sender. *)
Edit(s, entry) ==
  /\ entry # registry[s]
  /\ registry' = [registry EXCEPT ![s] = entry]
  /\ settled' = [settled EXCEPT ![s] = 0]
  /\ UNCHANGED <<cache, since, refresh, rows, waiting, failures, filled, verdict>>

(* enrich() looks the sender up in the cache: it passes or is dropped. *)
Decide(s) ==
  verdict' = [passed   |-> s \in cache,
              enabled  |-> s \in Enabled,
              settled  |-> settled[s],
              failures |-> failures,
              filled   |-> filled]

(* The cache is younger than its lifetime. *)
Young == since < TTL

(* A message finds a young cache: no await between this test and Decide. *)
MessageDecided(s) ==
  /\ Young
  /\ Decide(s)
  /\ UNCHANGED <<registry, settled, cache, since, refresh, rows, waiting,
                 failures, filled>>

(* A message finds the cache too old and goes for the lock; the first one  *)
(* starts the refresh. (One waiting message per sender stands for all.)    *)
MessageWaits(s) ==
  /\ ~Young
  /\ s \notin waiting
  /\ waiting' = waiting \cup {s}
  /\ refresh' = IF refresh = "none" THEN "query" ELSE refresh
  /\ UNCHANGED <<registry, settled, cache, since, rows, failures, filled, verdict>>

(* The SELECT runs in the connection's thread ... *)
RefreshReads ==
  /\ refresh = "query"
  /\ refresh' = "swap"
  /\ rows' = Enabled
  /\ UNCHANGED <<registry, settled, cache, since, waiting, failures, filled, verdict>>

(* _last_refresh = time.monotonic(). *)
MonotonicClock == since' = 0

(* The end of async with self._lock. *)
ReleasesLock == refresh' = "none"

(* What follows a refresh, a failed one too. *)
Refreshed == MonotonicClock /\ ReleasesLock /\ rows' = {}

(* ... and its rows replace the cache when the coroutine goes on. *)
MergesRows == cache' = cache \cup rows \* mutant: update() in place of a new dict
ReplacesCache == cache' = rows

RefreshSwaps ==
  /\ refresh = "swap"
  /\ ReplacesCache
  /\ Refreshed
  /\ failures' = 0
  /\ filled' = TRUE
  /\ UNCHANGED <<registry, settled, waiting, verdict>>

(* The refresh raises: logged, the old cache stays. *)
RefreshFails ==
  /\ refresh = "query"
  /\ failures < MaxFailures
  /\ failures' = failures + 1
  /\ Refreshed
  /\ UNCHANGED <<registry, settled, cache, waiting, filled, verdict>>

(* The lock is free: a message that waited for it is decided, for its now  *)
(* is not later than _last_refresh.                                        *)
WaiterDecided(s) ==
  /\ refresh = "none"
  /\ s \in waiting
  /\ waiting' = waiting \ {s}
  /\ Decide(s)
  /\ UNCHANGED <<registry, settled, cache, since, refresh, rows, failures,
                 filled>>

(* A refresh, and the messages that wait for it, take less than a tick. *)
Tick ==
  /\ refresh = "none"
  /\ waiting = {}
  /\ since' = Capped(since + 1, TTL)
  /\ settled' = [s \in Senders |-> Capped(settled[s] + 1, TTL)]
  /\ UNCHANGED <<registry, cache, refresh, rows, waiting, failures, filled, verdict>>

Next ==
  \/ \E s \in Senders, entry \in {"absent", "disabled", "enabled"} : Edit(s, entry)
  \/ \E s \in Senders : \/ MessageDecided(s)
                        \/ MessageWaits(s)
                        \/ WaiterDecided(s)
  \/ RefreshReads
  \/ RefreshSwaps
  \/ RefreshFails
  \/ Tick

Spec == Init /\ [][Next]_vars

-----------------------------------------------------------------------------
(* Properties. *)

Verdicts ==
  [passed : BOOLEAN, enabled : BOOLEAN, settled : 0 .. TTL,
   failures : 0 .. MaxFailures, filled : BOOLEAN]

TypeOK ==
  /\ registry \in [Senders -> {"absent", "disabled", "enabled"}]
  /\ settled \in [Senders -> 0 .. TTL]
  /\ cache \in SUBSET Senders
  /\ since \in 0 .. TTL
  /\ refresh \in {"none", "query", "swap"}
  /\ rows \in SUBSET Senders
  /\ waiting \in SUBSET Senders
  /\ failures \in 0 .. MaxFailures
  /\ filled \in BOOLEAN
  /\ verdict \in Verdicts \cup {None}

(* Whatever edits and messages interleave with a refresh, a verdict that   *)
(* contradicts the registry concerns an entry that changed less than one   *)
(* cache lifetime ago: a disabled collector stops passing, and an approved *)
(* one starts to, within that time. Excepted are a process that has not    *)
(* read the registry yet, and verdicts after a refresh that failed: the    *)
(* cache may then be of any age, because only messages refresh it.         *)
VerdictLagBounded ==
  verdict # None /\ verdict.passed # verdict.enabled =>
    \/ ~verdict.passed /\ ~verdict.filled
    \/ verdict.failures > 0
    \/ verdict.settled < TTL
=============================================================================
