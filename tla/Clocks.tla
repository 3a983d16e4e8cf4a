------------------------------- MODULE Clocks -------------------------------
(***************************************************************************)
(* The parts of pktLog that compare ages on a clock: the flush timer of    *)
(* the batch writer (monotonic), the direct-access lock (local time        *)
(* against UTC), and the retention of records (days). They share no state, *)
(* so each behaviour is one of one part, chosen at the start.              *)
(***************************************************************************)
EXTENDS FlushTimer

CONSTANTS
  Visitors, Expiry, Local, Utc,                                        \* DirectLock
  Records, Daily, Admins, MaxDays, Default, NotANumber, MaxFaults      \* Retention

VARIABLES
  part,                                                     \* the part that steps
  locked, beat, redirect, token, hub, up, stage, renewed,   \* DirectLock
  backend, setting, ttl, age, task, stray, faults           \* Retention

lockVars == <<locked, beat, redirect, token, hub, up, stage, renewed>>
keepVars == <<backend, setting, ttl, age, task, stray, faults>>

Lock == INSTANCE DirectLock
Keeping == INSTANCE Retention

ASSUME LockAssumption == Lock!LockConstants
ASSUME RetentionAssumption == Keeping!RetentionConstants

(* A part that does not step need not start in each of its ways. *)
ClocksInit ==
  /\ part \in {"timer", "lock", "retention"}
  /\ Init
  /\ Lock!Init /\ (redirect => part = "lock")
  /\ Keeping!Init /\ (backend = "duckdb" => part = "retention")

ClocksNext ==
  /\ UNCHANGED part
  /\ \/ part = "timer" /\ Next /\ UNCHANGED <<lockVars, keepVars>>
     \/ part = "lock" /\ Lock!Next /\ UNCHANGED <<vars, keepVars>>
     \/ part = "retention" /\ Keeping!Next /\ UNCHANGED <<vars, lockVars>>

SafeSpec == ClocksInit /\ [][ClocksNext]_<<part, vars, lockVars, keepVars>>

(* The fairness of DirectLock and of Retention, for the part that steps. *)
ClocksSpec ==
  /\ SafeSpec
  /\ WF_lockVars(part = "lock" /\ Lock!Tick)
  /\ WF_lockVars(part = "lock" /\ Lock!Requests)
  /\ SF_lockVars(part = "lock" /\ Lock!Reads)
  /\ SF_lockVars(part = "lock" /\ Lock!Opens)
  /\ WF_keepVars(part = "retention" /\ Keeping!DailyPass)
  /\ \A t \in Keeping!Tasks : WF_keepVars(part = "retention" /\ Keeping!Applies(t))
  /\ \A r \in Records : WF_keepVars(part = "retention" /\ Keeping!Expire(r))

-----------------------------------------------------------------------------
(* DirectLock: a fresh lock is taken off only in a race with the hub. *)
FreshLockOpenedOnlyInRace == Lock!FreshLockOpenedOnlyInRace

(* DirectLock: nobody stays locked out once the hub is gone or revoked. *)
LockoutEnds == Lock!LockoutEnds

(* Retention: records leave when they are past it, or for a named cause. *)
RecordsLeaveOnlyByNamedCause == Keeping!RecordsLeaveOnlyByNamedCause

(* Retention: a setting that stays is enforced, on either backend. *)
RetentionComesTrue == Keeping!RetentionComesTrue
=============================================================================
