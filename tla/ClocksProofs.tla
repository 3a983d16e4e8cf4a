---------------------------- MODULE ClocksProofs ----------------------------
(***************************************************************************)
(* Proofs about the parts of pktLog that count against a clock: the bound  *)
(* on the flush delay, for every batch size and interval; the direct-      *)
(* access lock, for every expiry, every number of visitors and every       *)
(* offset of the clocks; the retention of records, for any number of tasks *)
(* at once; and the limits and the breaker of the resonance widget, for    *)
(* every number of requests at once.                                       *)
(***************************************************************************)
EXTENDS Clocks, MCResonance, Integers, FiniteSetTheorems, TLAPS

(* The timeout handed to wait_for lies between one tick and the interval. *)
LEMMA TimeoutRange ==
  ASSUME NEW n \in Nat
  PROVE  /\ Timeout(n) \in 1 .. Interval
         /\ n + Timeout(n) = Interval \/ (n >= Interval /\ Timeout(n) = 1)
BY TimerAssumption DEF Timeout

LEMMA TimerInit == Init => TypeOK /\ WaitBound
BY TimerAssumption, TimeoutRange DEF Init, TypeOK, WaitBound

(* Every step of the loop keeps the types and the bound on the wait.       *)
LEMMA TimerStep == TypeOK /\ WaitBound /\ [Next]_vars => TypeOK' /\ WaitBound'
<1> SUFFICES ASSUME TypeOK, WaitBound, [Next]_vars
             PROVE  TypeOK' /\ WaitBound'
  OBVIOUS
<1> USE TimerAssumption DEF TypeOK, WaitBound
<1>0. Timeout(0) \in 1 .. Interval /\ Timeout(0) = Interval
  BY DEF Timeout
<1>1. CASE Enqueue
  BY <1>1 DEF Enqueue
<1>2. CASE Get
  <2>1. CASE Full(gathered + 1)
    BY <1>2, <2>1 DEF Get, Full
  <2>2. CASE ~Full(gathered + 1)
    BY <1>2, <2>2, TimeoutRange DEF Get, Full
  <2> QED  BY <2>1, <2>2
<1>3. CASE Tick
  BY <1>3 DEF Tick
<1>4. CASE TimesOut
  BY <1>0, <1>4 DEF TimesOut, RestartInterval
<1>5. CASE FlushEnds
  BY <1>0, <1>5 DEF FlushEnds, RestartInterval
<1>6. CASE UNCHANGED vars
  BY <1>6 DEF vars
<1> QED  BY <1>1, <1>2, <1>3, <1>4, <1>5, <1>6 DEF Next

(* The wait under way is bounded.                                          *)
THEOREM WaitBoundHolds == SafeSpec => [](TypeOK /\ WaitBound)
<1>1. ClocksInit => TypeOK /\ WaitBound
  BY TimerInit DEF ClocksInit
<1>2. TypeOK /\ WaitBound /\ [ClocksNext]_<<part, vars, lockVars, keepVars>> => (TypeOK /\ WaitBound)'
  BY TimerStep DEF ClocksNext
<1> QED  BY <1>1, <1>2, PTL DEF SafeSpec

(* A gathered record is flushed at most BatchSize - 1 ticks after the      *)
(* interval has run out, however the records arrive.                       *)
THEOREM FlushDelayIsBounded == SafeSpec => []DelayBounded
<1>1. WaitBound => DelayBounded
  BY DEF WaitBound, DelayBounded
<1> QED  BY <1>1, WaitBoundHolds, PTL

-----------------------------------------------------------------------------
(* The direct-access lock. *)

(* The age of a heartbeat that the clocks, as they are compared, call too  *)
(* old; a request that found one is about to take the lock off, and the    *)
(* heartbeat has only grown older unless the hub renewed it since.         *)
FoundExpired ==
  \A v \in Visitors : stage[v] = "open" => beat > Expiry - Lock!Offset \/ v \in renewed

LockIInv == Lock!TypeOK /\ FoundExpired

LEMMA OffsetIsInteger ==
  Lock!Offset \in Int /\ Lock!Oldest \in Nat
BY LockAssumption DEF Lock!LockConstants, Lock!Offset, Lock!Oldest

LEMMA LockInit == Lock!Init => LockIInv
<1> SUFFICES ASSUME Lock!Init  PROVE LockIInv
  OBVIOUS
<1>1. locked \in BOOLEAN /\ hub \in BOOLEAN /\ up \in BOOLEAN
  BY DEF Lock!Init
<1> QED  BY <1>1, OffsetIsInteger DEF Lock!Init, LockIInv, Lock!TypeOK, FoundExpired

(* What the hub, its token and the administrators do makes the heartbeat   *)
(* older, or renews it before every request that is about to open the UI.  *)
LEMMA HubStep ==
  ASSUME LockIInv,
         \/ Lock!Tick \/ Lock!Heartbeat \/ Lock!GetToken \/ Lock!Regenerate \/ Lock!HubLearnsToken
         \/ \E l, url \in BOOLEAN : Lock!SetDirectAccess(l, url)
         \/ \E t \in {"hub", "other"} : Lock!Register(t)
         \/ \E url \in BOOLEAN : Lock!SetHubRedirectUrl(url)
         \/ Lock!HubStops \/ Lock!HubStarts \/ Lock!DatabaseRestored
  PROVE  LockIInv'
<1> USE OffsetIsInteger, LockAssumption DEF Lock!LockConstants
<1>1. CASE Lock!Tick
  BY <1>1 DEF Lock!Tick, LockIInv, Lock!TypeOK, FoundExpired
<1>2. CASE Lock!Heartbeat \/ \E l, url \in BOOLEAN : Lock!SetDirectAccess(l, url)
  <2>1. /\ beat' = 0 /\ renewed' = {v \in Visitors : stage[v] = "open"}
        /\ UNCHANGED <<token, hub, up, stage>>
    BY <1>2 DEF Lock!Heartbeat, Lock!SetDirectAccess, Lock!Renews
  <2>2. locked' \in BOOLEAN /\ redirect' \in BOOLEAN
    BY <1>2 DEF Lock!Heartbeat, Lock!SetDirectAccess, LockIInv, Lock!TypeOK
  <2> QED  BY <2>1, <2>2 DEF LockIInv, Lock!TypeOK, FoundExpired
<1>3. CASE \/ Lock!GetToken \/ Lock!Regenerate \/ Lock!HubLearnsToken
           \/ \E t \in {"hub", "other"} : Lock!Register(t)
           \/ \E url \in BOOLEAN : Lock!SetHubRedirectUrl(url)
           \/ Lock!HubStops \/ Lock!HubStarts
  <2>1. UNCHANGED <<locked, beat, up, stage, renewed>>
    BY <1>3 DEF Lock!GetToken, Lock!Regenerate, Lock!Store, Lock!HubLearnsToken, Lock!Register,
                Lock!SetHubRedirectUrl, Lock!HubStops, Lock!HubStarts
  <2>2. redirect' \in BOOLEAN /\ hub' \in BOOLEAN /\ token' \in {"none", "hub", "other"}
    BY <1>3 DEF Lock!GetToken, Lock!Regenerate, Lock!Store, Lock!HubLearnsToken, Lock!Register,
                Lock!SetHubRedirectUrl, Lock!HubStops, Lock!HubStarts, LockIInv, Lock!TypeOK
  <2> QED  BY <2>1, <2>2 DEF LockIInv, Lock!TypeOK, FoundExpired
<1>4. CASE Lock!DatabaseRestored
  BY <1>4 DEF Lock!DatabaseRestored, LockIInv, Lock!TypeOK, FoundExpired
<1> QED  BY <1>1, <1>2, <1>3, <1>4

(* What a visitor does leaves the heartbeat, and opens only what it found  *)
(* expired.                                                                *)
LEMMA VisitorKeeps ==
  ASSUME LockIInv, NEW v \in Visitors, Lock!Visit(v) \/ Lock!VisitorStep(v)
  PROVE  LockIInv'
<1> USE OffsetIsInteger, LockAssumption DEF Lock!LockConstants
<1>1. CASE Lock!Visit(v)
  <2>1. stage' = [stage EXCEPT ![v] = IF locked THEN "beat" ELSE "passed"] /\ stage[v] = "away"
        /\ UNCHANGED <<locked, beat, redirect, token, hub, up, renewed>>
    BY <1>1 DEF Lock!Visit
  <2> QED  BY <2>1 DEF LockIInv, Lock!TypeOK, FoundExpired
<1>2. CASE Lock!ReadBeat(v)
  BY <1>2 DEF Lock!ReadBeat, Lock!Expired, LockIInv, Lock!TypeOK, FoundExpired
<1>3. CASE Lock!OpenUi(v)
  BY <1>3 DEF Lock!OpenUi, Lock!OpensUi, LockIInv, Lock!TypeOK, FoundExpired
<1>4. CASE Lock!Redirect(v) \/ Lock!Served(v)
  BY <1>4 DEF Lock!Redirect, Lock!Served, LockIInv, Lock!TypeOK, FoundExpired
<1>5. CASE Lock!RequestFails(v)
  BY <1>5 DEF Lock!RequestFails, LockIInv, Lock!TypeOK, FoundExpired
<1> QED  BY <1>1, <1>2, <1>3, <1>4, <1>5 DEF Lock!VisitorStep

(* Every step of the lock keeps the invariant. *)
LEMMA LockStep == LockIInv /\ [Lock!Next]_lockVars => LockIInv'
<1> SUFFICES ASSUME LockIInv, [Lock!Next]_lockVars
             PROVE  LockIInv'
  OBVIOUS
<1>1. CASE Lock!Stop \/ Lock!Start
  <2>1. /\ locked' \in BOOLEAN /\ up' \in BOOLEAN
        /\ UNCHANGED <<beat, redirect, token, hub>>
    BY <1>1 DEF Lock!Stop, Lock!Start, LockIInv, Lock!TypeOK
  <2>2. \/ UNCHANGED <<stage, renewed>>
        \/ stage' = [v \in Visitors |-> "away"] /\ renewed' = {}
    BY <1>1 DEF Lock!Stop, Lock!Start
  <2> QED  BY <2>1, <2>2 DEF LockIInv, Lock!TypeOK, FoundExpired
<1>2. CASE UNCHANGED lockVars
  BY <1>2 DEF lockVars, LockIInv, Lock!TypeOK, FoundExpired
<1> QED  BY <1>1, <1>2, HubStep, VisitorKeeps DEF Lock!Next, Lock!Requests

(* What a request that is about to open the UI has found. *)
THEOREM LockIInvHolds == SafeSpec => []LockIInv
<1>1. ClocksInit => LockIInv
  BY LockInit DEF ClocksInit
<1>2. LockIInv /\ [ClocksNext]_<<part, vars, lockVars, keepVars>> => LockIInv'
  BY LockStep DEF ClocksNext
<1> QED  BY <1>1, <1>2, PTL DEF SafeSpec

(* A visitor takes off a lock whose heartbeat is in time only if the hub   *)
(* renewed it after the visitor had found it expired.                      *)
THEOREM FreshLockHolds == SafeSpec => FreshLockOpenedOnlyInRace
<1> DEFINE OnlyInRace ==
      \A v \in Visitors :
        locked /\ ~locked' /\ stage[v] = "open" /\ stage'[v] = "passed"
          => beat > Expiry - Lock!Offset \/ v \in renewed
<1>1. LockIInv /\ [ClocksNext]_<<part, vars, lockVars, keepVars>> => [OnlyInRace]_lockVars
  BY DEF LockIInv, FoundExpired
<1>2. LockIInv /\ [ClocksNext]_<<part, vars, lockVars, keepVars>> => [OnlyInRace]_(Lock!vars)
  BY <1>1 DEF lockVars, Lock!vars
<1> QED  BY <1>2, LockIInvHolds, PTL DEF SafeSpec, FreshLockOpenedOnlyInRace,
            Lock!FreshLockOpenedOnlyInRace

-----------------------------------------------------------------------------
(* The retention of records. *)

KeepIInv == Keeping!TypeOK /\ Keeping!Explained

(* What a reader makes of the setting is a number of days.                 *)
LEMMA DaysAreDays ==
  ASSUME NEW value \in Keeping!Settings
  PROVE  Keeping!DaysOf(value) \in 0 .. MaxDays
BY RetentionAssumption DEF Keeping!RetentionConstants, Keeping!Settings, Keeping!DaysOf

(* The constants, one fact each.                                           *)
LEMMA KeepNumbers ==
  /\ MaxDays \in Nat /\ MaxFaults \in Nat
  /\ Default \in 1 .. MaxDays
BY RetentionAssumption DEF Keeping!RetentionConstants

LEMMA NotANumberIsNone == NotANumber \notin Nat
BY RetentionAssumption DEF Keeping!RetentionConstants

(* The types, one fact each.                                               *)
LEMMA KeepTypes ==
  ASSUME KeepIInv
  PROVE  /\ faults \in 0 .. MaxFaults
         /\ ttl \in 1 .. MaxDays
         /\ stray \in {"none", "pending", "failed", "not applied", "restored", "overtaken",
                       "unread"}
         /\ DOMAIN age \in SUBSET Records /\ age \in [DOMAIN age -> 0 .. MaxDays]
         /\ \A t \in Keeping!Tasks : task[t].days \in 0 .. MaxDays
         /\ Keeping!Days \in 0 .. MaxDays
BY DaysAreDays DEF KeepIInv, Keeping!TypeOK, Keeping!Days

(* Days that are saved and applied.                                        *)
LEMMA SavedDays ==
  ASSUME NEW value \in 1 .. MaxDays
  PROVE  value \in 0 .. MaxDays /\ value > 0 /\ Keeping!DaysOf(value) = value
<1>1. value \in Nat /\ value \in 0 .. MaxDays /\ value > 0
  BY KeepNumbers
<1>2. value # NotANumber
  BY <1>1, NotANumberIsNone, Zenon
<1> QED  BY <1>1, <1>2 DEF Keeping!DaysOf

LEMMA PositiveDays ==
  ASSUME NEW days \in 0 .. MaxDays, days # 0
  PROVE  days > 0 /\ days \in 1 .. MaxDays
BY KeepNumbers

LEMMA FaultCounts ==
  ASSUME KeepIInv, Keeping!Fault
  PROVE  faults' \in 0 .. MaxFaults
<1>1. faults \in 0 .. MaxFaults
  BY KeepTypes
<1>2. MaxFaults \in Nat
  BY KeepNumbers
<1> QED  BY <1>1, <1>2 DEF Keeping!Fault

LEMMA KeepInit == Keeping!Init => KeepIInv
<1> SUFFICES ASSUME Keeping!Init  PROVE KeepIInv
  OBVIOUS
<1>1. Keeping!TypeOK
  BY RetentionAssumption DEF Keeping!Init, Keeping!TypeOK, Keeping!RetentionConstants,
     Keeping!Settings, Keeping!Idle
<1>2. Keeping!Days = ttl
  BY RetentionAssumption DEF Keeping!Init, Keeping!RetentionConstants, Keeping!Days,
     Keeping!DaysOf
<1>3. Keeping!Explained
  BY <1>2 DEF Keeping!Init, Keeping!Explained, Keeping!Idle
<1> QED  BY <1>1, <1>3 DEF KeepIInv

(* Records come, age and leave; the tasks and the TTL know nothing of it.  *)
LEMMA RecordsStep ==
  ASSUME KeepIInv,
         \/ \E r \in Records : Keeping!Expire(r) \/ \E days \in 0 .. MaxDays : Keeping!Store(r, days)
         \/ Keeping!Tick
  PROVE  KeepIInv'
<1>1. UNCHANGED <<backend, setting, ttl, task, stray, faults>>
  BY DEF Keeping!Expire, Keeping!Store, Keeping!Tick
<1>2. DOMAIN age' \in SUBSET Records /\ age' \in [DOMAIN age' -> 0 .. MaxDays]
  <2>1. MaxDays \in Nat
    BY RetentionAssumption DEF Keeping!RetentionConstants
  <2>2. CASE Keeping!Tick
    <3>1. ASSUME NEW r \in DOMAIN age
          PROVE  (IF age[r] < MaxDays THEN age[r] + 1 ELSE MaxDays) \in 0 .. MaxDays
      <4>1. age[r] \in 0 .. MaxDays
        BY DEF KeepIInv, Keeping!TypeOK
      <4> QED  BY <2>1, <4>1
    <3> QED  BY <2>2, <3>1 DEF Keeping!Tick, KeepIInv, Keeping!TypeOK
  <2>3. CASE \E r \in Records : Keeping!Expire(r)
    BY <2>3 DEF Keeping!Expire, Keeping!Keep, KeepIInv, Keeping!TypeOK
  <2>4. CASE \E r \in Records : \E days \in 0 .. MaxDays : Keeping!Store(r, days)
    BY <2>4 DEF Keeping!Store, KeepIInv, Keeping!TypeOK
  <2> QED  BY <2>2, <2>3, <2>4
<1>3. Keeping!TypeOK'
  BY <1>1, <1>2 DEF KeepIInv, Keeping!TypeOK
<1>4. Keeping!Explained'
  BY <1>1 DEF KeepIInv, Keeping!Explained, Keeping!Days, Keeping!Saving
<1> QED  BY <1>3, <1>4 DEF KeepIInv

(* A task takes the days of the setting, or the default because it could   *)
(* not read them.                                                          *)
LEMMA BeginStep ==
  ASSUME KeepIInv, Keeping!DailyPass \/ \E t \in Admins : Keeping!Cleanup(t)
  PROVE  KeepIInv'
<1>1. PICK t \in Keeping!Tasks, kind \in {"daily", "cleanup"}, days \in 0 .. MaxDays,
           why \in {"fresh", "unread"} :
        /\ Keeping!Begins(t, kind, days, why)
        /\ why = "fresh" => days = Keeping!Days
        /\ kind = "daily" => days > 0
        /\ faults' \in 0 .. MaxFaults
  <2>1. Keeping!Days \in 0 .. MaxDays /\ Default \in 1 .. MaxDays
    BY DaysAreDays, RetentionAssumption
    DEF KeepIInv, Keeping!TypeOK, Keeping!Days, Keeping!RetentionConstants
  <2>2. CASE \E t \in Admins : Keeping!Cleanup(t)
    BY <2>1, <2>2 DEF Keeping!Cleanup, Keeping!Tasks, KeepIInv, Keeping!TypeOK
  <2>3. Daily \in Keeping!Tasks /\ MaxDays \in Nat /\ MaxFaults \in Nat
    BY RetentionAssumption DEF Keeping!Tasks, Keeping!RetentionConstants
  <2>4. CASE /\ Keeping!Begins(Daily, "daily", Keeping!Days, "fresh")
             /\ ~Keeping!Skips(Keeping!Days) /\ UNCHANGED faults
    <3>1. Keeping!Days > 0 /\ faults' \in 0 .. MaxFaults
      BY <2>1, <2>4, KeepTypes, PositiveDays DEF Keeping!Skips
    <3> QED  BY <2>1, <2>3, <2>4, <3>1
  <2>5. CASE Keeping!Begins(Daily, "daily", Default, "unread") /\ Keeping!Fault
    <3>1. Default > 0 /\ Default \in 0 .. MaxDays /\ faults' \in 0 .. MaxFaults
      BY <2>1, <2>5, FaultCounts, SavedDays
    <3> QED  BY <2>3, <2>5, <3>1
  <2> QED  BY <2>2, <2>4, <2>5 DEF Keeping!DailyPass
<1> DEFINE new == [kind |-> kind, days |-> days, why |-> why]
<1>2. /\ task' = [task EXCEPT ![t] = new]
      /\ task[t] = Keeping!Idle
      /\ UNCHANGED <<backend, setting, ttl, age, stray>>
  BY <1>1 DEF Keeping!Begins
<1>3. Keeping!TypeOK'
  BY <1>1, <1>2 DEF KeepIInv, Keeping!TypeOK
<1>4. /\ new.kind = kind /\ new.days = days /\ new.why = why
      /\ task[t].kind = "idle"
  BY <1>2 DEF Keeping!Idle
<1>5. \A u \in Keeping!Tasks : task'[u] = IF u = t THEN new ELSE task[u]
  BY <1>2 DEF KeepIInv, Keeping!TypeOK
<1> HIDE DEF new
<1>6. Keeping!Explained'
  <2>1. Keeping!Days' = Keeping!Days
    BY <1>2 DEF Keeping!Days
  <2>2. ASSUME NEW u \in Keeping!Tasks, Keeping!Saving(u)
        PROVE  Keeping!Saving(u)'
    BY <1>4, <1>5, <2>2 DEF Keeping!Saving
  <2> QED  BY <1>1, <1>2, <1>4, <1>5, <2>1, <2>2 DEF KeepIInv, Keeping!Explained
<1> QED  BY <1>3, <1>6 DEF KeepIInv

(* A new setting: a task with other days is overtaken by it, and the TTL   *)
(* is explained anew.                                                      *)
LEMMA SettingStep ==
  ASSUME KeepIInv, NEW value \in Keeping!Settings,
         Keeping!Restored(value) \/ \E t \in Admins : Keeping!Save(t, value)
  PROVE  KeepIInv'
<1> DEFINE saved == [kind |-> "save", days |-> value, why |-> "fresh"]
<1>1. /\ setting' = value
      /\ UNCHANGED <<backend, ttl, age, faults>>
      /\ Keeping!Days' = Keeping!DaysOf(value)
  BY DEF Keeping!Restored, Keeping!Save, Keeping!Days
<1> DEFINE New(T) == [u \in Keeping!Tasks |-> IF u \in T THEN saved ELSE Keeping!Overtaken(u, value)]
           Changes(T, cause) == /\ task' = New(T)
                                /\ T # {} => value \in 1 .. MaxDays
                                /\ cause = "pending" => T # {}
                                /\ Keeping!Explain(cause)
<1>2. PICK T \in SUBSET Keeping!Tasks, cause \in {"pending", "not applied", "restored"} :
        Changes(T, cause)
  <2>0. New({}) = [u \in Keeping!Tasks |-> Keeping!Overtaken(u, value)]
    OBVIOUS
  <2>1. CASE Keeping!Restored(value)
    <3>1. Changes({}, "restored")
      BY <2>0, <2>1 DEF Keeping!Restored
    <3> HIDE DEF Changes
    <3> QED  BY <3>1
  <2>2. ASSUME NEW t \in Admins, Keeping!Save(t, value)
        PROVE  \E T \in SUBSET Keeping!Tasks, cause \in {"pending", "not applied", "restored"} :
                 Changes(T, cause)
    <3>1. CASE value \in 1 .. MaxDays
      <4>1. task' = New({t}) /\ Keeping!Explain("pending")
        BY <2>2, <3>1 DEF Keeping!Save
      <4>2. Changes({t}, "pending") /\ {t} \in SUBSET Keeping!Tasks
        BY <3>1, <4>1 DEF Keeping!Tasks
      <4> HIDE DEF Changes
      <4> QED  BY <4>2
    <3>2. CASE value \notin 1 .. MaxDays
      <4>1. task' = New({}) /\ Keeping!Explain("not applied")
        BY <2>0, <2>2, <3>2 DEF Keeping!Save
      <4>2. Changes({}, "not applied")
        BY <4>1
      <4> HIDE DEF Changes
      <4> QED  BY <4>2
    <3> QED  BY <3>1, <3>2
  <2> HIDE DEF Changes
  <2> QED  BY <2>1, <2>2
<1>3. Keeping!DaysOf(value) \in 0 .. MaxDays /\ (T # {} => Keeping!DaysOf(value) = value)
  <2>1. Keeping!DaysOf(value) \in 0 .. MaxDays
    BY DaysAreDays
  <2>2. ASSUME value \in 1 .. MaxDays
        PROVE  Keeping!DaysOf(value) = value
    BY <2>2, SavedDays
  <2> QED  BY <1>2, <2>1, <2>2
<1>4. ASSUME NEW u \in Keeping!Tasks
      PROVE  /\ task'[u].kind \in {"idle", "daily", "save", "cleanup"}
             /\ task'[u] \in [kind : {"idle", "daily", "save", "cleanup"}, days : 0 .. MaxDays,
                              why : {"fresh", "overtaken", "unread"}]
             /\ task'[u].kind = "idle" => task'[u] = Keeping!Idle
             /\ task'[u] # Keeping!Idle /\ task'[u].why = "fresh"
                  => task'[u].days = Keeping!DaysOf(value)
             /\ task'[u].kind \in {"daily", "save"} => task'[u].days > 0
  <2>1. CASE u \in T
    <3>1. task'[u] = saved
      BY <1>2, <2>1
    <3>2. value \in 0 .. MaxDays /\ value > 0 /\ Keeping!DaysOf(value) = value
      BY <1>2, <2>1, SavedDays
    <3>3. saved.kind = "save" /\ saved.days = value /\ saved.why = "fresh"
      OBVIOUS
    <3> QED  BY <3>1, <3>2, <3>3
  <2>2. CASE u \notin T
    <3>1. task'[u] = Keeping!Overtaken(u, value)
      BY <1>2, <2>2
    <3> QED  BY <3>1, <1>3 DEF Keeping!Overtaken, KeepIInv, Keeping!TypeOK, Keeping!Explained
  <2> QED  BY <2>1, <2>2
<1>5. stray' \in {"none", cause} /\ (backend = "clickhouse" /\ ttl # Keeping!DaysOf(value) => stray' = cause)
  BY <1>1, <1>2 DEF Keeping!Explain
<1>6. Keeping!TypeOK'
  BY <1>1, <1>2, <1>4, <1>5 DEF KeepIInv, Keeping!TypeOK
<1>7. Keeping!Explained'
  <2>1. stray' = "pending" => \E u \in Keeping!Tasks : Keeping!Saving(u)'
    BY <1>2, <1>5 DEF Keeping!Saving
  <2>2. backend' = "clickhouse" /\ ttl' # Keeping!Days' => stray' # "none"
    BY <1>1, <1>5
  <2>3. stray' # "none" => backend' = "clickhouse"
    BY <1>1, <1>2 DEF Keeping!Explain
  <2>4. Keeping!Tasks' = Keeping!Tasks /\ Keeping!Idle' = Keeping!Idle
    BY DEF Keeping!Tasks, Keeping!Idle
  <2> QED  BY <1>1, <1>4, <2>1, <2>2, <2>3, <2>4 DEF Keeping!Explained
<1> QED  BY <1>6, <1>7 DEF KeepIInv

(* A task ends, with its days applied or not.                              *)
LEMMA EndStep ==
  ASSUME KeepIInv, NEW t \in Keeping!Tasks, Keeping!Applies(t) \/ Keeping!Fails(t)
  PROVE  KeepIInv'
<1>1. /\ task[t] # Keeping!Idle
      /\ task' = [task EXCEPT ![t] = Keeping!Idle]
      /\ UNCHANGED <<backend, setting>>
  BY DEF Keeping!Applies, Keeping!Deletes, Keeping!SetsTtl, Keeping!Fails, Keeping!Ends
<1>2. \A u \in Keeping!Tasks : task'[u] = IF u = t THEN Keeping!Idle ELSE task[u]
  BY <1>1 DEF KeepIInv, Keeping!TypeOK
<1>3. Keeping!Days' = Keeping!Days /\ Keeping!Days \in 0 .. MaxDays
  BY <1>1, DaysAreDays DEF Keeping!Days, KeepIInv, Keeping!TypeOK
<1>4. /\ ttl' \in 1 .. MaxDays
      /\ stray' \in {"none", "failed", stray, task[t].why}
      /\ DOMAIN age' \in SUBSET Records /\ age' \in [DOMAIN age' -> 0 .. MaxDays]
      /\ faults' \in 0 .. MaxFaults
  <2>1. CASE Keeping!Deletes(t)
    BY <2>1 DEF Keeping!Deletes, Keeping!Keep, KeepIInv, Keeping!TypeOK
  <2>2. CASE Keeping!SetsTtl(t)
    <3>1. UNCHANGED <<age, faults>> /\ ttl' \in {ttl, task[t].days} /\ (ttl' = ttl \/ task[t].days # 0)
          /\ stray' \in {"none", stray, task[t].why}
      BY <2>2 DEF Keeping!SetsTtl, Keeping!ModifyTtl, Keeping!Explain
    <3>2. ttl' \in 1 .. MaxDays
      BY <3>1, KeepTypes, PositiveDays
    <3> QED  BY <3>1, <3>2, KeepTypes
  <2>3. CASE Keeping!Fails(t)
    <3>1. /\ UNCHANGED <<ttl, age>> /\ stray' \in {"failed", stray}
          /\ Keeping!Fault
      BY <2>3 DEF Keeping!Fails
    <3>2. faults' \in 0 .. MaxFaults
      BY <3>1, FaultCounts
    <3> QED  BY <3>1, <3>2, KeepTypes
  <2> QED  BY <2>1, <2>2, <2>3 DEF Keeping!Applies
<1>5. Keeping!Idle \in [kind : {"idle", "daily", "save", "cleanup"}, days : 0 .. MaxDays,
                        why : {"fresh", "overtaken", "unread"}]
  BY RetentionAssumption DEF Keeping!Idle, Keeping!RetentionConstants
<1>6. Keeping!TypeOK'
  <2>1. stray' \in {"none", "pending", "failed", "not applied", "restored", "overtaken", "unread"}
    <3>1. task[t].why \in {"fresh", "overtaken", "unread"}
      BY DEF KeepIInv, Keeping!TypeOK
    <3>2. task[t].why = "fresh" => stray' # "fresh"
      <4>1. CASE Keeping!SetsTtl(t) /\ task[t].days # 0
        <5> SUFFICES ASSUME task[t].why = "fresh"  PROVE stray' # "fresh"
          OBVIOUS
        <5>1. task[t].days = Keeping!Days
          BY <1>1 DEF KeepIInv, Keeping!Explained
        <5>2. stray' = "none"
          BY <1>1, <4>1, <5>1 DEF Keeping!SetsTtl, Keeping!ModifyTtl, Keeping!Explain, Keeping!Days
        <5> QED  BY <5>2
      <4>2. CASE ~(Keeping!SetsTtl(t) /\ task[t].days # 0)
        <5>1. stray' \in {stray, "failed"}
          BY <4>2 DEF Keeping!Applies, Keeping!Deletes, Keeping!SetsTtl, Keeping!Fails
        <5> QED  BY <5>1, KeepTypes
      <4> QED  BY <4>1, <4>2
    <3> QED  BY <1>4, <3>1, <3>2, KeepTypes
  <2>2. /\ task' \in [Keeping!Tasks -> [kind : {"idle", "daily", "save", "cleanup"},
                                       days : 0 .. MaxDays,
                                       why : {"fresh", "overtaken", "unread"}]]
    BY <1>1, <1>5 DEF KeepIInv, Keeping!TypeOK
  <2> QED  BY <1>1, <1>4, <2>1, <2>2 DEF KeepIInv, Keeping!TypeOK
<1>7. backend = "clickhouse" /\ ttl' # Keeping!Days => stray' # "none"
  <2>1. CASE Keeping!Deletes(t)
    BY <2>1 DEF Keeping!Deletes
  <2>2. CASE Keeping!SetsTtl(t)
    <3>1. CASE task[t].days = 0
      BY <2>2, <3>1 DEF Keeping!SetsTtl, KeepIInv, Keeping!Explained
    <3>2. CASE task[t].days # 0
      <4>1. /\ stray' = IF ttl' # Keeping!Days THEN task[t].why ELSE "none"
        BY <2>2, <3>2, <1>1 DEF Keeping!SetsTtl, Keeping!Explain, Keeping!Days
      <4>2. task[t].why # "none"
        BY DEF KeepIInv, Keeping!TypeOK
      <4> QED  BY <4>1, <4>2
    <3> QED  BY <3>1, <3>2
  <2>3. CASE Keeping!Fails(t)
    BY <2>3 DEF Keeping!Fails, KeepIInv, Keeping!Explained
  <2> QED  BY <2>1, <2>2, <2>3 DEF Keeping!Applies
<1>8. stray' # "none" => backend = "clickhouse"
  BY DEF Keeping!Applies, Keeping!Deletes, Keeping!SetsTtl, Keeping!Fails, KeepIInv,
     Keeping!Explained
<1>9. stray' = "pending" => stray = "pending" /\ ~Keeping!Saving(t)
  <2>1. CASE Keeping!Deletes(t)
    BY <2>1 DEF Keeping!Deletes, KeepIInv, Keeping!Explained
  <2>2. CASE Keeping!SetsTtl(t)
    <3>1. CASE task[t].days = 0
      BY <2>2, <3>1 DEF Keeping!SetsTtl, Keeping!Saving, KeepIInv, Keeping!Explained
    <3>2. CASE task[t].days # 0
      <4>1. stray' \in {task[t].why, "none"}
        BY <2>2, <3>2 DEF Keeping!SetsTtl, Keeping!Explain
      <4>2. task[t].why # "pending"
        BY DEF KeepIInv, Keeping!TypeOK
      <4> QED  BY <4>1, <4>2
    <3> QED  BY <3>1, <3>2
  <2>3. CASE Keeping!Fails(t)
    BY <2>3 DEF Keeping!Fails, Keeping!Saving
  <2> QED  BY <2>1, <2>2, <2>3 DEF Keeping!Applies
<1>10. stray' = "pending" => \E u \in Keeping!Tasks : Keeping!Saving(u)'
  <2> SUFFICES ASSUME stray' = "pending"  PROVE \E u \in Keeping!Tasks : Keeping!Saving(u)'
    OBVIOUS
  <2>1. PICK u \in Keeping!Tasks : Keeping!Saving(u) /\ u # t
    BY <1>9 DEF KeepIInv, Keeping!Explained
  <2> QED  BY <1>2, <2>1 DEF Keeping!Saving
<1>11. Keeping!Explained'
  <2>1. Keeping!Idle.kind = "idle"
    BY DEF Keeping!Idle
  <2> QED  BY <1>1, <1>2, <1>3, <1>7, <1>8, <1>10, <2>1 DEF KeepIInv, Keeping!Explained
<1> QED  BY <1>6, <1>11 DEF KeepIInv

(* Every step of the retention keeps the invariant.                        *)
LEMMA KeepStep == KeepIInv /\ [Keeping!Next]_keepVars => KeepIInv'
<1>1. ASSUME KeepIInv, UNCHANGED keepVars
      PROVE  KeepIInv'
  BY <1>1 DEF keepVars, KeepIInv, Keeping!TypeOK, Keeping!Explained, Keeping!Days, Keeping!Saving
<1> QED  BY <1>1, RecordsStep, BeginStep, SettingStep, EndStep DEF Keeping!Next

(* Fresh days are the setting's, and a TTL that is not is explained.       *)
THEOREM KeepIInvHolds == SafeSpec => []KeepIInv
<1>1. ClocksInit => KeepIInv
  BY KeepInit DEF ClocksInit
<1>2. KeepIInv /\ [ClocksNext]_<<part, vars, lockVars, keepVars>> => KeepIInv'
  BY KeepStep DEF ClocksNext
<1> QED  BY <1>1, <1>2, PTL DEF SafeSpec

(* The records that leave in one step are past the retention, or leave for *)
(* one of the named causes.                                                *)
LEMMA OneLeaves ==
  ASSUME KeepIInv, [Keeping!Next]_keepVars, NEW r \in Records, Keeping!Leaves(r)
  PROVE  \/ Keeping!Days > 0 /\ Keeping!Past(r, Keeping!Days)
         \/ /\ backend = "clickhouse" /\ Keeping!Past(r, ttl)
            /\ stray # "none"
            /\ stray = "pending" => \E t \in Keeping!Tasks : Keeping!Saving(t)
         \/ backend = "duckdb" /\ \E t \in Keeping!Tasks :
              /\ Keeping!Deletes(t)
              /\ \/ task[t].why # "fresh" /\ Keeping!Past(r, task[t].days)
                 \/ task[t].kind = "cleanup" /\ Keeping!Days = 0
<1>1. CASE Keeping!Expire(r)
  <2>1. CASE ttl = Keeping!Days
    <3>1. Keeping!Past(r, ttl) /\ ttl \in 1 .. MaxDays
      BY <1>1 DEF Keeping!Expire, KeepIInv, Keeping!TypeOK
    <3> QED  BY <2>1, <3>1
  <2>2. CASE ttl # Keeping!Days
    BY <1>1, <2>2 DEF Keeping!Expire, KeepIInv, Keeping!Explained
  <2> QED  BY <2>1, <2>2
<1>2. ASSUME NEW t \in Keeping!Tasks, Keeping!Deletes(t)
      PROVE  \/ Keeping!Days > 0 /\ Keeping!Past(r, Keeping!Days)
             \/ task[t].why # "fresh" /\ Keeping!Past(r, task[t].days)
             \/ task[t].kind = "cleanup" /\ Keeping!Days = 0
  <2>1. Keeping!Past(r, task[t].days) /\ task[t] # Keeping!Idle
    BY <1>2 DEF Keeping!Deletes, Keeping!Ends, Keeping!Keep, Keeping!Leaves
  <2>2. CASE task[t].why = "fresh"
    <3>1. task[t].days = Keeping!Days /\ Keeping!Days \in 0 .. MaxDays
      BY <2>1, <2>2, DaysAreDays DEF KeepIInv, Keeping!Explained, Keeping!TypeOK, Keeping!Days
    <3>2. task[t].kind \in {"daily", "save", "cleanup"}
      BY <2>1 DEF KeepIInv, Keeping!TypeOK, Keeping!Explained
    <3>3. task[t].kind \in {"daily", "save"} => task[t].days > 0
      BY DEF KeepIInv, Keeping!Explained
    <3>4. MaxDays \in Nat
      BY RetentionAssumption DEF Keeping!RetentionConstants
    <3> QED  BY <2>1, <3>1, <3>2, <3>3, <3>4
  <2> QED  BY <2>1, <2>2
<1>3. ASSUME NEW t \in Keeping!Tasks, Keeping!Deletes(t)
      PROVE  backend = "duckdb"
  BY <1>3 DEF Keeping!Deletes
<1>4. CASE \E s \in Records : Keeping!Expire(s)
  BY <1>1, <1>4 DEF Keeping!Expire, Keeping!Keep, Keeping!Leaves
<1>5. CASE \/ Keeping!Tick \/ Keeping!DailyPass \/ UNCHANGED keepVars
           \/ \E s \in Records : \E days \in 0 .. MaxDays : Keeping!Store(s, days)
           \/ \E t \in Admins :
                Keeping!Cleanup(t) \/ \E value \in Keeping!Settings : Keeping!Save(t, value)
           \/ \E value \in Keeping!Settings : Keeping!Restored(value)
           \/ \E t \in Keeping!Tasks : Keeping!SetsTtl(t) \/ Keeping!Fails(t)
  <2>1. DOMAIN age \subseteq DOMAIN age'
    <3>1. CASE Keeping!Tick
      BY <3>1 DEF Keeping!Tick
    <3>2. CASE \E s \in Records : \E days \in 0 .. MaxDays : Keeping!Store(s, days)
      BY <3>2 DEF Keeping!Store
    <3>3. CASE age' = age
      BY <3>3
    <3> QED  BY <1>5, <3>1, <3>2, <3>3 DEF Keeping!DailyPass, Keeping!Begins, Keeping!Cleanup,
               Keeping!Save, Keeping!Restored, Keeping!SetsTtl, Keeping!Fails, keepVars
  <2> QED  BY <2>1 DEF Keeping!Leaves
<1> QED  BY <1>2, <1>3, <1>4, <1>5 DEF Keeping!Next, Keeping!Applies

(* A record leaves when it is past the retention, or for a named cause;    *)
(* for any number of records and of tasks at once.                         *)
THEOREM RecordsLeaveHolds == SafeSpec => RecordsLeaveOnlyByNamedCause
<1> DEFINE OnlyByNamedCause ==
      \A r \in Records : Keeping!Leaves(r) =>
        \/ Keeping!Days > 0 /\ Keeping!Past(r, Keeping!Days)
        \/ /\ backend = "clickhouse" /\ Keeping!Past(r, ttl)
           /\ stray # "none"
           /\ stray = "pending" => \E t \in Keeping!Tasks : Keeping!Saving(t)
        \/ backend = "duckdb" /\ \E t \in Keeping!Tasks :
             /\ Keeping!Deletes(t)
             /\ \/ task[t].why # "fresh" /\ Keeping!Past(r, task[t].days)
                \/ task[t].kind = "cleanup" /\ Keeping!Days = 0
<1>1. KeepIInv /\ [ClocksNext]_<<part, vars, lockVars, keepVars>> => [OnlyByNamedCause]_(Keeping!vars)
  <2>1. KeepIInv /\ [Keeping!Next]_keepVars => OnlyByNamedCause
    BY OneLeaves
  <2>2. [ClocksNext]_<<part, vars, lockVars, keepVars>> => [Keeping!Next]_keepVars
    BY DEF ClocksNext
  <2> HIDE DEF OnlyByNamedCause
  <2> QED  BY <2>1, <2>2
<1> QED  BY <1>1, KeepIInvHolds, PTL DEF SafeSpec, RecordsLeaveOnlyByNamedCause,
            Keeping!RecordsLeaveOnlyByNamedCause

-----------------------------------------------------------------------------
(* The limiter and the breaker of the resonance widget, for every number   *)
(* of requests that run at once, and all limits, windows and cooldowns.    *)

Answers == {"ok", "config", "transient"}

Requested ==
  [at : {"idle", "user", "global", "breaker", "call", "failed"}, read : Nat, error : Answers]

LimiterTypes ==
  /\ rate \in [Limiter!Buckets -> [count : Nat, age : Nat]]
  /\ failures \in Nat /\ quiet \in Nat
  /\ passed \in [Limiter!Buckets -> Nat]
  /\ server \in Answers
  /\ request \in [Requests -> Requested]

(* The requests counted in a window that have yet to read its count: each  *)
(* may still be let through on top of those that were, so that the two     *)
(* together never get further ahead of the count than the requests there   *)
(* are. (A window that starts anew finds up to all the others waiting.)    *)
Waiting(b) == {r \in Requests : request[r].at = b}

WindowHolds(b) ==
  /\ passed[b] <= Limiter!LimitOf[b] + Limiter!InFlight - 1
  /\ rate[b].count <= Limiter!LimitOf[b] =>
       passed[b] + Cardinality(Waiting(b)) <= rate[b].count + Limiter!InFlight - 1

(* The requests about to write a first failure: each may still be counted  *)
(* as quiet, and only a request that reads no failure can become one.      *)
FirstFailures == {r \in Requests : request[r].at = "failed" /\ request[r].read = 0}

CountHolds ==
  /\ failures = 0 => quiet = 0
  /\ quiet + Cardinality(FirstFailures) <= Limiter!InFlight

LimiterInv == LimiterTypes /\ CountHolds /\ \A b \in Limiter!Buckets : WindowHolds(b)

(* The finite sets of the instance are those of the library's theorems.    *)
LEMMA SameFiniteSets ==
  \A S : Limiter!IsFiniteSet(S) = IsFiniteSet(S) /\ Limiter!Cardinality(S) = Cardinality(S)
BY DEF Limiter!IsFiniteSet, IsFiniteSet, Limiter!Cardinality, Cardinality

LEMMA LimiterNumbers ==
  ASSUME Limiter!ResonanceConstants
  PROVE  /\ Limiter!InFlight \in Nat /\ Limiter!InFlight >= 1
         /\ \A b \in Limiter!Buckets : Limiter!LimitOf[b] \in Nat
         /\ TransientThreshold \in Nat /\ TransientThreshold >= 2
         /\ Window \in Nat /\ Window >= 1
<1>1. /\ IsFiniteSet(Requests) /\ Limiter!InFlight = Cardinality(Requests)
      /\ Cardinality(Requests) \in Nat /\ Cardinality(Requests) # 0
  BY SameFiniteSets, FS_CardinalityType, FS_EmptySet
  DEF Limiter!InFlight, Limiter!ResonanceConstants
<1>2. UserLimit \in Nat /\ GlobalLimit \in Nat /\ Window \in Nat \ {0}
  BY DEF Limiter!ResonanceConstants
<1> QED  BY <1>1, <1>2 DEF Limiter!ResonanceConstants, Limiter!Buckets, Limiter!LimitOf,
                                Limiter!ConfigThreshold

(* Any set of requests is at most as large as the requests in flight.      *)
LEMMA SomeRequests ==
  ASSUME Limiter!ResonanceConstants, NEW S \in SUBSET Requests
  PROVE  IsFiniteSet(S) /\ Cardinality(S) \in Nat /\ Cardinality(S) <= Limiter!InFlight
BY SameFiniteSets, FS_Subset, FS_CardinalityType
DEF Limiter!ResonanceConstants, Limiter!InFlight

LEMMA LimiterInit ==
  ASSUME Limiter!ResonanceConstants, Limiter!Init
  PROVE  LimiterInv
<1>1. Waiting("user") = {} /\ Waiting("global") = {} /\ FirstFailures = {}
  BY DEF Limiter!Init, Limiter!Idle, Waiting, FirstFailures
<1>2. LimiterTypes
  BY LimiterNumbers DEF Limiter!Init, Limiter!Idle, LimiterTypes, Answers, Requested
<1>3. CountHolds
  BY <1>1, LimiterNumbers, FS_EmptySet DEF Limiter!Init, CountHolds
<1>4. ASSUME NEW b \in Limiter!Buckets  PROVE WindowHolds(b)
  <2>1. Waiting(b) = {} /\ passed[b] = 0 /\ rate[b].count = 0
    BY <1>1 DEF Limiter!Init, Limiter!Buckets
  <2>2. Cardinality({}) = 0
    BY FS_EmptySet
  <2> QED  BY <2>1, <2>2, LimiterNumbers DEF WindowHolds
<1> QED  BY <1>2, <1>3, <1>4 DEF LimiterInv

(* What a step may do to a window: count a request, let one that was       *)
(* waiting go on or not, or leave both alone.                              *)
LEMMA CountedKeeps ==
  ASSUME Limiter!ResonanceConstants, LimiterTypes, NEW b \in Limiter!Buckets, WindowHolds(b),
         NEW r \in Requests, r \notin Waiting(b), Waiting(b)' = Waiting(b) \cup {r},
         rate'[b] = Limiter!FixedWindow(b),
         passed'[b] = IF rate[b].age >= Window THEN 0 ELSE passed[b]
  PROVE  WindowHolds(b)'
<1> DEFINE W == Cardinality(Waiting(b))
<1>1. W \in Nat /\ Cardinality(Waiting(b)') = W + 1
  BY SomeRequests, FS_AddElement DEF Waiting
<1>2. W + 1 <= Limiter!InFlight
  BY <1>1, SomeRequests DEF Waiting
<1>3. rate[b] \in [count : Nat, age : Nat] /\ passed[b] \in Nat
  BY DEF LimiterTypes
<1>4. CASE rate[b].age >= Window
  <2>1. passed'[b] = 0 /\ rate'[b].count = 1
    BY <1>4 DEF Limiter!FixedWindow
  <2> QED  BY <2>1, <1>1, <1>2, LimiterNumbers DEF WindowHolds, Limiter!InFlight, Limiter!LimitOf
<1>5. CASE ~(rate[b].age >= Window)
  <2>1. passed'[b] = passed[b]
    BY <1>5
  <2>2. rate'[b].count = Limiter!CountUpTo(rate[b].count, Limiter!LimitOf[b] + 1)
    BY <1>3, <1>5 DEF Limiter!FixedWindow
  <2> QED  BY <2>1, <2>2, <1>1, <1>3, LimiterNumbers
             DEF WindowHolds, Limiter!CountUpTo, Limiter!InFlight, Limiter!LimitOf
<1> QED  BY <1>4, <1>5

LEMMA GoesOnKeeps ==
  ASSUME Limiter!ResonanceConstants, LimiterTypes, NEW b \in Limiter!Buckets, WindowHolds(b),
         NEW r \in Waiting(b), Waiting(b)' = Waiting(b) \ {r},
         rate'[b].count = rate[b].count,
         \/ passed'[b] = passed[b]
         \/ ~Limiter!Over(b) /\ passed'[b] = passed[b] + 1
  PROVE  WindowHolds(b)'
<1> DEFINE W == Cardinality(Waiting(b))
<1>1. W \in Nat /\ W - 1 \in Nat /\ Cardinality(Waiting(b)') = W - 1
  <2>1. IsFiniteSet(Waiting(b)) /\ W \in Nat
    BY SomeRequests DEF Waiting
  <2>2. /\ IsFiniteSet(Waiting(b) \ {r})
        /\ Cardinality(Waiting(b) \ {r}) = W - 1
    BY <2>1, FS_RemoveElement
  <2>3. W - 1 \in Nat
    BY <2>2, FS_CardinalityType
  <2> QED  BY <2>1, <2>2, <2>3
<1>2. rate[b] \in [count : Nat, age : Nat] /\ passed[b] \in Nat
  BY DEF LimiterTypes
<1> QED  BY <1>1, <1>2, LimiterNumbers
           DEF WindowHolds, Limiter!Over, Limiter!InFlight, Limiter!LimitOf

LEMMA LeftAloneKeeps ==
  ASSUME NEW b \in Limiter!Buckets, WindowHolds(b), Waiting(b)' = Waiting(b),
         rate'[b].count = rate[b].count, passed'[b] = passed[b]
  PROVE  WindowHolds(b)'
BY DEF WindowHolds, Limiter!InFlight, Limiter!LimitOf

(* One request moves: the others wait, or have failed, as they did.        *)
LEMMA OneMoves ==
  ASSUME LimiterTypes, NEW r \in Requests, NEW x,
         request' = [request EXCEPT ![r] = x]
  PROVE  /\ \A b : Waiting(b)' = IF x.at = b THEN Waiting(b) \cup {r} ELSE Waiting(b) \ {r}
         /\ FirstFailures' = IF x.at = "failed" /\ x.read = 0
                               THEN FirstFailures \cup {r} ELSE FirstFailures \ {r}
BY DEF LimiterTypes, Requested, Waiting, FirstFailures

(* Every action of a request, by what it does to the request itself.       *)
LEMMA RequestMoves ==
  ASSUME LimiterTypes, NEW r \in Requests, Limiter!Code(r) \/ Limiter!RequestStep(r)
  PROVE  \E x \in Requested : request' = [request EXCEPT ![r] = x]
<1> DEFINE at(next) == [request[r] EXCEPT !.at = next]
<1>1. request[r] \in Requested /\ Limiter!Idle \in Requested
  BY DEF LimiterTypes, Requested, Limiter!Idle, Answers
<1>2. ASSUME NEW next \in {"user", "global", "breaker", "call"}, request' = Limiter!At(r, next)
      PROVE  \E x \in Requested : request' = [request EXCEPT ![r] = x]
  <2>1. at(next) \in Requested
    BY <1>1, <1>2 DEF Requested
  <2> QED  BY <2>1, <1>2 DEF Limiter!At
<1>3. ASSUME request' = Limiter!End(r)
      PROVE  \E x \in Requested : request' = [request EXCEPT ![r] = x]
  BY <1>1, <1>3 DEF Limiter!End
<1>4. CASE Limiter!Fails(r)
  <2>1. [at |-> "failed", read |-> failures, error |-> server] \in Requested
    BY DEF LimiterTypes, Requested
  <2> QED  BY <2>1, <1>4 DEF Limiter!Fails
<1>5. CASE Limiter!Code(r) \/ Limiter!PassesUser(r) \/ Limiter!PassesGlobal(r)
  BY <1>2, <1>5 DEF Limiter!Code, Limiter!PassesUser, Limiter!PassesGlobal
<1>6. CASE \/ \E b \in Limiter!Buckets : Limiter!Refused(r, b)
           \/ Limiter!Succeeds(r) \/ Limiter!RecordFailure(r)
  BY <1>3, <1>6 DEF Limiter!Refused, Limiter!Succeeds, Limiter!RecordFailure
<1>7. CASE Limiter!AssertClosed(r)
  BY <1>2, <1>3, <1>7 DEF Limiter!AssertClosed, Limiter!RefusalEnds
<1> QED  BY <1>4, <1>5, <1>6, <1>7 DEF Limiter!RequestStep

(* The types, step by step.                                                *)
LEMMA FixedWindowType ==
  ASSUME Limiter!ResonanceConstants, LimiterTypes, NEW b \in Limiter!Buckets
  PROVE  Limiter!FixedWindow(b) \in [count : Nat, age : Nat]
<1>1. rate[b] \in [count : Nat, age : Nat] /\ Limiter!LimitOf[b] + 1 \in Nat
  BY LimiterNumbers DEF LimiterTypes
<1>2. Limiter!CountUpTo(rate[b].count, Limiter!LimitOf[b] + 1) \in Nat
  BY <1>1 DEF Limiter!CountUpTo
<1> QED  BY <1>1, <1>2 DEF Limiter!FixedWindow

LEMMA LimiterTyped ==
  ASSUME Limiter!ResonanceConstants, LimiterTypes, [Limiter!Next]_(Limiter!vars)
  PROVE  LimiterTypes'
<1> USE DEF LimiterTypes
<1>1. ASSUME NEW r \in Requests, Limiter!Code(r) \/ Limiter!RequestStep(r)
      PROVE  LimiterTypes'
  <2>1. request' \in [Requests -> Requested]
    BY <1>1, RequestMoves DEF Requested
  <2>2. server' \in Answers
    BY <1>1 DEF Limiter!Code, Limiter!RequestStep, Limiter!Refused, Limiter!PassesUser,
         Limiter!PassesGlobal, Limiter!AssertClosed, Limiter!Succeeds, Limiter!Fails,
         Limiter!RecordFailure
  <2>3. failures' \in Nat /\ quiet' \in Nat
    <3>1. CASE Limiter!RecordFailure(r)
      <4>1. Limiter!CountUpTo(request[r].read, TransientThreshold) \in Nat
        BY LimiterNumbers DEF Limiter!CountUpTo, Requested
      <4> QED  BY <3>1, <4>1 DEF Limiter!RecordFailure
    <3>2. CASE ~Limiter!RecordFailure(r)
      BY <1>1, <3>2 DEF Limiter!Code, Limiter!RequestStep, Limiter!Refused, Limiter!PassesUser,
         Limiter!PassesGlobal, Limiter!AssertClosed, Limiter!Succeeds, Limiter!Fails,
         Limiter!RecordSuccess, Limiter!breakerVars
    <3> QED  BY <3>1, <3>2
  <2>4. /\ rate' \in [Limiter!Buckets -> [count : Nat, age : Nat]]
        /\ passed' \in [Limiter!Buckets -> Nat]
    <3>1. CASE Limiter!Code(r)
      BY <3>1, FixedWindowType DEF Limiter!Code, Limiter!Consume, Limiter!Buckets
    <3>2. CASE Limiter!PassesUser(r)
      BY <3>2, FixedWindowType DEF Limiter!PassesUser, Limiter!Buckets
    <3>3. CASE Limiter!PassesGlobal(r)
      BY <3>3 DEF Limiter!PassesGlobal, Limiter!Buckets
    <3>4. CASE ~(Limiter!Code(r) \/ Limiter!PassesUser(r) \/ Limiter!PassesGlobal(r))
      BY <1>1, <3>4 DEF Limiter!RequestStep, Limiter!Refused, Limiter!AssertClosed,
         Limiter!Succeeds, Limiter!Fails, Limiter!RecordFailure
    <3> QED  BY <3>1, <3>2, <3>3, <3>4
  <2> QED  BY <2>1, <2>2, <2>3, <2>4 DEF Requested
<1>2. CASE Limiter!Tick
  <2>1. ASSUME NEW b \in Limiter!Buckets
        PROVE  [rate[b] EXCEPT !.age = Limiter!CountUpTo(@, Window)] \in [count : Nat, age : Nat]
    BY LimiterNumbers DEF Limiter!CountUpTo
  <2> QED  BY <1>2, <2>1 DEF Limiter!Tick
<1>3. CASE Limiter!TestSucceeds
  BY <1>3 DEF Limiter!TestSucceeds, Limiter!RecordSuccess
<1>4. CASE \E answer \in {"ok", "config", "transient"} : Limiter!ServerChanges(answer)
  BY <1>4 DEF Limiter!ServerChanges, Limiter!breakerVars, Answers
<1>5. CASE Limiter!Toggle \/ UNCHANGED Limiter!vars
  BY <1>5 DEF Limiter!Toggle, Limiter!vars, Limiter!breakerVars
<1> QED  BY <1>1, <1>2, <1>3, <1>4, <1>5 DEF Limiter!Next

(* Every step treats each window in one of the three ways.                 *)
LEMMA WindowsStep ==
  ASSUME Limiter!ResonanceConstants, LimiterTypes, NEW b \in Limiter!Buckets, WindowHolds(b),
         [Limiter!Next]_(Limiter!vars)
  PROVE  WindowHolds(b)'
<1>0. /\ b \in {"user", "global"}
      /\ DOMAIN passed = {"user", "global"} /\ DOMAIN rate = {"user", "global"}
  BY DEF Limiter!Buckets, LimiterTypes
<1>1. ASSUME NEW r \in Requests, Limiter!Code(r)
      PROVE  WindowHolds(b)'
  <2> DEFINE x == [request[r] EXCEPT !.at = "user"]
  <2>1. /\ request[r].at = "idle"
        /\ request' = [request EXCEPT ![r] = x]
        /\ request[r] \in Requested
    BY <1>1 DEF Limiter!Code, Limiter!At, Limiter!Idle, LimiterTypes, Requested
  <2>2. x.at = "user"
    BY <2>1 DEF Requested
  <2> HIDE DEF x
  <2>3. Waiting(b)' = IF "user" = b THEN Waiting(b) \cup {r} ELSE Waiting(b) \ {r}
    BY <2>1, <2>2, OneMoves
  <2>6. r \notin Waiting(b)
    BY <1>0, <2>1 DEF Waiting
  <2>4. CASE b = "user"
    <3>1. /\ rate'[b] = Limiter!FixedWindow(b)
          /\ passed'[b] = IF rate[b].age >= Window THEN 0 ELSE passed[b]
      BY <1>0, <1>1, <2>4 DEF Limiter!Code, Limiter!Consume
    <3> QED  BY <2>3, <2>4, <2>6, <3>1, CountedKeeps
  <2>5. CASE b # "user"
    <3>1. rate'[b] = rate[b] /\ passed'[b] = passed[b]
      BY <1>0, <1>1, <2>5 DEF Limiter!Code, Limiter!Consume
    <3> QED  BY <2>3, <2>5, <2>6, <3>1, LeftAloneKeeps
  <2> QED  BY <2>4, <2>5
<1>2. ASSUME NEW r \in Requests, Limiter!PassesUser(r)
      PROVE  WindowHolds(b)'
  <2> DEFINE x == [request[r] EXCEPT !.at = "global"]
  <2>1. /\ request[r].at = "user"
        /\ request' = [request EXCEPT ![r] = x]
        /\ request[r] \in Requested
    BY <1>2 DEF Limiter!PassesUser, Limiter!At, LimiterTypes, Requested
  <2>2. x.at = "global"
    BY <2>1 DEF Requested
  <2> HIDE DEF x
  <2>3. Waiting(b)' = IF "global" = b THEN Waiting(b) \cup {r} ELSE Waiting(b) \ {r}
    BY <2>1, <2>2, OneMoves
  <2>4. CASE b = "user"
    <3>1. r \in Waiting(b) /\ Waiting(b)' = Waiting(b) \ {r}
      BY <2>1, <2>3, <2>4 DEF Waiting
    <3>2. rate'[b] = rate[b] /\ ~Limiter!Over(b) /\ passed'[b] = passed[b] + 1
      BY <1>0, <1>2, <2>4 DEF Limiter!PassesUser
    <3> QED  BY <3>1, <3>2, GoesOnKeeps
  <2>5. CASE b = "global"
    <3>1. r \notin Waiting(b) /\ Waiting(b)' = Waiting(b) \cup {r}
      BY <2>1, <2>3, <2>5 DEF Waiting
    <3>2. /\ rate'[b] = Limiter!FixedWindow(b)
          /\ passed'[b] = IF rate[b].age >= Window THEN 0 ELSE passed[b]
      BY <1>0, <1>2, <2>5 DEF Limiter!PassesUser
    <3> QED  BY <3>1, <3>2, CountedKeeps
  <2> QED  BY <1>0, <2>4, <2>5
<1>3. ASSUME NEW r \in Requests, Limiter!PassesGlobal(r)
      PROVE  WindowHolds(b)'
  <2> DEFINE x == [request[r] EXCEPT !.at = "breaker"]
  <2>1. /\ request[r].at = "global"
        /\ request' = [request EXCEPT ![r] = x]
        /\ request[r] \in Requested
    BY <1>3 DEF Limiter!PassesGlobal, Limiter!At, LimiterTypes, Requested
  <2>2. x.at = "breaker"
    BY <2>1 DEF Requested
  <2> HIDE DEF x
  <2>3. Waiting(b)' = Waiting(b) \ {r} /\ rate'[b] = rate[b]
    BY <1>0, <1>3, <2>1, <2>2, OneMoves DEF Limiter!PassesGlobal
  <2>4. CASE b = "global"
    <3>1. r \in Waiting(b)
      BY <2>1, <2>4 DEF Waiting
    <3>2. ~Limiter!Over(b) /\ passed'[b] = passed[b] + 1
      BY <1>0, <1>3, <2>4 DEF Limiter!PassesGlobal
    <3> QED  BY <2>3, <3>1, <3>2, GoesOnKeeps
  <2>5. CASE b = "user"
    <3>1. r \notin Waiting(b) /\ passed'[b] = passed[b]
      BY <1>0, <1>3, <2>1, <2>5 DEF Limiter!PassesGlobal, Waiting
    <3> QED  BY <2>3, <3>1, LeftAloneKeeps
  <2> QED  BY <1>0, <2>4, <2>5
<1>4. ASSUME NEW r \in Requests,
             \/ \E c \in Limiter!Buckets : Limiter!Refused(r, c)
             \/ Limiter!AssertClosed(r) \/ Limiter!Succeeds(r) \/ Limiter!Fails(r)
             \/ Limiter!RecordFailure(r)
      PROVE  WindowHolds(b)'
  <2>1. rate' = rate /\ passed' = passed
    BY <1>4 DEF Limiter!Refused, Limiter!AssertClosed, Limiter!Succeeds, Limiter!Fails,
         Limiter!RecordFailure
  <2>2. PICK x : request' = [request EXCEPT ![r] = x] /\ x.at \notin {"user", "global"}
    <3>1. CASE \/ Limiter!AssertClosed(r) /\ openFor > 0
               \/ ~Limiter!AssertClosed(r) /\ ~Limiter!Fails(r)
      BY <1>4, <3>1 DEF Limiter!Refused, Limiter!AssertClosed, Limiter!RefusalEnds,
           Limiter!Succeeds, Limiter!RecordFailure, Limiter!End, Limiter!Idle
    <3>2. CASE Limiter!AssertClosed(r) /\ ~(openFor > 0)
      <4>1. [request[r] EXCEPT !.at = "call"].at = "call"
        BY DEF LimiterTypes
      <4> QED  BY <3>2, <4>1 DEF Limiter!AssertClosed, Limiter!At
    <3>3. CASE Limiter!Fails(r)
      <4> DEFINE failed == [at |-> "failed", read |-> failures, error |-> server]
      <4>1. request' = [request EXCEPT ![r] = failed]
        BY <3>3 DEF Limiter!Fails
      <4>2. failed.at \notin {"user", "global"}
        OBVIOUS
      <4> HIDE DEF failed
      <4> QED  BY <4>1, <4>2
    <3> QED  BY <3>1, <3>2, <3>3
  <2>3. Waiting(b)' = Waiting(b) \ {r}
    BY <1>0, <2>2, OneMoves
  <2>4. CASE r \in Waiting(b)
    BY <2>1, <2>3, <2>4, GoesOnKeeps
  <2>5. CASE r \notin Waiting(b)
    BY <2>1, <2>3, <2>5, LeftAloneKeeps
  <2> QED  BY <2>4, <2>5
<1>5. CASE Limiter!Tick
  <2>1. Waiting(b)' = Waiting(b) /\ passed' = passed
    BY <1>5 DEF Limiter!Tick, Waiting
  <2>2. rate'[b].count = rate[b].count
    BY <1>5 DEF Limiter!Tick, LimiterTypes
  <2> QED  BY <2>1, <2>2, LeftAloneKeeps
<1>6. CASE \/ Limiter!TestSucceeds \/ Limiter!Toggle \/ UNCHANGED Limiter!vars
           \/ \E answer \in {"ok", "config", "transient"} : Limiter!ServerChanges(answer)
  <2>1. request' = request /\ passed' = passed /\ rate' = rate
    BY <1>6 DEF Limiter!TestSucceeds, Limiter!Toggle, Limiter!ServerChanges, Limiter!vars
  <2>2. Waiting(b)' = Waiting(b)
    BY <2>1 DEF Waiting
  <2> QED  BY <2>1, <2>2, LeftAloneKeeps
<1> QED  BY <1>1, <1>2, <1>3, <1>4, <1>5, <1>6 DEF Limiter!Next, Limiter!RequestStep

(* And the two counts of failures: a request adds itself to those about to *)
(* write a first failure only while no failure is counted; it leaves them  *)
(* when it is counted, or writes a second failure, which opens the breaker *)
(* if it is a configuration error.                                         *)
LEMMA CountStep ==
  ASSUME Limiter!ResonanceConstants, LimiterTypes, CountHolds, [Limiter!Next]_(Limiter!vars)
  PROVE  CountHolds'
<1> DEFINE F == Cardinality(FirstFailures)
<1>1. /\ IsFiniteSet(FirstFailures) /\ F \in Nat
      /\ Cardinality(FirstFailures') \in Nat
      /\ Cardinality(FirstFailures') <= Limiter!InFlight
      /\ failures \in Nat /\ quiet \in Nat /\ Limiter!InFlight \in Nat
  BY SomeRequests, LimiterTyped, LimiterNumbers, FS_CardinalityType
  DEF FirstFailures, Limiter!InFlight, LimiterTypes
<1>2. ASSUME FirstFailures' \subseteq FirstFailures
      PROVE  Cardinality(FirstFailures') <= F
  BY <1>1, <1>2, FS_Subset
<1>3. ASSUME quiet' = 0
      PROVE  CountHolds'
  BY <1>1, <1>3 DEF CountHolds, Limiter!InFlight
<1>4. ASSUME failures' = failures, quiet' = quiet, FirstFailures' \subseteq FirstFailures
      PROVE  CountHolds'
  BY <1>1, <1>2, <1>4 DEF CountHolds, Limiter!InFlight
<1>5. ASSUME NEW r \in Requests, Limiter!RecordFailure(r)
      PROVE  CountHolds'
  <2> DEFINE counted == Limiter!CountUpTo(request[r].read, TransientThreshold)
  <2>1. /\ request[r].at = "failed" /\ request[r].read \in Nat
        /\ failures' = counted
        /\ \/ quiet' = 0
           \/ counted < Limiter!Threshold(request[r].error)
              /\ quiet' = IF request[r].error = "config" THEN quiet + 1 ELSE quiet
    BY <1>5, LimiterNumbers
    DEF Limiter!RecordFailure, LimiterTypes, Requested, Limiter!Threshold, Limiter!CountUpTo,
        Limiter!ConfigThreshold
  <2>2. counted \in Nat /\ counted >= 1 /\ (request[r].read >= 1 => counted >= 2)
    BY <2>1, LimiterNumbers DEF Limiter!CountUpTo
  <2>3. FirstFailures' = FirstFailures \ {r}
    <3>1. request' = [request EXCEPT ![r] = Limiter!Idle]
      BY <1>5 DEF Limiter!RecordFailure, Limiter!End
    <3>2. Limiter!Idle.at # "failed"
      BY DEF Limiter!Idle
    <3> QED  BY <3>1, <3>2, OneMoves
  <2> HIDE DEF counted
  <2>4. CASE request[r].read = 0 /\ quiet' = quiet + 1
    <3>1. r \in FirstFailures
      BY <2>1, <2>4 DEF FirstFailures
    <3>2. Cardinality(FirstFailures') = F - 1
      BY <1>1, <2>3, <3>1, FS_RemoveElement
    <3> QED  BY <1>1, <2>1, <2>2, <2>4, <3>2 DEF CountHolds, Limiter!InFlight
  <2>5. CASE quiet' = quiet
    BY <1>1, <1>2, <2>1, <2>2, <2>3, <2>5 DEF CountHolds, Limiter!InFlight
  <2>6. CASE quiet' = 0
    BY <1>3, <2>6
  <2>7. quiet' = 0 \/ quiet' = quiet \/ (request[r].read = 0 /\ quiet' = quiet + 1)
    BY <2>1, <2>2 DEF Limiter!Threshold, Limiter!ConfigThreshold
  <2> QED  BY <2>4, <2>5, <2>6, <2>7
<1>6. ASSUME NEW r \in Requests, Limiter!Fails(r)
      PROVE  CountHolds'
  <2> DEFINE failed == [at |-> "failed", read |-> failures, error |-> server]
  <2>1. /\ request' = [request EXCEPT ![r] = failed]
        /\ failures' = failures /\ quiet' = quiet
    BY <1>6 DEF Limiter!Fails, Limiter!breakerVars
  <2>2. failed.at = "failed" /\ failed.read = failures
    OBVIOUS
  <2> HIDE DEF failed
  <2>3. FirstFailures' = IF failures = 0 THEN FirstFailures \cup {r} ELSE FirstFailures \ {r}
    BY <2>1, <2>2, OneMoves
  <2>4. CASE failures = 0
    <3>1. quiet' = 0
      BY <2>1, <2>4 DEF CountHolds
    <3> QED  BY <1>3, <3>1
  <2>5. CASE failures # 0
    BY <1>4, <2>1, <2>3, <2>5
  <2> QED  BY <2>4, <2>5
<1>7. ASSUME Limiter!RecordSuccess
      PROVE  CountHolds'
  BY <1>3, <1>7 DEF Limiter!RecordSuccess
<1>8. ASSUME NEW r \in Requests,
             \/ Limiter!Code(r) \/ Limiter!PassesUser(r) \/ Limiter!PassesGlobal(r)
             \/ \E c \in Limiter!Buckets : Limiter!Refused(r, c)
             \/ Limiter!AssertClosed(r)
      PROVE  CountHolds'
  <2>1. failures' = failures /\ quiet' = quiet
    BY <1>8 DEF Limiter!Code, Limiter!PassesUser, Limiter!PassesGlobal, Limiter!Refused,
         Limiter!AssertClosed, Limiter!breakerVars
  <2>2. PICK x : request' = [request EXCEPT ![r] = x] /\ x.at # "failed"
    <3>1. \A next : [request[r] EXCEPT !.at = next].at = next
      BY DEF LimiterTypes, Requested
    <3>2. ASSUME NEW next \in {"user", "global", "breaker", "call"}, request' = Limiter!At(r, next)
          PROVE  \E x : request' = [request EXCEPT ![r] = x] /\ x.at # "failed"
      BY <3>1, <3>2 DEF Limiter!At
    <3>3. ASSUME request' = Limiter!End(r)
          PROVE  \E x : request' = [request EXCEPT ![r] = x] /\ x.at # "failed"
      <4>1. Limiter!Idle.at # "failed"
        BY DEF Limiter!Idle
      <4> QED  BY <3>3, <4>1 DEF Limiter!End
    <3> QED  BY <1>8, <3>2, <3>3 DEF Limiter!Code, Limiter!PassesUser, Limiter!PassesGlobal,
               Limiter!Refused, Limiter!AssertClosed, Limiter!RefusalEnds
  <2>3. FirstFailures' = FirstFailures \ {r}
    BY <2>2, OneMoves
  <2> QED  BY <1>4, <2>1, <2>3
<1>9. CASE \/ Limiter!Toggle \/ Limiter!Tick \/ UNCHANGED Limiter!vars
           \/ \E answer \in {"ok", "config", "transient"} : Limiter!ServerChanges(answer)
  <2>1. request' = request /\ failures' = failures /\ quiet' = quiet
    BY <1>9 DEF Limiter!Toggle, Limiter!Tick, Limiter!ServerChanges, Limiter!vars,
         Limiter!breakerVars
  <2>2. FirstFailures' = FirstFailures
    BY <2>1 DEF FirstFailures
  <2> QED  BY <1>4, <2>1, <2>2
<1> QED  BY <1>5, <1>6, <1>7, <1>8, <1>9
           DEF Limiter!Next, Limiter!RequestStep, Limiter!Succeeds, Limiter!TestSucceeds

LEMMA LimiterInvHolds == Limiter!Spec => []LimiterInv
<1>1. Limiter!Init => LimiterInv
  BY LimiterAssumption, LimiterInit
<1>2. LimiterInv /\ [Limiter!Next]_(Limiter!vars) => LimiterInv'
  BY LimiterAssumption, LimiterTyped, CountStep, WindowsStep DEF LimiterInv, Limiter!Buckets
<1> QED  BY <1>1, <1>2, PTL DEF Limiter!Spec

(* A window lets through its limit, and at most the other requests that    *)
(* were in flight when it began.                                           *)
THEOREM WindowsLimitHolds == Limiter!Spec => []WindowsLimit
<1>1. LimiterInv => WindowsLimit
  BY DEF LimiterInv, WindowHolds, WindowsLimit, Limiter!WindowsLimit
<1> QED  BY <1>1, LimiterInvHolds, PTL

(* Configuration errors open the breaker at the latest with the failure    *)
(* that follows as many as there are requests in flight.                   *)
THEOREM ConfigErrorsOpenBreakerHolds == Limiter!Spec => []ConfigErrorsOpenBreaker
<1>1. ASSUME LimiterInv
      PROVE  ConfigErrorsOpenBreaker
  <2>1. /\ Cardinality(FirstFailures) \in Nat /\ quiet \in Nat /\ Limiter!InFlight \in Nat
        /\ quiet + Cardinality(FirstFailures) <= Limiter!InFlight
    BY <1>1, LimiterAssumption, SomeRequests, LimiterNumbers
       DEF FirstFailures, LimiterInv, LimiterTypes, CountHolds
  <2> QED  BY <2>1 DEF ConfigErrorsOpenBreaker, Limiter!ConfigErrorsOpenBreaker,
                       Limiter!InFlight
<1> QED  BY <1>1, LimiterInvHolds, PTL
=============================================================================
