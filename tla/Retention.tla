------------------------------ MODULE Retention ------------------------------
(***************************************************************************)
(* How long pktLog keeps its records: the setting retention_days_raw and   *)
(* the three that push it through to storage, the daily pass               *)
(* (app/retention.py), a save of the setting (app/api/settings.py) and the *)
(* manual cleanup (app/api/system.py). Each reads or commits the setting   *)
(* in one await and applies the days it has in a later one. On DuckDB to   *)
(* apply is to delete; on ClickHouse it sets the table's TTL, by which the *)
(* database removes records on its own from then on.                       *)
(***************************************************************************)
EXTENDS Naturals

CONSTANTS
  Records,     \* rows of syslog_events
  Daily,       \* the task of DataRetention
  Admins,      \* the saves and cleanups that may be under way at once
  MaxDays,     \* bound on the days: no age beyond it is told apart
  Default,     \* 90: _DEFAULT_RETENTION_DAYS, and the TTL of schema.sql
  NotANumber,  \* a setting without a row, or int() raises
  MaxFaults    \* bound on the reads and statements that fail

RetentionConstants ==
  /\ {MaxDays, MaxFaults} \subseteq Nat
  /\ Default \in 1 .. MaxDays
  /\ NotANumber \notin Nat
  /\ Daily \notin Admins

VARIABLES
  backend,  \* "clickhouse" or "duckdb", for good
  setting,  \* retention_days_raw; 0 stands for everything not positive
  ttl,      \* the days of the TTL in force (ClickHouse)
  age,      \* the stored records with their ages, in days
  task,     \* what each task is about to apply; "why" is history: are the
            \* days those of the setting, have they been overtaken by a
            \* change of it, or could they not be read?
  stray,    \* why the TTL is not what the setting says (history)
  faults    \* the reads and statements that have failed

vars == <<backend, setting, ttl, age, task, stray, faults>>

Tasks == Admins \cup {Daily}
Idle == [kind |-> "idle", days |-> 0, why |-> "fresh"]

(* retention_days_raw as the daily pass and the cleanup read it. *)
DaysOf(value) == IF value = NotANumber THEN Default ELSE value
Days == DaysOf(setting)

Past(r, days) == age[r] >= days
Keep(kept) == age' = [r \in kept |-> age[r]]

-----------------------------------------------------------------------------
Init ==
  /\ backend \in {"clickhouse", "duckdb"}
  /\ setting = Default
  /\ ttl = Default
  /\ age = [r \in {} |-> 0]
  /\ task = [t \in Tasks |-> Idle]
  /\ stray = "none"
  /\ faults = 0

(* A record is stored; its timestamp is the sender's, of any age. *)
Store(r, days) ==
  /\ r \notin DOMAIN age
  /\ age' = [s \in DOMAIN age \cup {r} |-> IF s = r THEN days ELSE age[s]]
  /\ UNCHANGED <<backend, setting, ttl, task, stray, faults>>

Tick ==
  /\ age' = [r \in DOMAIN age |-> IF age[r] < MaxDays THEN age[r] + 1 ELSE MaxDays]
  /\ UNCHANGED <<backend, setting, ttl, task, stray, faults>>

Fault == faults < MaxFaults /\ faults' = faults + 1

(* The task has the days and awaits storage. *)
Begins(t, kind, days, why) ==
  /\ task[t] = Idle
  /\ task' = [task EXCEPT ![t] = [kind |-> kind, days |-> days, why |-> why]]
  /\ UNCHANGED <<backend, setting, ttl, age, stray>>

(* run_once, up to its await of storage: whatever goes wrong with the read *)
(* counts as the default.                                                  *)
NeverSkips(days) == FALSE \* mutant: the test of days is dropped
Skips(days) == days = 0

DailyPass ==
  \/ ~Skips(Days) /\ Begins(Daily, "daily", Days, "fresh") /\ UNCHANGED faults
  \/ Fault /\ Begins(Daily, "daily", Default, "unread")

(* POST /api/system/cleanup: the days go on as they are. *)
Cleanup(t) == Begins(t, "cleanup", Days, "fresh") /\ UNCHANGED faults

(* The TTL is now, for this reason, another than the setting's. *)
Explain(cause) ==
  stray' = IF backend = "clickhouse" /\ ttl' # DaysOf(setting') THEN cause ELSE "none"

(* The tasks that hold other days than the new setting are late. *)
Overtaken(t, value) ==
  IF task[t] = Idle \/ task[t].days = DaysOf(value)
    THEN task[t]
    ELSE [task[t] EXCEPT !.why = IF @ = "fresh" THEN "overtaken" ELSE @]

(* update_setting and bulk_update, up to the commit: a value that is no    *)
(* number, or not positive, is committed and not applied.                  *)
Save(t, value) ==
  /\ task[t] = Idle
  /\ setting' = value
  /\ UNCHANGED <<backend, ttl, age, faults>>
  /\ LET applied == value \in 1 .. MaxDays IN
       /\ task' = [u \in Tasks |->
                     IF u = t /\ applied
                       THEN [kind |-> "save", days |-> value, why |-> "fresh"]
                       ELSE Overtaken(u, value)]
       /\ Explain(IF applied THEN "pending" ELSE "not applied")

(* A restored or imported pktlog.db has a setting of its own. *)
Restored(value) ==
  /\ setting' = value
  /\ UNCHANGED <<backend, ttl, age, faults>>
  /\ task' = [t \in Tasks |-> Overtaken(t, value)]
  /\ Explain("restored")

-----------------------------------------------------------------------------
Ends(t) == task[t] # Idle /\ task' = [task EXCEPT ![t] = Idle]

(* DuckDBBackend.update_retention_ttl: the records past the days are       *)
(* deleted; with zero days that is every record.                           *)
Deletes(t) ==
  /\ backend = "duckdb"
  /\ Ends(t)
  /\ Keep({r \in DOMAIN age : ~Past(r, task[t].days)})
  /\ UNCHANGED <<backend, setting, ttl, stray, faults>>

(* ClickHouseBackend.update_retention_ttl: days that are not positive      *)
(* raise. (A TTL that is the same already is not modified.)                *)
OnlyShortens(days) == ttl' = IF days < ttl THEN days ELSE ttl \* mutant: another guard
ModifyTtl(days) == ttl' = days

SetsTtl(t) ==
  /\ backend = "clickhouse"
  /\ Ends(t)
  /\ UNCHANGED <<backend, setting, age, faults>>
  /\ IF task[t].days = 0
       THEN UNCHANGED <<ttl, stray>>
       ELSE ModifyTtl(task[t].days) /\ Explain(task[t].why)

Applies(t) == Deletes(t) \/ SetsTtl(t)

(* Storage fails the task, or the process ends: a save stays committed. *)
Fails(t) ==
  /\ Fault
  /\ Ends(t)
  /\ stray' = IF stray = "pending" /\ task[t].kind = "save" THEN "failed" ELSE stray
  /\ UNCHANGED <<backend, setting, ttl, age>>

(* A merge or a materialised TTL removes a record past the TTL in force.   *)
Expire(r) ==
  /\ backend = "clickhouse"
  /\ r \in DOMAIN age
  /\ Past(r, ttl)
  /\ Keep(DOMAIN age \ {r})
  /\ UNCHANGED <<backend, setting, ttl, task, stray, faults>>

-----------------------------------------------------------------------------
Settings == 0 .. MaxDays \cup {NotANumber}

Next ==
  \/ \E r \in Records : Expire(r) \/ \E days \in 0 .. MaxDays : Store(r, days)
  \/ Tick
  \/ DailyPass
  \/ \E t \in Admins : Cleanup(t) \/ \E value \in Settings : Save(t, value)
  \/ \E value \in Settings : Restored(value)
  \/ \E t \in Tasks : Applies(t) \/ Fails(t)

Spec == Init /\ [][Next]_vars

(* The daily loop survives every exception, storage answers, and           *)
(* ClickHouse merges.                                                      *)
Fairness ==
  /\ WF_vars(DailyPass)
  /\ \A t \in Tasks : WF_vars(Applies(t))
  /\ \A r \in Records : WF_vars(Expire(r))

-----------------------------------------------------------------------------
(* Properties. *)

(* The variables have the values the code can give them. *)
TypeOK ==
  /\ backend \in {"clickhouse", "duckdb"}
  /\ setting \in Settings
  /\ ttl \in 1 .. MaxDays
  /\ DOMAIN age \in SUBSET Records
  /\ age \in [DOMAIN age -> 0 .. MaxDays]
  /\ task \in [Tasks -> [kind : {"idle", "daily", "save", "cleanup"}, days : 0 .. MaxDays,
                         why : {"fresh", "overtaken", "unread"}]]
  /\ stray \in {"none", "pending", "failed", "not applied", "restored", "overtaken", "unread"}
  /\ faults \in 0 .. MaxFaults

Saving(t) == task[t].kind = "save" /\ task[t].why = "fresh"

(* The inductive core of RecordsLeaveOnlyByNamedCause: what a task holds   *)
(* and what ClickHouse works by is the setting, or it is known why not. A  *)
(* TTL is behind its save only while that save is under way.               *)
Explained ==
  /\ \A t \in Tasks : task[t].kind = "idle" => task[t] = Idle
  /\ \A t \in Tasks : task[t] # Idle /\ task[t].why = "fresh" => task[t].days = Days
  /\ \A t \in Tasks : task[t].kind \in {"daily", "save"} => task[t].days > 0
  /\ backend = "clickhouse" /\ ttl # Days => stray # "none"
  /\ stray # "none" => backend = "clickhouse"
  /\ stray = "pending" => \E t \in Tasks : Saving(t)

Leaves(r) == r \in DOMAIN age \ DOMAIN age'

(* A record leaves storage when it is past the retention, while there is   *)
(* one ("retention disabled ... leave the existing TTL alone",             *)
(* app/api/settings.py:264, and the daily pass skips), and otherwise only  *)
(* for one of these causes, whatever is saved, restored, read and applied  *)
(* in between:                                                             *)
(* - DuckDB: a task applies days it read before the setting was changed,   *)
(*   or the default because the daily pass could not read the setting;     *)
(* - DuckDB: the manual cleanup of a disabled retention, which removes     *)
(*   every record, young or old;                                           *)
(* - ClickHouse: the record is past the TTL in force, which is not the     *)
(*   setting's because its save is under way, could not be applied, or was *)
(*   not applied for being disabled or no number, because a database was   *)
(*   restored, or because such late or unread days were applied to it.     *)
RecordsLeaveOnlyByNamedCause ==
  [][\A r \in Records : Leaves(r) =>
       \/ Days > 0 /\ Past(r, Days)
       \/ /\ backend = "clickhouse" /\ Past(r, ttl)
          /\ stray # "none"
          /\ stray = "pending" => \E t \in Tasks : Saving(t)
       \/ backend = "duckdb" /\ \E t \in Tasks :
            /\ Deletes(t)
            /\ \/ task[t].why # "fresh" /\ Past(r, task[t].days)
               \/ task[t].kind = "cleanup" /\ Days = 0]_vars

(* "Make the configured window true" (app/storage/base.py:98): when the    *)
(* setting stays at some days, these are the days of the TTL in the end,   *)
(* shorter or longer, and no record stays that is past them, on either     *)
(* backend; whatever late days are still applied, whichever reads and      *)
(* statements fail, and although a failed save is never repeated.          *)
RetentionComesTrue ==
  \A days \in 1 .. MaxDays :
    <>[](setting = days) =>
      /\ <>[](backend = "clickhouse" => ttl = days)
      /\ \A r \in Records : []<>(r \notin DOMAIN age \/ ~Past(r, days))
=============================================================================
